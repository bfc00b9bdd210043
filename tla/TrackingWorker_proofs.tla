----------------------- MODULE TrackingWorker_proofs -----------------------
(***************************************************************************)
(* Theorems about the tracking worker, for a video of any length, any      *)
(* number of frames per chunk, any size of the actor's memory and any      *)
(* faults: the tracker gets the chunks in turn as long as none overtakes,  *)
(* the actor is released after the last chunk whoever handled it, what is  *)
(* published of a scene continues over chunk boundaries, and the actor's   *)
(* memory is bounded.                                                      *)
(*                                                                         *)
(* The invariant comes in layers: what is stored, waits and is remembered, *)
(* in whatever order the chunks come (Base); which chunk the calls, the    *)
(* checkpoint and the tracker are at while nothing overtakes (State); what *)
(* has been fed to them (Straight, or Strange when the tracker began with  *)
(* a later chunk); and how much is held (MemoryInv).                       *)
(***************************************************************************)
EXTENDS TrackingWorker, FiniteSetTheorems, SequenceTheorems, WellFoundedInduction, TLAPS

(* The deliveries keep their type.                                         *)
LEMMA IsSequence ==
  ASSUME NEW S, NEW n \in Nat, NEW f \in [1..n -> S]
  PROVE  f \in Seq(S)
OBVIOUS

LEMMA BatchIsSequence ==
  ASSUME NEW C, NEW S \in SUBSET C, Cardinality(S) \in Nat,
         NEW f \in [1..Cardinality(S) -> S]
  PROVE  f \in Seq(C)
<1>1. PICK k \in Nat : k = Cardinality(S)
  OBVIOUS
<1>2. f \in [1..k -> C]
  BY <1>1
<1> QED BY <1>2, IsSequence

LEMMA RunIsSequence ==
  ASSUME NEW total \in Nat, NEW from \in Nat, NEW to \in (from + 1)..total
  PROVE  Run(from, to) \in Seq(0..(total - 1))
<1>1. to - from \in Nat
  OBVIOUS
<1>2. PICK n \in Nat : n = to - from
  BY Zenon, <1>1
<1>3. \A i \in 1..n : from + i - 1 \in 0..(total - 1)
  BY <1>2
<1>4. Run(from, to) \in [1..n -> 0..(total - 1)]
  BY <1>2, <1>3 DEF Run
<1> QED BY <1>4, IsSequence

(* What the consumer group does keeps its type.                            *)
Pass == held # <<>> /\ (Acks \/ Raises)

LEMMA GroupTypes ==
  ASSUME NEW total \in Nat, GroupTypeOK(total),
         Polls(total) \/ ReplyLost(total) \/ Pass \/ Stops \/ UNCHANGED groupVars
  PROVE  GroupTypeOK(total)'
<1> DEFINE chunks == 0..(total - 1)
<1>1. /\ delivered \in 0..total /\ held \in Seq(chunks)
      /\ acked \subseteq chunks /\ given_up \subseteq acked
      /\ attempts \in [chunks -> 0..(MaxAttempts - 1)]
  BY DEF GroupTypeOK
<1>2. CASE Polls(total)
  <2>1. UNCHANGED <<acked, attempts, given_up>>
    BY <1>2 DEF Polls
  <2>2. CASE Claims
    <3>1. PICK S \in SUBSET Orphans : held' \in [1..Cardinality(S) -> S]
      BY <2>2 DEF Claims
    <3>2. S \subseteq chunks
      BY <1>1 DEF Orphans
    <3>3. Cardinality(S) \in Nat
      <4>1. IsFiniteSet(chunks)
        BY FS_Interval
      <4>2. IsFiniteSet(S)
        BY <3>2, <4>1, FS_Subset
      <4> QED BY <4>2, FS_CardinalityType
    <3>4. held' \in Seq(chunks)
      BY <3>1, <3>2, <3>3, BatchIsSequence
    <3> QED BY <1>1, <2>1, <2>2, <3>4 DEF GroupTypeOK, Claims
  <2>3. CASE Reads(total)
    <3>1. delivered' \in (delivered + 1)..total /\ held' = Run(delivered, delivered')
      BY <2>3 DEF Reads
    <3>2. PICK from \in Nat : from = delivered
      BY <1>1
    <3>3. PICK to \in (from + 1)..total : to = delivered'
      BY <3>1, <3>2
    <3>5. held' \in Seq(chunks)
      BY <3>1, <3>2, <3>3, RunIsSequence
    <3> QED BY <1>1, <2>1, <3>1, <3>5 DEF GroupTypeOK
  <2> QED BY <1>2, <2>2, <2>3 DEF Polls
<1>3. CASE ReplyLost(total)
  BY <1>1, <1>3 DEF ReplyLost, GroupTypeOK
<1>4. CASE Pass
  <2>1. PICK c : c = Head(held)
    OBVIOUS
  <2>2. c \in chunks /\ Tail(held) \in Seq(chunks) /\ attempts[c] \in Nat
    BY <1>1, <1>4, <2>1 DEF Pass
  <2>3. CASE Acks
    <3>1. /\ acked' = acked \cup {c} /\ held' = Tail(held)
          /\ attempts' = [attempts EXCEPT ![c] = 0]
          /\ UNCHANGED <<delivered, given_up>>
      BY <2>1, <2>3 DEF Acks
    <3> QED BY <1>1, <2>2, <3>1, GroupAssumption DEF GroupTypeOK
  <2>4. CASE Raises /\ attempts[c] + 1 < MaxAttempts
    <3>1. /\ attempts' = [attempts EXCEPT ![c] = attempts[c] + 1]
          /\ UNCHANGED <<delivered, held, acked, given_up>>
      BY <2>1, <2>4 DEF Raises
    <3>2. attempts[c] + 1 \in 0..(MaxAttempts - 1)
      BY <2>2, <2>4, GroupAssumption
    <3> QED BY <1>1, <3>1, <3>2 DEF GroupTypeOK
  <2>5. CASE Raises /\ ~(attempts[c] + 1 < MaxAttempts)
    <3>1. /\ acked' = acked \cup {c} /\ held' = Tail(held)
          /\ attempts' = [attempts EXCEPT ![c] = 0]
          /\ given_up' = given_up \cup {c} /\ UNCHANGED delivered
      BY <2>1, <2>5 DEF Raises
    <3> QED BY <1>1, <2>2, <3>1, GroupAssumption DEF GroupTypeOK
  <2> QED BY <1>4, <2>3, <2>4, <2>5 DEF Pass
<1>5. CASE Stops
  BY <1>1, <1>5 DEF Stops, GroupTypeOK
<1>6. CASE UNCHANGED groupVars
  BY <1>1, <1>6 DEF groupVars, GroupTypeOK
<1> QED BY <1>2, <1>3, <1>4, <1>5, <1>6

LEMMA TotalNat == LastChunk \in Nat /\ LastChunk + 1 \in Nat /\ 0..(LastChunk + 1 - 1) = Chunk
  BY TrackingAssumption DEF Chunk
-----------------------------------------------------------------------------
(* Actions that belong together: those that leave the actor and what is    *)
(* stored alone, and those in which the actor serves a call.               *)
Aside == \/ Poll \/ HandlerFails \/ Interrupted \/ WorkerStops \/ PublishRefused
         \/ \E c \in Chunk : CallsDeadActor(c)

Serves == ActorStep \/ ActorCannotFetch \/ ActorFailsMidway

LEMMA AsideStep ==
  ASSUME Aside
  PROVE  /\ UNCHANGED <<video, actor, stored, order>>
         /\ handler' = handler \/ handler' = Idle
         /\ queue' = queue \/ queue' = <<>> \/ queue' = Abandoned(queue)
         /\ handler' # Idle => queue' = queue /\ (held' = held \/ held = <<>>)
BY DEF Aside, Poll, Polls, Claims, Reads, ReplyLost, HandlerFails, Interrupted, WorkerStops,
   PublishRefused, CallsDeadActor, order, stored, video

(* A call is answered from memory; it is refused or its frames are missing *)
(* and the tracker is restored at most; its job fails midway; or the job   *)
(* is fed to the tracker and the response remembered.                      *)
ActorIs(restored, tracker, cache) ==
  /\ actor'.status = "alive" /\ actor'.restored = restored
  /\ actor'.tracker = tracker /\ actor'.cache = cache

Answers(r, state) ==
  /\ r \in Remembered
  /\ state = IF r.checkpoint = {} THEN {actor.tracker} ELSE r.checkpoint
  /\ ActorIs(actor.restored, actor.tracker,
             (actor.cache \ {r}) \cup {Response(r.chunk, r.tracks, state)})
  /\ Return(r.tracks, CHOOSE t \in state : TRUE)

Restores == Remembered = {} /\ ActorIs(TRUE, Restored, actor.cache) /\ Raise

Breaks(t) ==
  /\ Remembered = {} /\ Expected(Restored) = {Call.chunk} /\ Fault("mid_job")
  /\ t.expected = {Call.chunk} /\ ActorIs(TRUE, t, actor.cache) /\ Raise

JobTracks == Tracks(Restored.byte_tracker, Job(Call.chunk))

Feeds(state, cache) ==
  /\ Remembered = {} /\ Expected(Restored) = {Call.chunk}
  /\ ActorIs(TRUE, Processed, cache)
  /\ LET r == Response(Call.chunk, JobTracks, state)
     IN  \/ /\ state = {Processed} /\ cache = Kept(actor.cache \cup {r})
            /\ Return(JobTracks, Processed)
         \/ /\ state = {} /\ cache = actor.cache \cup {r}
            /\ Fault("export") /\ Raise

LEMMA Served ==
  ASSUME Serves
  PROVE  /\ Serving /\ queue' = Tail(queue) /\ UNCHANGED <<video, stored, order>>
         /\ \/ \E r, state : Answers(r, state)
            \/ Restores
            \/ \E t : Breaks(t)
            \/ \E state, cache : Feeds(state, cache)
<1>1. CASE ActorRemembers
  <2>1. PICK r \in Remembered :
          LET state    == IF r.checkpoint = {} THEN {actor.tracker} ELSE r.checkpoint
              answered == Response(r.chunk, r.tracks, state)
          IN  /\ actor' = Actor(actor.restarts, actor.restored, actor.tracker,
                                (actor.cache \ {r}) \cup {answered})
              /\ Return(r.tracks, CHOOSE t \in state : TRUE)
    BY <1>1 DEF ActorRemembers
  <2>2. PICK state : state = IF r.checkpoint = {} THEN {actor.tracker} ELSE r.checkpoint
    OBVIOUS
  <2>3. Answers(r, state)
    BY <2>1, <2>2 DEF Answers, Actor, ActorIs
  <2> QED BY <1>1, <2>1, <2>3 DEF ActorRemembers, Return
<1>2. CASE ActorCannotFetch \/ ActorRefuses
  <2>1. Serving /\ UNCHANGED <<video, stored, order>> /\ Raise /\ Restores
    BY <1>2 DEF ActorCannotFetch, ActorRefuses, ActorBecomes, Actor, ActorIs, Restores
  <2> QED BY <2>1 DEF Raise
<1>3. CASE ActorFailsMidway
  <2>1. \E b : ActorBecomes(Tracker({Call.chunk}, b), actor.cache)
    BY <1>3 DEF ActorFailsMidway
  <2>2. PICK t : t.expected = {Call.chunk} /\ ActorBecomes(t, actor.cache)
    BY <2>1 DEF Tracker
  <2>3. Serving /\ UNCHANGED <<video, stored, order>> /\ Raise /\ Breaks(t)
    BY <1>3, <2>2 DEF ActorFailsMidway, Accepts, ActorBecomes, Actor, ActorIs, Breaks
  <2> QED BY <2>3 DEF Raise
<1>4. CASE ActorProcesses
  <2>1. Serving /\ Remembered = {} /\ Expected(Restored) = {Call.chunk}
        /\ UNCHANGED <<video, stored, order>>
    BY <1>4 DEF ActorProcesses, Accepts
  <2> DEFINE R(state) == Response(Call.chunk, JobTracks, state)
  <2>2. CASE /\ ActorBecomes(Processed, Kept(actor.cache \cup {R({Processed})}))
             /\ Return(JobTracks, Processed)
    <3>1. Feeds({Processed}, Kept(actor.cache \cup {R({Processed})}))
      BY <2>1, <2>2 DEF Feeds, ActorBecomes, Actor, ActorIs
    <3> QED BY <2>1, <2>2, <3>1 DEF Return
  <2>3. CASE Fault("export") /\ ActorBecomes(Processed, actor.cache \cup {R({})}) /\ Raise
    <3>1. Feeds({}, actor.cache \cup {R({})})
      BY <2>1, <2>3 DEF Feeds, ActorBecomes, Actor, ActorIs
    <3> QED BY <2>1, <2>3, <3>1 DEF Raise
  <2> QED BY <1>4, <2>2, <2>3 DEF ActorProcesses, JobTracks
<1> QED BY <1>1, <1>2, <1>3, <1>4 DEF Serves, ActorStep

(* The steps, one by one or in these groups.                               *)
LEMMA Steps ==
  ASSUME [Next]_vars
  PROVE  \/ UNCHANGED vars
         \/ Aside \/ Serves \/ ActorDies
         \/ \E c \in Chunk : StartCached(c) \/ StartWithoutClasses(c) \/ StartInference(c)
         \/ Persist \/ Publish \/ Release \/ DeleteState \/ Ack
BY DEF Next, HandlerStep, Handle, Aside, Serves

(* The video stays what it is, and faults are only added.                  *)
LEMMA Noted ==
  ASSUME [Next]_vars
  PROVE  /\ UNCHANGED video
         /\ faults' = faults \/ \E kind \in FaultKind : Fault(kind)
<1> USE DEF FaultKind, CountedKind
<1>1. CASE UNCHANGED vars
  BY <1>1 DEF vars, video
<1>2. CASE Aside
  BY <1>2 DEF Aside, Poll, Polls, ReplyLost, HandlerFails, Interrupted, WorkerStops, Stops,
     PublishRefused, CallsDeadActor, video
<1>3. CASE Serves \/ ActorDies
  BY <1>3 DEF Serves, ActorStep, ActorRemembers, ActorProcesses, ActorRefuses, ActorCannotFetch,
     ActorFailsMidway, ActorDies, video
<1>4. CASE \E c \in Chunk : StartCached(c) \/ StartWithoutClasses(c) \/ StartInference(c)
  BY <1>4 DEF StartCached, StartWithoutClasses, StartInference, video
<1>5. CASE Persist \/ Publish \/ Release \/ DeleteState \/ Ack
  BY <1>5 DEF Persist, Publish, Release, DeleteState, Ack, video
<1> QED BY <1>1, <1>2, <1>3, <1>4, <1>5, Steps

(* What has happened has happened.                                         *)
LEMMA LastOfAppend ==
  ASSUME NEW S, NEW s \in Seq(S), NEW e, NEW r, r = Append(s, e)
  PROVE  Len(s) + 1 \in DOMAIN r /\ r[Len(s) + 1] = e
<1>1. Len(s) \in Nat /\ Len(r) = Len(s) + 1 /\ DOMAIN r = 1..Len(r)
  OBVIOUS
<1>2. r[Len(s) + 1] = e
  OBVIOUS
<1> QED BY ONLY <1>1, <1>2

LEMMA Remains ==
  ASSUME faults \in Seq(FaultKind), faults' = faults \/ \E kind \in FaultKind : Fault(kind)
  PROVE  /\ faults' \in Seq(FaultKind)
         /\ \A kind : Happened(kind) => Happened(kind)'
         /\ \A kind \in FaultKind : Fault(kind) => Happened(kind)'
<1>1. faults' \in Seq(FaultKind)
  BY DEF Fault
<1>2. ToSet(faults) \subseteq ToSet(faults')
  <2>1. CASE faults' = faults
    BY <2>1
  <2>2. ASSUME NEW kind \in FaultKind, faults' = Append(faults, kind)
        PROVE  ToSet(faults) \subseteq ToSet(faults')
    <3>1. \A i \in DOMAIN faults : i \in DOMAIN faults' /\ faults'[i] = faults[i]
      BY <2>2
    <3> QED BY <3>1 DEF ToSet
  <2> QED BY <2>1, <2>2 DEF Fault
<1>3. \A kind : Happened(kind) => Happened(kind)'
  BY <1>2 DEF Happened
<1>4. ASSUME NEW kind \in FaultKind, Fault(kind) PROVE Happened(kind)'
  <2>1. Len(faults) + 1 \in DOMAIN faults' /\ faults'[Len(faults) + 1] = kind
    BY <1>4, LastOfAppend DEF Fault
  <2> QED BY <2>1 DEF Happened, ToSet
<1> QED BY <1>1, <1>3, <1>4
-----------------------------------------------------------------------------
(* What holds in whatever order the chunks come.  The calls that wait;     *)
(* the handler waits for the last of them at most.                         *)
Requests == {<<queue[i].chunk, queue[i].checkpoint>> : i \in 1..Len(queue)}

QueueInv ==
  /\ \E S : queue \in Seq(S)
  /\ \A i \in 1..Len(queue) :
       /\ queue[i].awaited \in BOOLEAN
       /\ queue[i].awaited =>
            i = Len(queue) /\ handler.at = "infer" /\ queue[i].chunk = Head(held)
  /\ actor.status # "alive" => queue = <<>>

(* The handler works on the first chunk that the worker holds.             *)
Busy == \/ handler.at = "infer" /\ classes
        \/ /\ handler.at = "persist" /\ handler.result.chunk = Head(held)
           /\ queue = <<>> /\ classes
        \/ /\ handler.at = "publish" /\ handler.result.chunk = Head(held)
           /\ handler.result \in results
        \/ /\ handler.at \in {"release", "delete"} /\ handler.chunk = Head(held)
           /\ handler.chunk = LastChunk /\ next = LastChunk + 1
        \/ handler.at = "ack" /\ handler.chunk = Head(held) /\ handler.chunk < next

WorkInv == handler = Idle \/ (held # <<>> /\ Busy)

(* What is published is stored, and what is acknowledged is published.     *)
OrderInv ==
  /\ next \in 0..(LastChunk + 1) /\ published \subseteq results
  /\ \A r \in results : r.chunk \in Chunk
  /\ \A c \in 0..(next - 1) : \E r \in results : r.chunk = c
  /\ \A c \in acked \ given_up : c < next

(* There is a checkpoint as soon as there is a result, until the last      *)
(* chunk is published.                                                     *)
StoreInv ==
  /\ results = {} => checkpoint = {}
  /\ classes /\ checkpoint = {} => results = {} \/ next = LastChunk + 1
  /\ ~classes => actor.status # "alive" /\ checkpoint = {}
  /\ \A t \in checkpoint : t.expected # {}
  /\ handler.at = "persist" => handler.checkpoint.expected # {}
  /\ \A q \in Requests : /\ q[1] \in Chunk
                         /\ q[2] # {} => results # {}
                         /\ \A t \in q[2] : t.expected # {}

(* A tracker that has been fed nothing; once it has been restored, or is   *)
(* called without a checkpoint, nothing is stored either.                  *)
Unfed == actor.tracker.expected = {}

Answer(r) == r.chunk \in Chunk /\ \A t \in r.checkpoint : t.expected # {}

ActorInv ==
  actor.status = "alive" =>
    /\ actor.restored \in BOOLEAN /\ \A r \in actor.cache : Answer(r)
    /\ ~actor.restored => Unfed
    /\ Unfed => actor.tracker = NewTracker /\ actor.cache = {}
    /\ Unfed /\ (actor.restored \/ \E q \in Requests : q[2] = {})
         => results = {} /\ handler.at \in {"idle", "infer"}

Cuts == scenes \subseteq Frames \ {0}

Base == /\ GroupTypeOK(LastChunk + 1) /\ faults \in Seq(FaultKind) /\ Cuts
        /\ QueueInv /\ WorkInv /\ OrderInv /\ StoreInv /\ ActorInv
-----------------------------------------------------------------------------
LEMMA HeadOfHeld ==
  ASSUME GroupTypeOK(LastChunk + 1), held # <<>>
  PROVE  Head(held) \in Chunk
BY TotalNat DEF GroupTypeOK

(* The queue after a call was served, made or abandoned.                   *)
LEMMA TailOf ==
  ASSUME NEW S, queue \in Seq(S), queue # <<>>, NEW q, q = Tail(queue)
  PROVE  /\ q \in Seq(S) /\ Len(queue) \in Nat \ {0} /\ Len(q) = Len(queue) - 1
         /\ \A i \in 1..Len(q) : q[i] = queue[i + 1] /\ i + 1 \in 1..Len(queue)
         /\ Call = queue[1] /\ 1 \in 1..Len(queue)
BY DEF Call

LEMMA AppendOf ==
  ASSUME NEW S, queue \in Seq(S), NEW call, NEW q, q = Append(queue, call)
  PROVE  /\ q \in Seq(S \cup {call}) /\ Len(q) = Len(queue) + 1 /\ Len(queue) \in Nat
         /\ \A i \in 1..Len(queue) : q[i] = queue[i] /\ i \in 1..Len(q)
         /\ q[Len(q)] = call
         /\ \A i \in 1..Len(q) : i \in 1..Len(queue) \/ i = Len(q)
<1>1. queue \in Seq(S \cup {call}) /\ Len(queue) \in Nat
  OBVIOUS
<1> QED BY <1>1

LEMMA AbandonedOf ==
  ASSUME NEW S, queue \in Seq(S)
  PROVE  /\ \E T : Abandoned(queue) \in Seq(T)
         /\ Len(Abandoned(queue)) = Len(queue)
         /\ \A i \in 1..Len(queue) : Abandoned(queue)[i] = ProcessCall(queue[i].chunk, queue[i].checkpoint, FALSE)
         /\ queue = <<>> => Abandoned(queue) = <<>>
<1> DEFINE T == {ProcessCall(queue[i].chunk, queue[i].checkpoint, FALSE) : i \in 1..Len(queue)}
<1>1. Len(queue) \in Nat /\ DOMAIN queue = 1..Len(queue)
  OBVIOUS
<1>2. PICK n \in Nat : n = Len(queue)
  BY <1>1
<1>3. Abandoned(queue) = [i \in 1..n |-> ProcessCall(queue[i].chunk, queue[i].checkpoint, FALSE)]
  BY <1>1, <1>2 DEF Abandoned
<1>4. \A i \in 1..n : ProcessCall(queue[i].chunk, queue[i].checkpoint, FALSE) \in T
  BY <1>2
<1> HIDE DEF T
<1>5. Abandoned(queue) \in [1..n -> T]
  BY <1>3, <1>4
<1>6. Abandoned(queue) \in Seq(T) /\ Len(Abandoned(queue)) = n
  BY <1>5, IsSequence
<1>7. queue = <<>> => Abandoned(queue) = <<>>
  <2>1. queue = <<>> => Len(Abandoned(queue)) = 0
    BY <1>2, <1>6
  <2> QED BY <1>6, <2>1
<1> QED BY <1>2, <1>3, <1>6, <1>7

(* Who waits, and how the calls that wait change.                          *)
LEMMA FirstRequest ==
  ASSUME QueueInv, queue # <<>>
  PROVE  /\ <<Call.chunk, Call.checkpoint>> \in Requests
         /\ Call.awaited \in BOOLEAN
         /\ Call.awaited => Tail(queue) = <<>> /\ handler.at = "infer" /\ Call.chunk = Head(held)
<1>1. PICK S : queue \in Seq(S)
  BY DEF QueueInv
<1>2. PICK q : q = Tail(queue)
  OBVIOUS
<1>3. /\ q \in Seq(S) /\ Len(queue) \in Nat \ {0} /\ Len(q) = Len(queue) - 1
      /\ Call = queue[1] /\ 1 \in 1..Len(queue)
  BY <1>1, <1>2, TailOf
<1>4. Call.awaited \in BOOLEAN
      /\ (Call.awaited => 1 = Len(queue) /\ handler.at = "infer" /\ Call.chunk = Head(held))
  BY <1>3 DEF QueueInv
<1>5. ASSUME Call.awaited PROVE q = <<>>
  <2>1. 1 = Len(queue)
    BY <1>4, <1>5
  <2>2. Len(q) = Len(queue) - 1
    BY <1>3
  <2>3. Len(q) = 1 - 1
    BY ONLY <2>1, <2>2
  <2> QED BY <1>3, <2>3
<1>6. <<Call.chunk, Call.checkpoint>> \in Requests
  BY <1>3 DEF Requests
<1> QED BY <1>2, <1>4, <1>5, <1>6

NewRequest(c) == StartInference(c) /\ Requests' \subseteq Requests \cup {<<c, checkpoint>>}

LEMMA QueueStep ==
  ASSUME GroupTypeOK(LastChunk + 1), QueueInv, WorkInv, [Next]_vars
  PROVE  /\ QueueInv'
         /\ Requests' \subseteq Requests \/ \E c \in Chunk : NewRequest(c)
<1>1. PICK S : queue \in Seq(S)
  BY DEF QueueInv
<1>2. \A i \in 1..Len(queue) :
        /\ queue[i].awaited \in BOOLEAN
        /\ queue[i].awaited =>
             i = Len(queue) /\ handler.at = "infer" /\ queue[i].chunk = Head(held)
  BY DEF QueueInv
<1>3. actor.status # "alive" => queue = <<>>
  BY DEF QueueInv
(* The queue stays as it is, and nobody waits or he goes on waiting.       *)
<1>k. ASSUME queue' = queue, actor' = actor,
             handler.at # "infer" \/ (handler' = handler /\ held' = held)
      PROVE  QueueInv' /\ Requests' \subseteq Requests
  BY <1>1, <1>2, <1>3, <1>k DEF QueueInv, Requests
<1>e. ASSUME queue' = <<>> PROVE QueueInv' /\ Requests' \subseteq Requests
  BY <1>e DEF QueueInv, Requests
<1>b. ASSUME queue' = Abandoned(queue), actor' = actor PROVE QueueInv' /\ Requests' \subseteq Requests
  <2>1. /\ \E T : queue' \in Seq(T)
        /\ Len(queue') = Len(queue)
        /\ \A i \in 1..Len(queue) : queue'[i] = ProcessCall(queue[i].chunk, queue[i].checkpoint, FALSE)
        /\ queue = <<>> => queue' = <<>>
    BY <1>1, <1>b, AbandonedOf
  <2>2. ASSUME NEW i \in 1..Len(queue)
        PROVE  /\ queue'[i].chunk = queue[i].chunk
               /\ queue'[i].checkpoint = queue[i].checkpoint
               /\ ~queue'[i].awaited /\ queue'[i].awaited \in BOOLEAN
    <3>1. PICK a : a = queue[i]
      OBVIOUS
    <3>2. queue'[i] = [chunk |-> a.chunk, checkpoint |-> a.checkpoint, awaited |-> FALSE]
      BY <2>1, <3>1 DEF ProcessCall
    <3>3. queue'[i].awaited = FALSE
      BY <3>2
    <3> QED BY <3>1, <3>2, <3>3
  <2>3. QueueInv'
    BY <1>3, <1>b, <2>1, <2>2 DEF QueueInv
  <2>4. Requests' \subseteq Requests
    BY <2>1, <2>2 DEF Requests
  <2> QED BY <2>3, <2>4
<1>4. CASE UNCHANGED vars
  BY <1>k, <1>4 DEF vars, groupVars
<1>5. CASE Aside
  <2>1. \/ handler.at # "infer" /\ queue' = queue
        \/ queue' = <<>> \/ queue' = Abandoned(queue)
    BY <1>5 DEF Aside, Poll, Polls, Claims, Reads, ReplyLost, HandlerFails, Interrupted,
       WorkerStops, PublishRefused, CallsDeadActor, WorkInv, Busy, Idle
  <2>2. actor' = actor
    BY <1>5, AsideStep
  <2> QED BY <1>k, <1>e, <1>b, <2>1, <2>2
<1>6. CASE Serves
  <2>1. /\ Serving /\ queue' = Tail(queue)
        /\ actor'.status = "alive"
        /\ Call.awaited \/ (handler' = handler /\ held' = held)
    BY <1>6, Served DEF Answers, Restores, Breaks, Feeds, ActorIs, Raise, Return, groupVars
  <2>2. CASE Call.awaited
    BY <1>e, <2>1, <2>2, FirstRequest DEF Serving
  <2>3. CASE ~Call.awaited
    <3>1. /\ queue' \in Seq(S) /\ Len(queue) \in Nat \ {0} /\ Len(queue') = Len(queue) - 1
          /\ \A i \in 1..Len(queue') : queue'[i] = queue[i + 1] /\ i + 1 \in 1..Len(queue)
      BY <1>1, <2>1, TailOf DEF Serving
    <3>2. handler' = handler /\ held' = held
      BY <2>1, <2>3
    <3>3. ASSUME NEW i \in 1..Len(queue')
          PROVE  /\ queue'[i].awaited \in BOOLEAN
                 /\ queue'[i].awaited =>
                      i = Len(queue') /\ handler'.at = "infer" /\ queue'[i].chunk = Head(held')
      <4>1. queue'[i] = queue[i + 1] /\ i + 1 \in 1..Len(queue)
        BY <3>1
      <4>2. /\ queue[i + 1].awaited \in BOOLEAN
            /\ queue[i + 1].awaited =>
                 i + 1 = Len(queue) /\ handler.at = "infer" /\ queue[i + 1].chunk = Head(held)
        BY <1>2, <4>1
      <4> QED BY <3>1, <3>2, <4>1, <4>2
    <3>4. QueueInv'
      BY <2>1, <3>1, <3>3 DEF QueueInv
    <3>5. Requests' \subseteq Requests
      <4> SUFFICES ASSUME NEW i \in 1..Len(queue')
                   PROVE  <<queue'[i].chunk, queue'[i].checkpoint>> \in Requests
        BY DEF Requests
      <4>1. queue'[i] = queue[i + 1] /\ i + 1 \in 1..Len(queue)
        BY <3>1
      <4> QED BY <4>1 DEF Requests
    <3> QED BY <3>4, <3>5
  <2> QED BY <2>2, <2>3
<1>7. CASE ActorDies
  BY <1>e, <1>7 DEF ActorDies
<1>8. ASSUME NEW c \in Chunk, StartCached(c) \/ StartWithoutClasses(c)
      PROVE  QueueInv' /\ Requests' \subseteq Requests
  <2>1. queue' = queue /\ actor' = actor /\ handler = Idle
    BY <1>8 DEF StartCached, StartWithoutClasses
  <2> QED BY <1>k, <2>1 DEF Idle
<1>9. ASSUME NEW c \in Chunk, StartInference(c)
      PROVE  QueueInv' /\ NewRequest(c)
  <2> DEFINE call == ProcessCall(c, checkpoint, TRUE)
  <2>1. /\ queue' = Append(queue, call) /\ handler = Idle /\ handler'.at = "infer"
        /\ actor'.status = "alive" /\ UNCHANGED held /\ c = Head(held)
    BY <1>9 DEF StartInference, NewActor, Actor, Handles, groupVars
  <2>2. call.chunk = c /\ call.checkpoint = checkpoint /\ call.awaited = TRUE
    BY DEF ProcessCall
  <2> HIDE DEF call
  <2>3. /\ queue' \in Seq(S \cup {call}) /\ Len(queue') = Len(queue) + 1 /\ Len(queue) \in Nat
        /\ \A i \in 1..Len(queue) : queue'[i] = queue[i]
        /\ queue'[Len(queue')] = call
        /\ \A i \in 1..Len(queue') : i \in 1..Len(queue) \/ i = Len(queue')
    BY <1>1, <2>1, AppendOf
  <2>4. \A i \in 1..Len(queue) : queue[i].awaited = FALSE
    BY <1>2, <2>1 DEF Idle
  <2>5. QueueInv'
    BY <2>1, <2>2, <2>3, <2>4 DEF QueueInv
  <2>6. Requests' \subseteq Requests \cup {<<c, checkpoint>>}
    <3> SUFFICES ASSUME NEW i \in 1..Len(queue')
                 PROVE  <<queue'[i].chunk, queue'[i].checkpoint>> \in Requests \cup {<<c, checkpoint>>}
      BY DEF Requests
    <3>1. CASE i \in 1..Len(queue)
      BY <2>3, <3>1 DEF Requests
    <3>2. CASE i = Len(queue')
      BY <2>2, <2>3, <3>2
    <3> QED BY <2>3, <3>1, <3>2
  <2> QED BY <1>9, <2>5, <2>6 DEF NewRequest
<1>10. CASE Persist \/ Publish \/ DeleteState \/ Ack
  <2>1. queue' = queue /\ actor' = actor /\ handler.at # "infer"
    BY <1>10 DEF Persist, Publish, DeleteState, Ack
  <2> QED BY <1>k, <2>1
<1>11. CASE Release
  <2>1. CASE queue' = <<>>
    BY <1>e, <2>1
  <2>2. CASE queue' = queue /\ actor' = actor
    BY <1>k, <1>11, <2>2 DEF Release
  <2> QED BY <1>11, <2>1, <2>2 DEF Release
<1> QED BY <1>4, <1>5, <1>6, <1>7, <1>8, <1>9, <1>10, <1>11, Steps
-----------------------------------------------------------------------------
(* The handler and the batch.                                              *)
Moves == \/ Polls(LastChunk + 1) \/ ReplyLost(LastChunk + 1)
         \/ Pass \/ Stops \/ UNCHANGED groupVars

LEMMA GroupStep ==
  ASSUME QueueInv, WorkInv, [Next]_vars
  PROVE  /\ Moves
         /\ handler' # Idle => held' = held \/ handler' = handler
<1>0. handler # Idle => held # <<>>
  BY DEF WorkInv
<1>1. CASE UNCHANGED vars
  BY <1>1 DEF vars, Moves
<1>2. CASE Aside
  <2>1. CASE Poll
    BY <2>1 DEF Poll, Moves
  <2>2. CASE HandlerFails \/ PublishRefused
    <3>1. handler # Idle /\ Raises /\ handler' = Idle
      BY <2>2 DEF HandlerFails, PublishRefused, Idle
    <3> QED BY <1>0, <3>1 DEF Pass, Moves
  <2>3. CASE Interrupted
    BY <2>3 DEF Interrupted, Moves
  <2>4. CASE WorkerStops
    BY <2>4 DEF WorkerStops, Moves
  <2>5. ASSUME NEW c \in Chunk, CallsDeadActor(c) PROVE Moves /\ handler' = handler
    BY <2>5 DEF CallsDeadActor, Handles, Pass, Moves
  <2> QED BY <1>2, <2>1, <2>2, <2>3, <2>4, <2>5 DEF Aside
<1>3. CASE Serves
  <2>1. Serving /\ (Raise \/ \E tracks, state : Return(tracks, state))
    BY <1>3, Served DEF Answers, Restores, Breaks, Feeds
  <2>2. CASE Raise /\ Call.awaited
    <3>1. handler.at = "infer" /\ Raises /\ handler' = Idle
      BY <2>1, <2>2, FirstRequest DEF Raise, Serving
    <3> QED BY <1>0, <3>1 DEF Pass, Moves, Idle
  <2>3. CASE ~(Raise /\ Call.awaited)
    <3>1. UNCHANGED groupVars
      BY <2>1, <2>3 DEF Raise, Return
    <3> QED BY <3>1 DEF Moves, groupVars
  <2> QED BY <2>2, <2>3
<1>4. CASE ActorDies
  <2>1. CASE handler.at = "infer"
    BY <1>0, <1>4, <2>1 DEF ActorDies, Idle, Pass, Moves
  <2>2. CASE handler.at # "infer"
    BY <1>4, <2>2 DEF ActorDies, Moves, groupVars
  <2> QED BY <2>1, <2>2
<1>5. ASSUME NEW c \in Chunk, StartCached(c) \/ StartWithoutClasses(c) \/ StartInference(c)
      PROVE  UNCHANGED groupVars
  BY <1>5 DEF StartCached, StartWithoutClasses, StartInference
<1>6. CASE Persist \/ Publish \/ Release \/ DeleteState
  BY <1>6 DEF Persist, Publish, Release, DeleteState, Moves, groupVars
<1>7. CASE Ack
  <2>1. handler # Idle
    BY <1>7 DEF Ack, Idle
  <2> QED BY <1>0, <1>7, <2>1 DEF Ack, Pass, Moves
<1> QED BY <1>1, <1>2, <1>3, <1>4, <1>5, <1>6, <1>7, Steps DEF Moves, groupVars

(* A chunk is settled by the acknowledgement after its handler.            *)
LEMMA Settles ==
  ASSUME [Next]_vars
  PROVE  acked' \ given_up' \subseteq acked \ given_up \/ Ack
<1> DEFINE Same == acked' \ given_up' \subseteq acked \ given_up
<1>1. Raises => Same
  BY DEF Raises
<1>2. UNCHANGED groupVars => Same
  BY DEF groupVars
<1>3. CASE UNCHANGED vars
  BY <1>2, <1>3 DEF vars
<1>4. CASE Aside
  BY <1>1, <1>2, <1>4 DEF Aside, Poll, Polls, ReplyLost, HandlerFails, Interrupted, WorkerStops,
     Stops, PublishRefused, CallsDeadActor
<1>5. CASE Serves
  <2>1. Raise \/ \E tracks, state : Return(tracks, state)
    BY <1>5, Served DEF Answers, Restores, Breaks, Feeds
  <2> QED BY <1>1, <1>2, <2>1 DEF Raise, Return, groupVars
<1>6. CASE ActorDies
  BY <1>1, <1>2, <1>6 DEF ActorDies, groupVars
<1>7. ASSUME NEW c \in Chunk, StartCached(c) \/ StartWithoutClasses(c) \/ StartInference(c)
      PROVE  Same
  BY <1>2, <1>7 DEF StartCached, StartWithoutClasses, StartInference
<1>8. CASE Persist \/ Publish \/ Release \/ DeleteState
  BY <1>2, <1>8 DEF Persist, Publish, Release, DeleteState
<1> QED BY <1>3, <1>4, <1>5, <1>6, <1>7, <1>8, Steps

LEMMA WorkStep ==
  ASSUME GroupTypeOK(LastChunk + 1), QueueInv, WorkInv, OrderInv, [Next]_vars
  PROVE  WorkInv'
<1> SUFFICES ASSUME handler' # Idle PROVE held' # <<>> /\ Busy'
  BY DEF WorkInv
<1> USE DEF video, stored, order
<1>0. handler = Idle \/ (held # <<>> /\ Busy)
  BY DEF WorkInv
<1>i. Idle.at = "idle"
  BY DEF Idle
<1>1. CASE UNCHANGED vars
  BY <1>0, <1>1 DEF vars, groupVars, Busy
<1>2. CASE Aside
  <2>1. UNCHANGED <<video, stored, order>> /\ handler' = handler /\ queue' = queue
        /\ (held' = held \/ held = <<>>)
    BY <1>2, AsideStep
  <2> QED BY <1>0, <2>1 DEF Busy
<1>3. CASE Serves
  <2>1. Serving /\ queue' = Tail(queue) /\ UNCHANGED <<video, stored, order>>
        /\ (Raise \/ \E tracks, state : Return(tracks, state))
    BY <1>3, Served DEF Answers, Restores, Breaks, Feeds
  <2>2. CASE Call.awaited
    <3>1. /\ queue' = <<>> /\ handler.at = "infer" /\ Call.chunk = Head(held)
      BY <2>1, <2>2, FirstRequest DEF Serving
    <3>2. /\ handler'.at = "persist" /\ handler'.result.chunk = Call.chunk /\ UNCHANGED groupVars
      BY <2>1, <2>2 DEF Raise, Return
    <3>3. held # <<>> /\ classes
      BY <1>0, <1>i, <3>1 DEF Busy
    <3> QED BY <2>1, <3>1, <3>2, <3>3 DEF Busy, groupVars
  <2>3. CASE ~Call.awaited
    <3>1. handler' = handler /\ UNCHANGED groupVars
      BY <2>1, <2>3 DEF Raise, Return
    <3>2. queue # <<>>
      BY <2>1 DEF Serving
    <3> QED BY <1>0, <2>1, <3>1, <3>2 DEF Busy, groupVars
  <2> QED BY <2>2, <2>3
<1>4. CASE ActorDies
  <2>1. /\ handler' = handler /\ UNCHANGED <<video, stored, order, groupVars>> /\ queue' = <<>>
    BY <1>4 DEF ActorDies
  <2> QED BY <1>0, <2>1 DEF Busy, groupVars
<1>5. ASSUME NEW c \in Chunk, StartCached(c) \/ StartWithoutClasses(c)
      PROVE  held' # <<>> /\ Busy'
  <2>1. \E r : handler' = [at |-> "publish", result |-> r] /\ r \in results' /\ r.chunk = c
    <3>1. CASE StartCached(c)
      BY <3>1 DEF StartCached, Cached
    <3>2. CASE StartWithoutClasses(c)
      <4>1. PICK r : r = [chunk |-> c, tracks |-> <<>>]
        OBVIOUS
      <4>2. r.chunk = c /\ results' = results \cup {r} /\ handler' = [at |-> "publish", result |-> r]
        BY <3>2, <4>1 DEF StartWithoutClasses
      <4> QED BY <4>2
    <3> QED BY <1>5, <3>1, <3>2
  <2>2. held # <<>> /\ c = Head(held) /\ UNCHANGED held
    BY <1>5 DEF StartCached, StartWithoutClasses, Handles, groupVars
  <2> QED BY <2>1, <2>2 DEF Busy
<1>6. ASSUME NEW c \in Chunk, StartInference(c) PROVE held' # <<>> /\ Busy'
  BY <1>6 DEF StartInference, Handles, groupVars, Busy
<1>7. CASE Persist
  <2>1. held # <<>> /\ handler.at = "persist" /\ handler.result.chunk = Head(held)
    BY <1>0, <1>i, <1>7 DEF Persist, Busy
  <2> QED BY <1>7, <2>1 DEF Persist, Busy, groupVars
<1>8. CASE Publish
  <2>1. held # <<>> /\ handler.at = "publish" /\ handler.result.chunk = Head(held)
    BY <1>0, <1>i, <1>8 DEF Publish, Busy
  <2>2. PICK c : c = handler.result.chunk
    OBVIOUS
  <2>3. c \in Chunk /\ next \in 0..(LastChunk + 1) /\ LastChunk \in Nat
    BY <2>1, <2>2, HeadOfHeld, TotalNat DEF OrderInv
  <2>4. /\ handler' = Then(IF c = LastChunk THEN "release" ELSE "ack", c)
        /\ (c = next /\ next' = next + 1) \/ (c < next /\ next' = next)
        /\ UNCHANGED held
    BY <1>8, <2>2 DEF Publish, groupVars
  <2>5. c < next' /\ next' \in 0..(LastChunk + 1) /\ (c = LastChunk => next' = LastChunk + 1)
    BY <2>3, <2>4 DEF Chunk
  <2>6. handler'.chunk = c /\ handler'.at = IF c = LastChunk THEN "release" ELSE "ack"
    BY <2>4 DEF Then
  <2> QED BY <2>1, <2>2, <2>4, <2>5, <2>6 DEF Busy
<1>9. CASE Release \/ DeleteState
  <2>1. held # <<>> /\ handler.chunk = Head(held) /\ handler.chunk = LastChunk /\ next = LastChunk + 1
    BY <1>0, <1>i, <1>9 DEF Release, DeleteState, Busy
  <2>2. handler'.at \in {"delete", "ack"} /\ handler'.chunk = handler.chunk /\ UNCHANGED <<held, order>>
    BY <1>9 DEF Release, DeleteState, Then, groupVars
  <2> QED BY <2>1, <2>2, TotalNat DEF Busy
<1>10. CASE Ack
  BY <1>10 DEF Ack
<1> QED BY <1>1, <1>2, <1>3, <1>4, <1>5, <1>6, <1>7, <1>8, <1>9, <1>10, Steps

(* What is published and acknowledged.                                     *)
LEMMA OrderStep ==
  ASSUME GroupTypeOK(LastChunk + 1), QueueInv, WorkInv, OrderInv, [Next]_vars
  PROVE  OrderInv' /\ results \subseteq results' /\ next <= next'
<1> USE DEF stored, order
<1>0. LastChunk \in Nat /\ next \in Nat
  BY TotalNat DEF OrderInv
<1>i. Idle.at = "idle"
  BY DEF Idle
<1>u. UNCHANGED groupVars => acked' \ given_up' \subseteq acked \ given_up
  BY DEF groupVars
<1>2. CASE /\ ~Ack
           /\ \/ UNCHANGED vars \/ Aside \/ Serves \/ ActorDies
              \/ \E c \in Chunk : StartCached(c) \/ StartInference(c)
              \/ Release \/ DeleteState
  <2>1. UNCHANGED <<results, order>>
    BY <1>2, AsideStep, Served DEF vars, ActorDies, StartCached, StartInference, Release, DeleteState
  <2>2. acked' \ given_up' \subseteq acked \ given_up
    BY <1>2, Settles
  <2> QED BY <1>0, <2>1, <2>2 DEF OrderInv
<1>3. ASSUME NEW c \in Chunk, StartWithoutClasses(c)
      PROVE  OrderInv' /\ results \subseteq results' /\ next <= next'
  <2>1. PICK r : r = [chunk |-> c, tracks |-> <<>>]
    OBVIOUS
  <2>2. /\ r.chunk = c /\ results' = results \cup {r} /\ UNCHANGED <<order, groupVars>>
    BY <1>3, <2>1 DEF StartWithoutClasses
  <2> QED BY <1>0, <1>u, <2>2 DEF OrderInv
<1>4. CASE Persist
  <2>1. /\ results' = results \cup {handler.result} /\ handler.result.chunk \in Chunk
        /\ UNCHANGED <<order, groupVars>>
    BY <1>4, <1>i, HeadOfHeld DEF Persist, WorkInv, Busy
  <2> QED BY <1>0, <1>u, <2>1 DEF OrderInv
<1>5. CASE Publish
  <2>1. PICK r : r = handler.result
    OBVIOUS
  <2>2. r \in results /\ r.chunk \in Chunk /\ r.chunk \in 0..LastChunk
    BY <1>5, <1>i, <2>1, HeadOfHeld DEF Publish, WorkInv, Busy, Chunk
  <2>3. UNCHANGED <<results, groupVars>>
        /\ \/ r.chunk = next /\ published' = published \cup {r} /\ next' = next + 1
           \/ r.chunk < next /\ UNCHANGED order
    BY <1>5, <2>1 DEF Publish
  <2>4. CASE r.chunk < next /\ UNCHANGED order
    BY <1>0, <1>u, <2>3, <2>4 DEF OrderInv
  <2>5. CASE r.chunk = next /\ published' = published \cup {r} /\ next' = next + 1
    <3>1. \A c \in 0..(next' - 1) : c \in 0..(next - 1) \/ c = next
      BY <1>0, <2>5
    <3>2. next' \in 0..(LastChunk + 1)
      BY <1>0, <2>2, <2>5
    <3>3. \A c \in acked' \ given_up' : c < next
      BY <1>u, <2>3 DEF OrderInv
    <3>4. \A c \in acked' \ given_up' : c < next'
      <4>1. \A c \in acked' : c \in Nat
        BY <2>3, TotalNat DEF GroupTypeOK, groupVars, Chunk
      <4> QED BY <1>0, <2>5, <3>3, <4>1
    <3> QED BY <1>0, <2>2, <2>3, <2>5, <3>1, <3>2, <3>4 DEF OrderInv
  <2> QED BY <2>3, <2>4, <2>5
<1>6. CASE Ack
  <2>1. /\ UNCHANGED <<results, order, given_up>> /\ Head(held) < next
        /\ acked' = acked \cup {Head(held)}
    BY <1>6, <1>i DEF Ack, Acks, WorkInv, Busy
  <2> QED BY <1>0, <2>1 DEF OrderInv
<1> QED BY <1>2, <1>3, <1>4, <1>5, <1>6, Steps
-----------------------------------------------------------------------------
(* The tracker that serves a call, and what becomes of it.                 *)
LEMMA ServedTracker ==
  ASSUME Base, Serving
  PROVE  /\ actor.status = "alive" /\ classes
         /\ <<Call.chunk, Call.checkpoint>> \in Requests /\ Call.chunk \in Chunk
         /\ \/ Call.checkpoint = {} /\ Restored = actor.tracker
            \/ Call.checkpoint # {} /\ actor.restored /\ Restored = actor.tracker
            \/ Call.checkpoint # {} /\ ~actor.restored /\ Restored \in Call.checkpoint
         /\ Remembered # {} => ~Unfed
         /\ \A t : Expected(t) # {} /\ (t.expected # {} => Expected(t) = t.expected)
<1>1. actor.status = "alive" /\ queue # <<>>
  BY DEF Serving
<1>2. <<Call.chunk, Call.checkpoint>> \in Requests
  BY <1>1, FirstRequest DEF Base
<1>3. Call.chunk \in Chunk
  BY <1>2 DEF Base, StoreInv
<1>4. actor.restored \in BOOLEAN /\ classes
  BY <1>1 DEF Base, ActorInv, StoreInv
<1>5. \/ Call.checkpoint = {} /\ Restored = actor.tracker
      \/ Call.checkpoint # {} /\ actor.restored /\ Restored = actor.tracker
      \/ Call.checkpoint # {} /\ ~actor.restored /\ Restored \in Call.checkpoint
  BY <1>4 DEF Restored
<1>6. Remembered # {} => ~Unfed
  BY <1>1 DEF Base, ActorInv, Remembered
<1>7. \A t : Expected(t) # {} /\ (t.expected # {} => Expected(t) = t.expected)
  BY DEF Expected
<1> QED BY <1>1, <1>2, <1>3, <1>4, <1>5, <1>6, <1>7

(* What a fed tracker returns or stores has been fed.                      *)
LEMMA AnswerFed ==
  ASSUME Base, Serving, NEW r, NEW state, Answers(r, state)
  PROVE  /\ r \in actor.cache /\ Answer(r) /\ r.chunk = Call.chunk /\ ~Unfed
         /\ state # {} /\ \A t \in state : t.expected # {}
         /\ (CHOOSE t \in state : TRUE) \in state
<1>1. r \in actor.cache /\ r.chunk = Call.chunk
  BY DEF Answers, Remembered
<1>2. actor.status = "alive" /\ ~Unfed
  BY ServedTracker DEF Answers
<1>3. Answer(r)
  BY <1>1, <1>2 DEF Base, ActorInv
<1>4. state # {} /\ \A t \in state : t.expected # {}
  BY <1>2, <1>3 DEF Answers, Answer, Unfed
<1> QED BY <1>1, <1>2, <1>3, <1>4

LEMMA StoreStep ==
  ASSUME Base, [Next]_vars
  PROVE  StoreInv'
<1> USE DEF video, stored, order
<1>b. /\ QueueInv /\ WorkInv /\ OrderInv /\ StoreInv /\ GroupTypeOK(LastChunk + 1)
  BY DEF Base
<1>i. Idle.at = "idle"
  BY DEF Idle
<1>o. OrderInv' /\ results \subseteq results' /\ next <= next' /\ QueueInv'
  BY <1>b, OrderStep, QueueStep
<1>n. next \in Nat /\ next' \in 0..(LastChunk + 1) /\ next <= next' /\ LastChunk \in Nat
  BY <1>o, TotalNat DEF OrderInv, Base
<1>v. classes' = classes
  BY Noted
(* The calls: a new one carries the checkpoint.                            *)
<1>r. \A q \in Requests' : q \in Requests \/ (q[2] = checkpoint /\ q[1] \in Chunk)
  <2>1. CASE Requests' \subseteq Requests
    BY <2>1
  <2>2. ASSUME NEW c \in Chunk, NewRequest(c)
        PROVE  \A q \in Requests' : q \in Requests \/ (q[2] = checkpoint /\ q[1] \in Chunk)
    BY <2>2 DEF NewRequest
  <2> QED BY <2>1, <2>2, <1>b, QueueStep
<1>q. \A q \in Requests' : /\ q[1] \in Chunk
                           /\ q[2] # {} => results' # {}
                           /\ \A t \in q[2] : t.expected # {}
  BY <1>b, <1>o, <1>r DEF StoreInv
(* Steps that leave the store alone, and do not persist.                   *)
<1>s. ASSUME UNCHANGED <<results, checkpoint>>, ~classes => actor'.status # "alive",
             handler'.at = "persist" => handler'.checkpoint.expected # {}
      PROVE  StoreInv'
  BY <1>b, <1>n, <1>q, <1>s, <1>v DEF StoreInv
<1>h. handler' = handler \/ handler'.at # "persist"
      => (handler'.at = "persist" => handler'.checkpoint.expected # {})
  BY <1>b DEF StoreInv
<1>a. UNCHANGED actor => (~classes => actor'.status # "alive")
  BY <1>b DEF StoreInv
<1>1. CASE UNCHANGED vars
  BY <1>1, <1>s, <1>h, <1>a DEF vars
<1>2. CASE Aside
  <2>1. UNCHANGED <<actor, results, checkpoint>> /\ (handler' = handler \/ handler' = Idle)
    BY <1>2, AsideStep
  <2> QED BY <2>1, <1>s, <1>h, <1>a, <1>i
<1>3. CASE Serves
  <2>1. Serving /\ UNCHANGED <<results, checkpoint>>
    BY <1>3, Served
  <2>2. classes
    BY <2>1, ServedTracker
  <2>3. ASSUME NEW tracks, NEW state, Return(tracks, state), state.expected # {}
        PROVE  handler'.at = "persist" => handler'.checkpoint.expected # {}
    BY <2>3, <1>h DEF Return
  <2>4. Raise => (handler'.at = "persist" => handler'.checkpoint.expected # {})
    BY <1>h, <1>i DEF Raise
  <2>5. ASSUME NEW r, NEW state, Answers(r, state)
        PROVE  handler'.at = "persist" => handler'.checkpoint.expected # {}
    <3>1. (CHOOSE t \in state : TRUE).expected # {}
      BY <2>1, <2>5, AnswerFed
    <3> QED BY <2>3, <2>5, <3>1 DEF Answers
  <2>6. Processed.expected # {}
    BY DEF Processed, Tracker
  <2>7. handler'.at = "persist" => handler'.checkpoint.expected # {}
    BY <1>3, <2>3, <2>4, <2>5, <2>6, Served DEF Restores, Breaks, Feeds
  <2> QED BY <1>s, <2>1, <2>2, <2>7
<1>4. CASE ActorDies
  <2>1. classes
    BY <1>b, <1>4 DEF ActorDies, StoreInv
  <2> QED BY <1>4, <1>s, <1>h, <1>i, <2>1 DEF ActorDies
<1>5. ASSUME NEW c \in Chunk, StartCached(c) PROVE StoreInv'
  <2>1. UNCHANGED <<actor, results, checkpoint>> /\ handler'.at = "publish"
    BY <1>5 DEF StartCached
  <2> QED BY <1>s, <1>a, <2>1
<1>6. ASSUME NEW c \in Chunk, StartWithoutClasses(c) PROVE StoreInv'
  <2>1. ~classes /\ UNCHANGED <<actor, checkpoint>> /\ handler'.at = "publish" /\ results' # {}
    BY <1>6 DEF StartWithoutClasses
  <2> QED BY <1>b, <1>q, <1>v, <2>1 DEF StoreInv
<1>7. ASSUME NEW c \in Chunk, StartInference(c) PROVE StoreInv'
  <2>1. classes /\ UNCHANGED <<results, checkpoint>> /\ handler'.at = "infer"
    BY <1>7 DEF StartInference
  <2> QED BY <1>s, <2>1
<1>8. CASE Persist
  <2>1. /\ classes /\ checkpoint' = {handler.checkpoint} /\ results' # {}
        /\ handler.checkpoint.expected # {} /\ handler'.at = "publish"
    BY <1>b, <1>i, <1>8 DEF Persist, StoreInv, WorkInv, Busy
  <2> QED BY <1>q, <1>v, <2>1 DEF StoreInv
<1>9. CASE Publish \/ Ack
  <2>1. UNCHANGED <<actor, results, checkpoint>> /\ handler'.at # "persist"
    BY <1>9, <1>i DEF Publish, Ack, Then
  <2> QED BY <1>s, <1>a, <2>1
<1>10. CASE Release
  <2>1. UNCHANGED <<results, checkpoint>> /\ handler'.at = "delete"
        /\ (actor' = actor \/ actor' = NoActor)
    BY <1>10 DEF Release, Then
  <2>2. ~classes => actor'.status # "alive"
    BY <1>a, <2>1 DEF NoActor
  <2> QED BY <1>s, <2>1, <2>2
<1>11. CASE DeleteState
  <2>1. /\ checkpoint' = {} /\ UNCHANGED <<results, actor>> /\ handler'.at = "ack"
        /\ next = LastChunk + 1
    BY <1>b, <1>i, <1>11 DEF DeleteState, Then, WorkInv, Busy
  <2>2. next' = LastChunk + 1
    BY <1>n, <2>1
  <2> QED BY <1>b, <1>q, <1>v, <2>1, <2>2 DEF StoreInv
<1> QED BY <1>1, <1>2, <1>3, <1>4, <1>5, <1>6, <1>7, <1>8, <1>9, <1>10, <1>11, Steps

(* The actor's tracker and memory.                                         *)
LEMMA ActorInvStep ==
  ASSUME Base, [Next]_vars
  PROVE  ActorInv'
<1> USE DEF video, stored, order
<1> SUFFICES ASSUME actor'.status = "alive"
             PROVE  /\ actor'.restored \in BOOLEAN /\ \A r \in actor'.cache : Answer(r)
                    /\ ~actor'.restored => Unfed'
                    /\ Unfed' => actor'.tracker = NewTracker /\ actor'.cache = {}
                    /\ Unfed' /\ (actor'.restored \/ \E q \in Requests' : q[2] = {})
                         => results' = {} /\ handler'.at \in {"idle", "infer"}
  BY DEF ActorInv, Answer
<1>b. /\ QueueInv /\ WorkInv /\ OrderInv /\ StoreInv /\ GroupTypeOK(LastChunk + 1) /\ ActorInv
  BY DEF Base
<1>i. Idle.at = "idle" /\ NewTracker.expected = {}
  BY DEF Idle, NewTracker, Tracker
<1>n. LastChunk \in Nat
  BY TotalNat
<1>r. (\A c \in Chunk : ~StartInference(c)) => Requests' \subseteq Requests
  BY <1>b, QueueStep DEF NewRequest
(* The actor stays, and results and handler do not matter or stay.         *)
<1>k. ASSUME actor' = actor, Requests' \subseteq Requests,
             Unfed /\ (actor.restored \/ \E q \in Requests : q[2] = {}) =>
               results' = results /\ (handler'.at \in {"idle", "infer"} \/ handler' = handler)
      PROVE  ActorInv'
  BY <1>b, <1>k DEF ActorInv, Unfed, Answer
<1>d. ASSUME actor' = NewActor(0) \/ actor' = NewActor(1),
             \A q \in Requests' : q[2] # {} \/ (results' = {} /\ handler'.at = "infer")
      PROVE  ActorInv'
  <2>1. actor'.restored = FALSE /\ actor'.tracker = NewTracker /\ actor'.cache = {}
    BY <1>d DEF NewActor, Actor
  <2> QED BY <1>d, <1>i, <2>1 DEF ActorInv, Unfed
<1>1. CASE UNCHANGED vars
  <2>1. UNCHANGED <<actor, results, handler, queue>>
    BY <1>1 DEF vars
  <2> QED BY <1>k, <2>1 DEF Requests, ActorInv, Answer
<1>2. CASE Aside
  <2>1. UNCHANGED <<actor, results>> /\ (handler' = handler \/ handler' = Idle)
    BY <1>2, AsideStep
  <2>2. \A c \in Chunk : ~StartInference(c)
    <3> SUFFICES ASSUME NEW c \in Chunk, StartInference(c) PROVE FALSE
      OBVIOUS
    <3>1. handler = Idle /\ handler'.at = "infer"
      BY DEF StartInference
    <3>2. handler' = Idle
      BY <2>1, <3>1
    <3> QED BY <1>i, <3>1, <3>2
  <2> QED BY <1>k, <1>i, <1>r, <2>1, <2>2 DEF ActorInv, Answer
<1>3. CASE Serves
  <2>1. Serving /\ UNCHANGED <<results, checkpoint>> /\ queue' = Tail(queue)
    BY <1>3, Served
  <2>2. Requests' \subseteq Requests
    <3>1. \A c \in Chunk : StartInference(c) => queue' = Append(queue, ProcessCall(c, checkpoint, TRUE))
      BY DEF StartInference
    <3>2. PICK S : queue \in Seq(S)
      BY <1>b DEF QueueInv
    <3>3. Len(queue') = Len(queue) - 1 /\ Len(queue) \in Nat
      BY <2>1, <3>2, TailOf DEF Serving
    <3>4. ASSUME NEW c \in Chunk, StartInference(c) PROVE FALSE
      <4>0. PICK call : queue' = Append(queue, call)
        BY <3>1, <3>4
      <4>1. Len(queue') = Len(queue) + 1
        BY <3>2, <4>0, AppendOf
      <4> QED BY <3>3, <4>1
    <3> QED BY <1>r, <3>4
  <2>t. /\ <<Call.chunk, Call.checkpoint>> \in Requests /\ Call.chunk \in Chunk
        /\ \/ Call.checkpoint = {} /\ Restored = actor.tracker
           \/ Call.checkpoint # {} /\ actor.restored /\ Restored = actor.tracker
           \/ Call.checkpoint # {} /\ ~actor.restored /\ Restored \in Call.checkpoint
        /\ actor.status = "alive" /\ actor.restored \in BOOLEAN
    BY <1>b, <2>1, ServedTracker DEF ActorInv
  <2>3. ASSUME NEW r, NEW state, Answers(r, state) PROVE ActorInv'
    <3>1. /\ r \in actor.cache /\ Answer(r) /\ ~Unfed
          /\ state # {} /\ \A t \in state : t.expected # {}
      BY <2>1, <2>3, AnswerFed
    <3>2. PICK a : a = Response(r.chunk, r.tracks, state)
      OBVIOUS
    <3>3. Answer(a)
      BY <3>1, <3>2 DEF Answer, Response
    <3>4. ActorIs(actor.restored, actor.tracker, (actor.cache \ {r}) \cup {a})
      BY <2>3, <3>2 DEF Answers
    <3> QED BY <1>b, <2>t, <3>1, <3>3, <3>4 DEF ActorInv, ActorIs, Unfed, Answer
  <2>4. CASE Restores
    <3>1. ActorIs(TRUE, Restored, actor.cache) /\ Raise
      BY <2>4 DEF Restores
    <3>2. handler' = handler \/ handler' = Idle
      BY <3>1 DEF Raise
    <3>3. ASSUME Restored.expected = {}
          PROVE  /\ Restored = NewTracker /\ actor.cache = {}
                 /\ results = {} /\ handler.at \in {"idle", "infer"}
      <4>1. Restored \notin Call.checkpoint
        BY <1>b, <2>t, <3>3 DEF StoreInv
      <4>2. Restored = actor.tracker /\ Unfed /\ (actor.restored \/ Call.checkpoint = {})
        BY <2>t, <3>3, <4>1 DEF Unfed
      <4>3. actor.restored \/ \E q \in Requests : q[2] = {}
        BY <2>t, <4>2
      <4> QED BY <1>b, <2>t, <4>2, <4>3 DEF ActorInv
    <3> QED BY <1>b, <1>i, <2>1, <2>t, <3>1, <3>2, <3>3 DEF ActorInv, ActorIs, Unfed, Answer
  <2>5. ASSUME NEW t, Breaks(t) PROVE ActorInv'
    <3>1. ActorIs(TRUE, t, actor.cache) /\ t.expected # {}
      BY <2>5 DEF Breaks
    <3> QED BY <1>b, <2>t, <3>1 DEF ActorInv, ActorIs, Unfed, Answer
  <2>6. ASSUME NEW state, NEW cache, Feeds(state, cache) PROVE ActorInv'
    <3>1. PICK r : r = Response(Call.chunk, JobTracks, state)
      OBVIOUS
    <3>2. /\ ActorIs(TRUE, Processed, cache) /\ cache \subseteq actor.cache \cup {r}
          /\ state = {} \/ state = {Processed}
      BY <2>6, <3>1 DEF Feeds, Kept
    <3>3. Processed.expected # {}
      BY DEF Processed, Tracker
    <3>4. Answer(r)
      BY <2>t, <3>1, <3>2, <3>3 DEF Answer, Response
    <3> QED BY <1>b, <2>t, <3>2, <3>3, <3>4 DEF ActorInv, ActorIs, Unfed, Answer
  <2> QED BY <1>3, <2>3, <2>4, <2>5, <2>6, Served DEF ActorInv, Answer
<1>4. CASE ActorDies
  <2>1. queue' = <<>> /\ (actor' = NewActor(0) \/ actor' = NewActor(1))
    BY <1>4 DEF ActorDies, DeadActor
  <2>2. Requests' = {}
    BY <2>1 DEF Requests
  <2> QED BY <1>d, <2>1, <2>2 DEF ActorInv, Answer
<1>5. ASSUME NEW c \in Chunk, StartCached(c) \/ StartWithoutClasses(c) PROVE ActorInv'
  <2>1. actor' = actor /\ queue' = queue /\ handler = Idle
    BY <1>5 DEF StartCached, StartWithoutClasses
  <2>2. results # {} \/ ~classes
    BY <1>5 DEF StartCached, StartWithoutClasses, Cached
  <2> QED BY <1>b, <1>k, <2>1, <2>2 DEF Requests, ActorInv, StoreInv
<1>6. ASSUME NEW c \in Chunk, StartInference(c) PROVE ActorInv'
  <2>1. /\ handler = Idle /\ handler'.at = "infer" /\ UNCHANGED <<results, checkpoint>>
        /\ Cached(c) = {} /\ classes
        /\ actor' = IF actor.status = "alive" THEN actor ELSE NewActor(0)
    BY <1>6 DEF StartInference
  <2>2. \A q \in Requests' : q \in Requests \/ q[2] = checkpoint
    BY <1>b, QueueStep DEF NewRequest
  <2>3. checkpoint = {} => results = {}
    <3>1. next # LastChunk + 1
      BY <1>b, <1>n, <2>1 DEF OrderInv, Cached, Chunk
    <3> QED BY <1>b, <2>1, <3>1 DEF StoreInv
  <2>4. CASE actor.status = "alive"
    <3>1. actor' = actor
      BY <2>1, <2>4
    <3> QED BY <1>b, <2>1, <2>2, <2>3, <2>4, <3>1 DEF ActorInv, Unfed, Answer
  <2>5. CASE actor.status # "alive"
    <3>1. Requests = {}
      BY <1>b, <2>5 DEF QueueInv, Requests
    <3>2. actor' = NewActor(0)
      BY <2>1, <2>5
    <3> QED BY <1>d, <2>1, <2>2, <2>3, <3>1, <3>2
  <2> QED BY <2>4, <2>5
<1>7. CASE Persist \/ Publish \/ DeleteState \/ Ack
  <2>1. actor' = actor /\ queue' = queue /\ handler.at \notin {"idle", "infer"}
    BY <1>7 DEF Persist, Publish, DeleteState, Ack
  <2> QED BY <1>b, <1>k, <2>1 DEF Requests, ActorInv
<1>8. CASE Release
  <2>1. actor' = actor /\ queue' = queue /\ handler.at \notin {"idle", "infer"}
    BY <1>8 DEF Release, NoActor
  <2> QED BY <1>b, <1>k, <2>1 DEF Requests, ActorInv
<1> QED BY <1>1, <1>2, <1>3, <1>4, <1>5, <1>6, <1>7, <1>8, Steps DEF ActorInv, Answer

LEMMA BaseStep ==
  ASSUME Base, [Next]_vars
  PROVE  Base'
<1>1. GroupTypeOK(LastChunk + 1)'
  <2>1. Moves
    BY GroupStep DEF Base
  <2> QED BY <2>1, TotalNat, GroupTypes DEF Moves, Base
<1>2. faults' \in Seq(FaultKind) /\ Cuts'
  BY Noted, Remains DEF Base, Cuts, video
<1>3. QueueInv' /\ WorkInv' /\ OrderInv'
  BY QueueStep, WorkStep, OrderStep DEF Base
<1>4. StoreInv' /\ ActorInv'
  BY StoreStep, ActorInvStep
<1> QED BY <1>1, <1>2, <1>3, <1>4 DEF Base

(* What is stored, waits and is remembered fits together, whatever dies,   *)
(* stops or times out, and in whatever order the chunks come: everything   *)
(* acknowledged is published, everything published is stored, and a        *)
(* tracker that was fed nothing answers no call.                           *)
THEOREM Invariance == Spec => []Base
<1>1. Init => Base
  <2> SUFFICES ASSUME Init PROVE Base
    OBVIOUS
  <2> USE DEF Init, Idle, NoActor
  <2>1. GroupTypeOK(LastChunk + 1)
    <3>1. delivered = 0 /\ held = <<>> /\ acked = {} /\ attempts = [c \in Chunk |-> 0] /\ given_up = {}
      BY DEF GroupInit
    <3> QED BY <3>1, TotalNat, GroupAssumption DEF GroupTypeOK
  <2>2. faults \in Seq(FaultKind) /\ Cuts /\ acked = {}
    BY DEF GroupInit, Cuts
  <2>3. QueueInv /\ WorkInv /\ Requests = {}
    BY DEF QueueInv, WorkInv, Requests
  <2>4. OrderInv
    BY <2>2, TotalNat DEF OrderInv
  <2>5. StoreInv /\ ActorInv
    BY <2>3 DEF StoreInv, ActorInv
  <2> QED BY <2>1, <2>2, <2>3, <2>4, <2>5 DEF Base
<1>2. Base /\ [Next]_vars => Base'
  BY BaseStep
<1> QED BY <1>1, <1>2, PTL DEF Spec
-----------------------------------------------------------------------------
(* The end of the video: the last chunk is published when its actor is     *)
(* released, so every chunk has a result and none starts a job again.      *)
Gone == actor.status # "alive" /\ checkpoint = {}

EndInv ==
  /\ handler.at = "delete" => actor.status # "alive"
  /\ handler.at = "ack" /\ handler.chunk = LastChunk => Gone
  /\ LastChunk \in acked \ given_up => Gone /\ handler.at \notin {"infer", "persist"}

LEMMA EndStep ==
  ASSUME Base, EndInv, [Next]_vars, ~Happened("lookup")'
  PROVE  EndInv'
<1> USE DEF video, stored, order
<1>i. Idle.at = "idle"
  BY DEF Idle
<1>n. LastChunk \in Nat /\ LastChunk \in Chunk
  BY TotalNat DEF Chunk
<1>f. ~Fault("lookup")
  BY Noted, Remains DEF Base, FaultKind
<1>b. OrderInv /\ WorkInv
  BY DEF Base
(* What a step can bring about.                                            *)
<1>a. actor'.status = "alive" =>
        \/ actor.status = "alive" \/ \E c \in Chunk : StartInference(c)
  <2>1. CASE Aside
    BY <2>1, AsideStep
  <2>2. CASE Serves
    BY <2>2, Served DEF Serving
  <2>3. CASE ActorDies \/ Release
    BY <2>3 DEF ActorDies, Release, NoActor
  <2>4. CASE \/ UNCHANGED vars \/ Persist \/ Publish \/ DeleteState \/ Ack
             \/ \E c \in Chunk : StartCached(c) \/ StartWithoutClasses(c)
    BY <2>4 DEF vars, StartCached, StartWithoutClasses, Persist, Publish, DeleteState, Ack
  <2> QED BY <2>1, <2>2, <2>3, <2>4, Steps
<1>p. checkpoint' \subseteq checkpoint \/ Persist
  BY AsideStep, Served, Steps DEF vars, ActorDies, StartCached, StartWithoutClasses, StartInference,
     Publish, Release, DeleteState, Ack
<1>h. /\ handler'.at = "infer" => handler' = handler \/ \E c \in Chunk : StartInference(c)
      /\ handler'.at = "persist" => handler' = handler \/ actor.status = "alive"
      /\ handler'.at = "delete" => handler' = handler \/ Release
      /\ handler'.at = "ack" => handler' = handler \/ DeleteState \/ (Publish /\ handler'.chunk # LastChunk)
  <2>1. CASE Aside
    BY <1>i, <2>1, AsideStep
  <2>2. CASE Serves
    <3>0. Raise \/ \E tracks, state : Return(tracks, state)
      BY <2>2, Served DEF Answers, Restores, Breaks, Feeds
    <3>1. handler' = handler \/ handler'.at \in {"idle", "persist"}
      BY <1>i, <3>0 DEF Raise, Return
    <3> QED BY <2>2, <3>1, Served DEF Serving
  <2>3. CASE ActorDies
    BY <1>i, <2>3 DEF ActorDies
  <2>4. CASE \E c \in Chunk : StartCached(c) \/ StartWithoutClasses(c) \/ StartInference(c)
    <3>1. (\E c \in Chunk : StartInference(c)) \/ handler'.at = "publish"
      BY <2>4 DEF StartCached, StartWithoutClasses
    <3>2. (\E c \in Chunk : StartInference(c)) => handler'.at = "infer"
      BY DEF StartInference
    <3> QED BY <3>1, <3>2
  <2>5. CASE Publish
    <3>1. PICK c : c = handler.result.chunk
      OBVIOUS
    <3>2. handler' = Then(IF c = LastChunk THEN "release" ELSE "ack", c)
      BY <2>5, <3>1 DEF Publish
    <3>3. handler'.chunk = c /\ handler'.at = IF c = LastChunk THEN "release" ELSE "ack"
      BY <3>2 DEF Then
    <3> QED BY <2>5, <3>3
  <2>6. CASE Persist \/ Release \/ DeleteState \/ Ack
    BY <1>i, <2>6 DEF Persist, Release, DeleteState, Ack, Then
  <2> QED BY <2>1, <2>2, <2>3, <2>4, <2>5, <2>6, Steps DEF vars
(* Once the last chunk is published nothing is inferred any more.          *)
<1>c. next = LastChunk + 1 => \A c \in Chunk : ~StartInference(c)
  <2> SUFFICES ASSUME next = LastChunk + 1, NEW c \in Chunk, StartInference(c) PROVE FALSE
    OBVIOUS
  <2>1. c \in 0..(next - 1) /\ Cached(c) = {}
    BY <1>n DEF StartInference, Chunk
  <2> QED BY <1>b, <2>1 DEF OrderInv, Cached
<1>l. /\ handler.at = "delete" => next = LastChunk + 1
      /\ handler.at = "ack" /\ handler.chunk = LastChunk => next = LastChunk + 1
      /\ LastChunk \in acked \ given_up => next = LastChunk + 1
  BY <1>b, <1>i, <1>n DEF OrderInv, WorkInv, Busy
<1>g. ASSUME Gone, next = LastChunk + 1, handler.at # "persist" PROVE Gone'
  BY <1>a, <1>c, <1>g, <1>p DEF Gone, Persist
<1>1. ASSUME handler'.at = "delete" PROVE actor'.status # "alive"
  <2>1. CASE handler' = handler
    BY <1>1, <1>a, <1>c, <1>l, <2>1 DEF EndInv
  <2>2. CASE Release
    BY <1>f, <2>2 DEF Release, NoActor
  <2> QED BY <1>1, <1>h, <2>1, <2>2
<1>2. ASSUME handler'.at = "ack", handler'.chunk = LastChunk PROVE Gone'
  <2>1. CASE handler' = handler
    BY <1>2, <1>g, <1>l, <2>1 DEF EndInv
  <2>2. CASE DeleteState
    BY <2>2 DEF DeleteState, EndInv, Gone
  <2> QED BY <1>2, <1>h, <2>1, <2>2
<1>3. ASSUME LastChunk \in acked' \ given_up'
      PROVE  Gone' /\ handler'.at \notin {"infer", "persist"}
  <2>1. CASE LastChunk \in acked \ given_up
    <3>1. Gone /\ handler.at \notin {"infer", "persist"} /\ next = LastChunk + 1
      BY <1>l, <2>1 DEF EndInv
    <3> QED BY <1>c, <1>g, <1>h, <3>1 DEF Gone
  <2>2. CASE LastChunk \notin acked \ given_up
    <3>1. Ack
      BY <1>3, <2>2, Settles
    <3>2. handler.at = "ack" /\ handler.chunk = Head(held) /\ handler' = Idle
          /\ acked' = acked \cup {Head(held)} /\ UNCHANGED given_up
      BY <1>b, <1>i, <3>1 DEF Ack, Acks, WorkInv, Busy
    <3>3. handler.chunk = LastChunk
      BY <1>3, <2>2, <3>2
    <3> QED BY <1>g, <1>i, <1>l, <3>2, <3>3 DEF EndInv
  <2> QED BY <2>1, <2>2
<1> QED BY <1>1, <1>2, <1>3 DEF EndInv

(* TrackingActorManager.release: once the last chunk is acknowledged, and  *)
(* was not given up, the actor and the checkpoint are gone for good,       *)
(* whichever worker created the actor, and whatever is delivered again,    *)
(* unless the lookup of the actor failed.                                  *)
THEOREM Released == Spec => []ReleasedWhenDone
<1> DEFINE End == ~Happened("lookup") => EndInv
<1>1. Init => End
  BY DEF Init, EndInv, GroupInit, Idle
<1>2. Base /\ End /\ [Next]_vars => End'
  <2> SUFFICES ASSUME Base, End, [Next]_vars, ~Happened("lookup")'
               PROVE  EndInv'
    OBVIOUS
  <2>1. ~Happened("lookup")
    BY Noted, Remains DEF Base
  <2> QED BY <2>1, EndStep
<1>3. End => ReleasedWhenDone
  BY DEF EndInv, Gone, ReleasedWhenDone
<1> HIDE DEF End
<1> QED BY Invariance, <1>1, <1>2, <1>3, PTL DEF Spec
-----------------------------------------------------------------------------
(* While no chunk overtakes: k chunks are acknowledged, the worker holds   *)
(* the ones after them, and n have a stored result.                        *)
Line(k) == /\ acked = 0..(k - 1) /\ delivered = k + Len(held)
           /\ \A i \in 1..Len(held) : held[i] = k + i - 1

Counted(n) == /\ \A r \in results : r.chunk \in 0..(n - 1)
              /\ \A c \in 0..(n - 1) : \E r \in results : r.chunk = c

(* All waiting calls are for the chunk that has no result yet, and carry   *)
(* the checkpoint before it.                                               *)
Asked(k, n) == \A q \in Requests : q[1] = n /\ q[2] = checkpoint /\ n = k

Saved(n) ==
  /\ \A t \in checkpoint : t.expected = {n}
  /\ n = 0 => checkpoint = {}
  /\ checkpoint = {} => n = 0 \/ ~classes \/ n > LastChunk

(* A tracker has been fed the chunks with a result, and perhaps the next   *)
(* one, whose response is then among those the actor remembers.            *)
Before(n) == actor.tracker.expected = {n} /\ \A r \in actor.cache : r.chunk \in 0..(n - 1)

After(n) ==
  /\ actor.tracker.expected = {n + 1}
  /\ \A r \in actor.cache : r.chunk \in 0..n
  /\ \E r \in actor.cache : r.chunk = n
  /\ \A r \in actor.cache : \A t \in r.checkpoint : r.chunk = n => t.expected = {n + 1}

TrackerAt(n) ==
  actor.status = "alive" =>
    /\ actor.restored => (n = 0 /\ Unfed) \/ Before(n) \/ After(n)
    /\ actor.restored /\ handler.at = "persist" => After(n)

HandlerAt(k, n) ==
  \/ handler = Idle
  \/ handler.at = "infer" /\ n = k
  \/ handler.at = "persist" /\ n = k /\ handler.checkpoint.expected = {k + 1}
  \/ handler.at \in {"publish", "release", "delete", "ack"} /\ n = k + 1

State(k, n) ==
  /\ n \in {k, k + 1} /\ n <= LastChunk + 1
  /\ Line(k) /\ Counted(n) /\ Asked(k, n) /\ Saved(n) /\ TrackerAt(n) /\ HandlerAt(k, n)

InLine == \E k, n \in 0..(LastChunk + 1) : State(k, n)

(* The worker handles the next chunk.                                      *)
LEMMA NextInLine ==
  ASSUME GroupTypeOK(LastChunk + 1), NEW k \in Nat, Line(k), held # <<>>
  PROVE  Head(held) = k /\ k <= LastChunk
<1>1. held \in Seq(Chunk)
  BY TotalNat DEF GroupTypeOK
<1>2. 1 \in 1..Len(held) /\ Head(held) = held[1]
  BY <1>1
<1>3. Head(held) = k
  BY <1>2 DEF Line
<1> QED BY <1>3, HeadOfHeld, TotalNat DEF Chunk

LEMMA LineStep ==
  ASSUME Base, NEW k \in Nat, Line(k), [Next]_vars, Undisturbed'
  PROVE  Undisturbed /\ (Line(k)' \/ (Ack /\ Line(k + 1)'))
<1>1. Moves /\ GroupTypeOK(LastChunk + 1)
  BY GroupStep DEF Base
<1>2. held \in Seq(Chunk) /\ delivered \in Nat
  BY <1>1, TotalNat DEF GroupTypeOK
<1>3. given_up' = {} /\ given_up \subseteq given_up'
  BY <1>1 DEF Moves, Polls, ReplyLost, Pass, Acks, Raises, Stops, groupVars, Undisturbed
<1>4. ~Fault("worker_stops") /\ ~Fault("reply_lost") /\ Undisturbed
  BY <1>3, Noted, Remains DEF Undisturbed, FaultKind, Base
<1> SUFFICES Line(k)' \/ (Ack /\ Line(k + 1)')
  BY <1>4
<1>5. UNCHANGED groupVars => Line(k)'
  BY DEF groupVars, Line
<1>6. Raises => Line(k)'
  BY <1>3 DEF Raises, Line
<1>7. ASSUME Polls(LastChunk + 1) PROVE Line(k)'
  <2>1. held = <<>> /\ delivered = k /\ UNCHANGED acked
    BY <1>2, <1>7 DEF Polls, Claims, Reads, Line
  <2>2. Orphans = {}
    <3>1. ToSet(held) = {}
      BY <2>1 DEF ToSet
    <3> QED BY <2>1, <3>1 DEF Orphans, Line
  <2>3. ~Claims
    <3> SUFFICES ASSUME Claims PROVE FALSE
      OBVIOUS
    <3>1. PICK S \in SUBSET Orphans : S # {}
      BY DEF Claims
    <3> QED BY <2>2, <3>1
  <2>4. delivered' \in (delivered + 1)..(LastChunk + 1) /\ held' = Run(delivered, delivered')
    BY <1>7, <2>3 DEF Polls, Reads
  <2>d. delivered' \in Nat /\ delivered' >= k + 1
    BY <2>1, <2>4, TotalNat
  <2>5. PICK to \in Nat : to = delivered'
    BY Zenon, <2>d
  <2>b. to >= k + 1
    BY <2>5, <2>d
  <2>6. held' = [i \in 1..(to - k) |-> k + i - 1]
    BY <2>1, <2>4, <2>5 DEF Run
  <2>a. to - k \in Nat
    BY <2>b
  <2>7. PICK m \in Nat : m = to - k
    BY Zenon, <2>a
  <2>8. held' \in [1..m -> Nat] /\ \A i \in 1..m : held'[i] = k + i - 1
    BY <2>6, <2>7
  <2>9. Len(held') = m
    BY <2>8
  <2>10. delivered' = k + Len(held')
    <3>1. to = k + m
      BY <2>7
    <3> QED BY <2>5, <2>9, <3>1
  <2>11. acked' = 0..(k - 1)
    BY <2>1 DEF Line
  <2> QED BY <2>8, <2>9, <2>10, <2>11 DEF Line
<1>8. CASE Ack
  <2>1. held # <<>>
    BY <1>8 DEF Ack, Base, WorkInv, Idle
  <2>2. Head(held) = k
    BY <1>1, <2>1, NextInLine
  <2>3. acked' = acked \cup {k} /\ held' = Tail(held) /\ UNCHANGED delivered
    BY <1>8, <2>2 DEF Ack, Acks
  <2>4. PICK h : h = Tail(held)
    OBVIOUS
  <2>5. /\ Len(h) = Len(held) - 1 /\ Len(held) \in Nat
        /\ \A i \in 1..Len(h) : h[i] = held[i + 1] /\ i + 1 \in 1..Len(held)
    BY <1>2, <2>1, <2>4
  <2>6. \A i \in 1..Len(h) : h[i] = (k + 1) + i - 1
    <3> TAKE i \in 1..Len(h)
    <3>1. h[i] = held[i + 1] /\ i + 1 \in 1..Len(held) /\ i \in Int
      BY <2>5
    <3>2. held[i + 1] = k + (i + 1) - 1
      BY <3>1 DEF Line
    <3> QED BY <3>1, <3>2
  <2>7. acked' = 0..((k + 1) - 1)
    BY <2>3 DEF Line
  <2>8. delivered' = (k + 1) + Len(h)
    BY <2>3, <2>5 DEF Line
  <2> QED BY <1>8, <2>3, <2>4, <2>6, <2>7, <2>8 DEF Line
<1>9. CASE Aside
  BY <1>4, <1>5, <1>6, <1>7, <1>9 DEF Aside, Poll, ReplyLost, HandlerFails, Interrupted,
     WorkerStops, Stops, PublishRefused, CallsDeadActor
<1>10. CASE Serves
  <2>1. Raise \/ \E tracks, state : Return(tracks, state)
    BY <1>10, Served DEF Answers, Restores, Breaks, Feeds
  <2> QED BY <1>5, <1>6, <2>1 DEF Raise, Return, groupVars
<1>11. CASE UNCHANGED vars \/ ActorDies
  BY <1>5, <1>6, <1>11 DEF vars, ActorDies, groupVars
<1>12. CASE \E c \in Chunk : StartCached(c) \/ StartWithoutClasses(c) \/ StartInference(c)
  BY <1>5, <1>12 DEF StartCached, StartWithoutClasses, StartInference
<1>13. CASE Persist \/ Publish \/ Release \/ DeleteState
  BY <1>5, <1>13 DEF Persist, Publish, Release, DeleteState
<1> QED BY <1>4, <1>8, <1>9, <1>10, <1>11, <1>12, <1>13, Steps

(* The memory of the actor keeps the newest response.                      *)
LEMMA NewestKept ==
  ASSUME NEW cache, NEW r, NEW n \in Nat, r.chunk = n,
         \A q \in cache : q.chunk \in 0..(n - 1)
  PROVE  r \in Kept(cache \cup {r}) /\ Kept(cache \cup {r}) \subseteq cache \cup {r}
<1>1. CASE cache = {}
  <2>1. Cardinality({r}) <= ActorCache
    <3>1. Cardinality({r}) = 1
      BY FS_Singleton
    <3> QED BY <3>1, TrackingAssumption
  <2>2. Kept({r}) = {r}
    BY <2>1 DEF Kept
  <2> QED BY <1>1, <2>2
<1>2. CASE cache # {}
  <2>1. \E q \in cache \cup {r} : q.chunk < r.chunk
    BY <1>2
  <2> QED BY <2>1 DEF Kept
<1> QED BY <1>1, <1>2

(* The tracker with which a call that has no response yet is served.       *)
LEMMA TrackerExpects ==
  ASSUME Base, Serving, NEW k \in Nat, NEW n \in Nat, State(k, n)
  PROVE  /\ n = k /\ Call.chunk = n /\ Call.checkpoint = checkpoint
         /\ Remembered = {} =>
              /\ Restored.expected = {n} \/ (n = 0 /\ checkpoint = {} /\ Restored = NewTracker)
              /\ \A r \in actor.cache : r.chunk \in 0..(n - 1)
         /\ Remembered # {} => actor.restored /\ After(n)
<1>1. /\ <<Call.chunk, Call.checkpoint>> \in Requests /\ Call.chunk \in Chunk
      /\ actor.status = "alive" /\ classes /\ actor.restored \in BOOLEAN
      /\ \/ Call.checkpoint = {} /\ Restored = actor.tracker
         \/ Call.checkpoint # {} /\ actor.restored /\ Restored = actor.tracker
         \/ Call.checkpoint # {} /\ ~actor.restored /\ Restored \in Call.checkpoint
  BY ServedTracker DEF Base, ActorInv
<1>2. n = k /\ Call.chunk = n /\ Call.checkpoint = checkpoint
  BY <1>1 DEF State, Asked
<1>3. /\ ~actor.restored => Unfed
      /\ Unfed => actor.tracker = NewTracker /\ actor.cache = {}
  BY <1>1 DEF Base, ActorInv
<1>4. n <= LastChunk /\ LastChunk \in Nat
  BY <1>1, <1>2, TotalNat DEF Chunk
<1>5. CASE ~actor.restored
  <2>1. actor.tracker = NewTracker /\ actor.cache = {}
    BY <1>3, <1>5
  <2>2. Restored.expected = {n} \/ (n = 0 /\ checkpoint = {} /\ Restored = NewTracker)
    BY <1>1, <1>2, <1>4, <1>5, <2>1 DEF State, Saved
  <2> QED BY <1>2, <2>1, <2>2 DEF Remembered
<1>6. CASE actor.restored
  <2>1. Restored = actor.tracker /\ ((n = 0 /\ Unfed) \/ Before(n) \/ After(n))
    BY <1>1, <1>6 DEF State, TrackerAt
  <2>2. CASE n = 0 /\ Unfed
    BY <1>2, <1>3, <2>1, <2>2 DEF State, Saved, Remembered
  <2>3. CASE Before(n)
    <3>1. \A r \in actor.cache : r.chunk # n
      BY <2>3 DEF Before
    <3> QED BY <1>2, <2>1, <2>3, <3>1 DEF Before, Remembered
  <2>4. CASE After(n)
    BY <1>2, <1>6, <2>4 DEF After, Remembered
  <2> QED BY <2>1, <2>2, <2>3, <2>4
<1> QED BY <1>1, <1>5, <1>6

(* Which step moves which number: storing a result, and acknowledging.     *)
LEMMA StateStep ==
  ASSUME Base, NEW k \in Nat, NEW n \in Nat, State(k, n), [Next]_vars, Undisturbed'
  PROVE  State(k, n)' \/ State(k, n + 1)' \/ State(k + 1, n)'
<1> USE DEF stored, order
<1>0. /\ LastChunk \in Nat /\ n \in {k, k + 1} /\ n <= LastChunk + 1
      /\ Line(k) /\ Counted(n) /\ Asked(k, n) /\ Saved(n) /\ TrackerAt(n) /\ HandlerAt(k, n)
  BY TotalNat DEF State
<1>b. /\ GroupTypeOK(LastChunk + 1) /\ QueueInv /\ WorkInv /\ StoreInv /\ ActorInv
  BY DEF Base
<1>i. Idle.at = "idle"
  BY DEF Idle
<1>l. Line(k)' \/ (Ack /\ Line(k + 1)')
  BY <1>0, LineStep
<1>v. classes' = classes
  BY Noted DEF video
<1>r. Requests' \subseteq Requests \/ \E c \in Chunk : NewRequest(c)
  BY <1>b, QueueStep
<1>z. n = k + 1 => Requests = {}
  BY <1>0 DEF Asked
<1>h. held # <<>> => Head(held) = k /\ k <= LastChunk
  BY <1>0, <1>b, NextInLine
(* Most steps leave the results, the checkpoint and the actor alone.       *)
<1>c. results' = results => Counted(n)'
  BY <1>0 DEF Counted
<1>p. checkpoint' = checkpoint => Saved(n)'
  BY <1>0, <1>v DEF Saved
<1>q. Requests' \subseteq Requests /\ checkpoint' = checkpoint => Asked(k, n)'
  BY <1>0 DEF Asked
<1>e. Requests' = {} => \A i, j : Asked(i, j)'
  BY DEF Asked
<1>a. ASSUME actor' = actor, handler'.at = "persist" => handler.at = "persist"
      PROVE  TrackerAt(n)'
  BY <1>0, <1>a DEF TrackerAt, Unfed, Before, After
<1>s. Line(k)' /\ Counted(n)' /\ Asked(k, n)' /\ Saved(n)' /\ TrackerAt(n)' /\ HandlerAt(k, n)'
      => State(k, n)'
  BY <1>0 DEF State
<1>k. CASE Ack
  <2>1. /\ handler.at = "ack" /\ handler' = Idle /\ acked' = acked \cup {Head(held)}
        /\ UNCHANGED <<actor, queue, results, checkpoint>>
    BY <1>k DEF Ack, Acks
  <2>2. held # <<>>
    BY <1>b, <1>i, <2>1 DEF WorkInv
  <2>3. Line(k + 1)'
    <3>1. k \in acked' /\ k \notin 0..(k - 1)
      BY <1>h, <2>1, <2>2
    <3> QED BY <1>l, <3>1 DEF Line
  <2>4. n = k + 1
    BY <1>0, <1>i, <2>1 DEF HandlerAt
  <2>5. Requests' = {}
    BY <1>z, <2>1, <2>4 DEF Requests
  <2>6. TrackerAt(n)'
    BY <1>a, <1>i, <2>1
  <2>7. HandlerAt(k + 1, n)'
    BY <2>1 DEF HandlerAt
  <2>8. n \in {k + 1, (k + 1) + 1}
    BY <2>4
  <2>9. Counted(n)' /\ Asked(k + 1, n)' /\ Saved(n)'
    BY <1>c, <1>e, <1>p, <2>1, <2>5
  <2> QED BY <1>0, <2>3, <2>6, <2>7, <2>8, <2>9 DEF State
<1>m. ~Ack => Line(k)'
  BY <1>l
<1>1. CASE UNCHANGED vars /\ ~Ack
  <2>1. UNCHANGED <<actor, queue, handler, results, checkpoint>>
    BY <1>1 DEF vars
  <2>2. Requests' \subseteq Requests
    BY <2>1 DEF Requests
  <2>3. HandlerAt(k, n)'
    BY <1>0, <2>1 DEF HandlerAt
  <2>4. TrackerAt(n)'
    BY <1>a, <2>1
  <2> QED BY <1>1, <1>c, <1>m, <1>p, <1>q, <1>s, <2>1, <2>2, <2>3, <2>4
<1>2. CASE Aside /\ ~Ack
  <2>1. UNCHANGED <<actor, results, checkpoint>> /\ (handler' = handler \/ handler' = Idle)
    BY <1>2, AsideStep
  <2>2. \A c \in Chunk : ~NewRequest(c)
    <3> SUFFICES ASSUME NEW c \in Chunk, StartInference(c) PROVE FALSE
      BY DEF NewRequest
    <3>1. handler = Idle /\ handler'.at = "infer"
      BY DEF StartInference
    <3> QED BY <1>i, <2>1, <3>1
  <2>3. HandlerAt(k, n)'
    BY <1>0, <2>1 DEF HandlerAt
  <2>4. TrackerAt(n)'
    BY <1>a, <1>i, <2>1
  <2> QED BY <1>2, <1>c, <1>l, <1>p, <1>q, <1>r, <1>s, <2>1, <2>2, <2>3, <2>4
<1>3. CASE Serves /\ ~Ack
  <2>1. Serving /\ UNCHANGED <<results, checkpoint>> /\ queue' = Tail(queue)
    BY <1>3, Served
  <2>t. /\ n = k /\ Call.chunk = n /\ Call.checkpoint = checkpoint
        /\ Remembered = {} =>
              /\ Restored.expected = {n} \/ (n = 0 /\ checkpoint = {} /\ Restored = NewTracker)
              /\ \A r \in actor.cache : r.chunk \in 0..(n - 1)
        /\ Remembered # {} => actor.restored /\ After(n)
    BY <2>1, TrackerExpects
  <2>h. handler.at \in {"idle", "infer"}
    <3>1. queue # <<>>
      BY <2>1 DEF Serving
    <3> QED BY <1>0, <1>b, <1>i, <2>t, <3>1 DEF HandlerAt, WorkInv, Busy
  <2>2. /\ Raise => handler'.at \in {"idle", "infer"} /\ HandlerAt(k, n)'
        /\ \A tracks, state : Return(tracks, state) /\ state.expected = {n + 1} => HandlerAt(k, n)'
    BY <1>0, <1>i, <2>t, <2>h DEF Raise, Return, HandlerAt
  <2>3. ASSUME NEW r, NEW state, Answers(r, state) PROVE TrackerAt(n)' /\ HandlerAt(k, n)'
    <3>1. /\ r \in actor.cache /\ r.chunk = n /\ state # {} /\ (CHOOSE t \in state : TRUE) \in state
          /\ state = IF r.checkpoint = {} THEN {actor.tracker} ELSE r.checkpoint
      BY <2>1, <2>3, <2>t, AnswerFed DEF Answers
    <3>2. actor.restored /\ After(n)
      BY <2>3, <2>t DEF Answers
    <3>3. \A t \in state : t.expected = {n + 1}
      BY <3>1, <3>2 DEF After
    <3>4. PICK a : a = Response(r.chunk, r.tracks, state)
      OBVIOUS
    <3>5. a.chunk = n /\ a.checkpoint = state
      BY <3>1, <3>4 DEF Response
    <3>6. ActorIs(actor.restored, actor.tracker, (actor.cache \ {r}) \cup {a})
      BY <2>3, <3>4 DEF Answers
    <3>7. After(n)'
      BY <3>2, <3>3, <3>5, <3>6 DEF After, ActorIs
    <3> QED BY <2>2, <2>3, <3>1, <3>3, <3>7 DEF TrackerAt, Answers
  <2>4. ASSUME NEW t, ActorIs(TRUE, t, actor.cache), Remembered = {}, Raise,
               t.expected = {n} \/ (n = 0 /\ t = NewTracker)
        PROVE  TrackerAt(n)' /\ HandlerAt(k, n)'
    <3>1. NewTracker.expected = {}
      BY DEF NewTracker, Tracker
    <3>2. (n = 0 /\ Unfed') \/ Before(n)'
      BY <2>4, <2>t, <3>1 DEF ActorIs, Unfed, Before
    <3> QED BY <2>2, <2>4, <3>2 DEF TrackerAt
  <2>5. Restores => TrackerAt(n)' /\ HandlerAt(k, n)'
    BY <2>4, <2>t DEF Restores
  <2>6. ASSUME NEW t, Breaks(t) PROVE TrackerAt(n)' /\ HandlerAt(k, n)'
    BY <2>4, <2>6, <2>t DEF Breaks
  <2>7. ASSUME NEW state, NEW cache, Feeds(state, cache) PROVE TrackerAt(n)' /\ HandlerAt(k, n)'
    <3>1. PICK r : r = Response(Call.chunk, JobTracks, state)
      OBVIOUS
    <3>2. r.chunk = n /\ r.checkpoint = state /\ Processed.expected = {n + 1}
      BY <2>t, <3>1 DEF Response, Processed, Tracker
    <3>3. /\ ActorIs(TRUE, Processed, cache) /\ (state = {} \/ state = {Processed})
          /\ cache = Kept(actor.cache \cup {r}) \/ cache = actor.cache \cup {r}
          /\ Raise \/ Return(JobTracks, Processed)
          /\ \A q \in actor.cache : q.chunk \in 0..(n - 1)
      BY <2>7, <2>t, <3>1 DEF Feeds
    <3>4. r \in cache /\ cache \subseteq actor.cache \cup {r}
      <4>1. r \in Kept(actor.cache \cup {r}) /\ Kept(actor.cache \cup {r}) \subseteq actor.cache \cup {r}
        BY <3>2, <3>3, NewestKept
      <4> QED BY <3>3, <4>1
    <3>5. \A q \in cache : q = r \/ q.chunk \in 0..(n - 1)
      BY <3>3, <3>4
    <3>6. After(n)'
      BY <3>2, <3>3, <3>4, <3>5 DEF After, ActorIs
    <3> QED BY <2>2, <3>2, <3>3, <3>6 DEF TrackerAt
  <2>8. TrackerAt(n)' /\ HandlerAt(k, n)'
    BY <1>3, <2>3, <2>5, <2>6, <2>7, Served
  <2>9. \A c \in Chunk : ~NewRequest(c)
    <3> SUFFICES ASSUME NEW c \in Chunk, StartInference(c) PROVE FALSE
      BY DEF NewRequest
    <3>1. PICK S : queue \in Seq(S)
      BY <1>b DEF QueueInv
    <3>2. Len(queue') = Len(queue) - 1 /\ Len(queue) \in Nat
      BY <2>1, <3>1, TailOf DEF Serving
    <3>3. PICK call : queue' = Append(queue, call)
      BY DEF StartInference
    <3>4. Len(queue') = Len(queue) + 1
      BY <3>1, <3>3, AppendOf
    <3> QED BY <3>2, <3>4
  <2> QED BY <1>3, <1>c, <1>m, <1>p, <1>q, <1>r, <1>s, <2>1, <2>8, <2>9
<1>4. CASE ActorDies /\ ~Ack
  <2>1. /\ queue' = <<>> /\ UNCHANGED <<results, checkpoint>> /\ (handler' = handler \/ handler' = Idle)
        /\ actor' = NewActor(1) \/ actor' = DeadActor
        /\ actor.status = "alive"
    BY <1>4 DEF ActorDies
  <2>2. Requests' = {}
    BY <2>1 DEF Requests
  <2>3. TrackerAt(n)' /\ HandlerAt(k, n)'
    BY <1>0, <2>1 DEF TrackerAt, HandlerAt, NewActor, DeadActor, Actor
  <2> QED BY <1>4, <1>c, <1>e, <1>m, <1>p, <1>s, <2>1, <2>2, <2>3
(* A handler starts: on a stored result, without classes, or with a call.  *)
<1>5. ASSUME NEW c \in Chunk, StartCached(c), ~Ack PROVE State(k, n)' \/ State(k, n + 1)'
  <2>1. /\ UNCHANGED <<actor, queue, results, checkpoint>> /\ handler'.at = "publish"
        /\ held # <<>> /\ c = Head(held) /\ \E r \in results : r.chunk = c
    BY <1>5 DEF StartCached, Handles, Cached
  <2>2. n = k + 1
    BY <1>0, <1>h, <2>1 DEF Counted
  <2>3. HandlerAt(k, n)'
    BY <2>1, <2>2 DEF HandlerAt
  <2>4. TrackerAt(n)'
    BY <1>a, <2>1
  <2>5. Requests' \subseteq Requests
    BY <2>1 DEF Requests
  <2> QED BY <1>5, <1>c, <1>m, <1>p, <1>q, <1>s, <2>1, <2>3, <2>4, <2>5
<1>6. ASSUME NEW c \in Chunk, StartWithoutClasses(c), ~Ack PROVE State(k, n + 1)'
  <2>1. PICK r : r = [chunk |-> c, tracks |-> <<>>]
    OBVIOUS
  <2>2. /\ UNCHANGED <<actor, queue, checkpoint>> /\ handler'.at = "publish"
        /\ held # <<>> /\ c = Head(held) /\ Cached(c) = {} /\ ~classes
        /\ results' = results \cup {r} /\ r.chunk = c
    BY <1>6, <2>1 DEF StartWithoutClasses, Handles
  <2>3. n = k /\ c = k /\ k <= LastChunk
    BY <1>0, <1>h, <2>2 DEF Counted, Cached
  <2>4. Counted(n + 1)'
    BY <1>0, <2>2, <2>3 DEF Counted
  <2>5. actor.status # "alive" /\ checkpoint = {} /\ Requests = {}
    BY <1>b, <2>2 DEF StoreInv, QueueInv, Requests
  <2>6. Requests' = {} /\ Saved(n + 1)' /\ TrackerAt(n + 1)'
    BY <1>v, <2>2, <2>5 DEF Requests, Saved, TrackerAt
  <2>7. HandlerAt(k, n + 1)'
    BY <2>2, <2>3 DEF HandlerAt
  <2>8. n + 1 \in {k, k + 1} /\ n + 1 <= LastChunk + 1
    BY <1>0, <2>3
  <2> QED BY <1>6, <1>e, <1>m, <2>4, <2>6, <2>7, <2>8 DEF State
<1>7. ASSUME NEW c \in Chunk, StartInference(c), ~Ack PROVE State(k, n)'
  <2>1. /\ UNCHANGED <<results, checkpoint>> /\ handler'.at = "infer"
        /\ held # <<>> /\ c = Head(held) /\ Cached(c) = {} /\ classes
        /\ actor' = IF actor.status = "alive" THEN actor ELSE NewActor(0)
    BY <1>7 DEF StartInference, Handles
  <2>2. n = k /\ c = k
    BY <1>0, <1>h, <2>1 DEF Counted, Cached
  <2>3. \A q \in Requests' : q \in Requests \/ (q[1] = c /\ q[2] = checkpoint)
    <3>1. ASSUME NEW d \in Chunk, NewRequest(d) PROVE d = c
      BY <2>1, <3>1 DEF NewRequest, StartInference, Handles
    <3> QED BY <1>r, <3>1 DEF NewRequest
  <2>4. Asked(k, n)'
    BY <1>0, <2>1, <2>2, <2>3 DEF Asked
  <2>5. TrackerAt(n)'
    <3>1. CASE actor.status = "alive"
      BY <1>a, <2>1, <3>1
    <3>2. CASE actor.status # "alive"
      BY <2>1, <3>2 DEF TrackerAt, NewActor, Actor
    <3> QED BY <3>1, <3>2
  <2>6. HandlerAt(k, n)'
    BY <2>1, <2>2 DEF HandlerAt
  <2> QED BY <1>7, <1>c, <1>m, <1>p, <1>s, <2>1, <2>4, <2>5, <2>6
(* The result and the checkpoint after it are stored.                      *)
<1>8. ASSUME Persist, ~Ack PROVE State(k, n + 1)'
  <2>1. /\ UNCHANGED <<actor, queue>> /\ handler'.at = "publish" /\ handler.at = "persist"
        /\ results' = results \cup {handler.result} /\ checkpoint' = {handler.checkpoint}
    BY <1>8 DEF Persist
  <2>2. /\ n = k /\ handler.checkpoint.expected = {k + 1} /\ held # <<>>
        /\ handler.result.chunk = Head(held) /\ queue = <<>>
    BY <1>0, <1>b, <1>i, <2>1 DEF HandlerAt, WorkInv, Busy
  <2>3. handler.result.chunk = n /\ n <= LastChunk
    BY <1>h, <2>2
  <2>4. Counted(n + 1)'
    BY <1>0, <2>1, <2>3 DEF Counted
  <2>5. Saved(n + 1)'
    BY <1>0, <2>1, <2>2 DEF Saved
  <2>6. TrackerAt(n + 1)'
    <3> SUFFICES ASSUME actor.status = "alive", actor.restored PROVE Before(n + 1)'
      BY <2>1 DEF TrackerAt
    <3>1. After(n)
      BY <1>0, <2>1 DEF TrackerAt
    <3> QED BY <1>0, <2>1, <3>1 DEF After, Before
  <2>7. HandlerAt(k, n + 1)' /\ Requests' = {}
    BY <2>1, <2>2 DEF HandlerAt, Requests
  <2>8. n + 1 \in {k, k + 1} /\ n + 1 <= LastChunk + 1
    BY <1>0, <2>2, <2>3
  <2> QED BY <1>8, <1>e, <1>m, <2>4, <2>5, <2>6, <2>7, <2>8 DEF State
(* Publishing and cleaning up.                                             *)
<1>9. ASSUME Publish \/ Release \/ DeleteState, ~Ack PROVE State(k, n)'
  <2>1. /\ handler.at \in {"publish", "release", "delete"} /\ results' = results
        /\ handler'.at \in {"release", "delete", "ack"}
        /\ queue' = queue \/ queue' = <<>>
        /\ actor' = actor \/ actor'.status # "alive"
        /\ checkpoint' = checkpoint \/ DeleteState
    BY <1>9 DEF Publish, Release, DeleteState, Then, NoActor
  <2>2. n = k + 1
    BY <1>0, <1>i, <2>1 DEF HandlerAt
  <2>3. Requests' = {}
    BY <1>z, <2>1, <2>2 DEF Requests
  <2>4. Saved(n)'
    <3>1. CASE checkpoint' = checkpoint
      BY <1>p, <3>1
    <3>2. CASE DeleteState
      <4>1. /\ checkpoint' = {} /\ handler.at = "delete"
        BY <3>2 DEF DeleteState
      <4>2. held # <<>> /\ handler.chunk = Head(held) /\ handler.chunk = LastChunk
        BY <1>b, <1>i, <4>1 DEF WorkInv, Busy
      <4>3. n > LastChunk
        BY <1>0, <1>h, <2>2, <4>2
      <4> QED BY <1>0, <4>1, <4>3 DEF Saved
    <3> QED BY <2>1, <3>1, <3>2
  <2>5. TrackerAt(n)'
    <3>1. CASE actor' = actor
      BY <1>a, <2>1, <3>1
    <3>2. CASE actor'.status # "alive"
      BY <3>2 DEF TrackerAt
    <3> QED BY <2>1, <3>1, <3>2
  <2>6. HandlerAt(k, n)'
    BY <2>1, <2>2 DEF HandlerAt
  <2> QED BY <1>9, <1>c, <1>e, <1>m, <1>s, <2>1, <2>3, <2>4, <2>5, <2>6
<1> QED BY <1>k, <1>1, <1>2, <1>3, <1>4, <1>5, <1>6, <1>7, <1>8, <1>9, Steps

(* Which chunk the calls, the checkpoint and the tracker are at, while no  *)
(* chunk overtakes.                                                        *)
LEMMA Aligned == Spec => [](Undisturbed => InLine)
<1> DEFINE End == Undisturbed => InLine
<1>1. Init => End
  <2> SUFFICES ASSUME Init PROVE InLine
    OBVIOUS
  <2>1. /\ held = <<>> /\ acked = {} /\ delivered = 0 /\ results = {} /\ checkpoint = {}
        /\ queue = <<>> /\ handler = Idle /\ actor.status # "alive"
    BY DEF Init, GroupInit, NoActor
  <2>2. Line(0)
    BY <2>1 DEF Line
  <2>3. Counted(0) /\ Asked(0, 0) /\ Saved(0) /\ TrackerAt(0) /\ HandlerAt(0, 0)
    BY <2>1 DEF Counted, Asked, Requests, Saved, TrackerAt, HandlerAt
  <2>4. 0 \in 0..(LastChunk + 1)
    BY TotalNat
  <2> QED BY <2>2, <2>3, <2>4 DEF InLine, State
<1>2. Base /\ End /\ [Next]_vars => End'
  <2> SUFFICES ASSUME Base, End, [Next]_vars, Undisturbed' PROVE InLine'
    OBVIOUS
  <2>1. Undisturbed
    <3>1. given_up \subseteq given_up'
      BY GroupStep DEF Moves, Polls, ReplyLost, Pass, Acks, Raises, Stops, groupVars, Base
    <3> QED BY <3>1, Noted, Remains DEF Undisturbed, Base
  <2>2. PICK k, n \in 0..(LastChunk + 1) : State(k, n)
    BY <2>1 DEF InLine
  <2>3. k \in Nat /\ n \in Nat /\ LastChunk \in Nat
    BY TotalNat
  <2>4. State(k, n)' \/ State(k, n + 1)' \/ State(k + 1, n)'
    BY <2>2, <2>3, StateStep
  <2>5. \A i, j \in Nat : State(i, j)' => i \in 0..(LastChunk + 1) /\ j \in 0..(LastChunk + 1)
    BY <2>3 DEF State
  <2> QED BY <2>3, <2>4, <2>5 DEF InLine
<1> HIDE DEF End
<1>3. Spec => []End
  BY Invariance, <1>1, <1>2, PTL DEF Spec
<1> QED BY <1>3 DEF End

(* process: the tracker that serves a new call is the one for its chunk,   *)
(* after a timeout, a death of the actor or a failed job too, as long as   *)
(* no chunk overtakes.                                                     *)
THEOREM TakesTurns == Spec => []InTurn
<1>1. Base /\ (Undisturbed => InLine) => InTurn
  <2> SUFFICES ASSUME Base, InLine, Serving, Remembered = {}
               PROVE  Restored.expected = IF Call.chunk = 0 /\ checkpoint = {} /\ Restored = NewTracker
                                          THEN {} ELSE {Call.chunk}
    BY DEF InTurn
  <2>1. PICK k, n \in 0..(LastChunk + 1) : State(k, n)
    BY DEF InLine
  <2>2. k \in Nat /\ n \in Nat
    BY TotalNat
  <2>3. /\ Call.chunk = n
        /\ Restored.expected = {n} \/ (n = 0 /\ checkpoint = {} /\ Restored = NewTracker)
    BY <2>1, <2>2, TrackerExpects
  <2>4. NewTracker.expected = {}
    BY DEF NewTracker, Tracker
  <2> QED BY <2>3, <2>4
<1> QED BY Invariance, Aligned, <1>1, PTL
-----------------------------------------------------------------------------
(* Every set of natural numbers has a least element, and a greatest one if *)
(* it is bounded.                                                          *)
LEMMA HasLeast ==
  ASSUME NEW S, S \subseteq Nat, S # {}
  PROVE  \E x \in S : \A y \in S : x <= y
<1> DEFINE R == OpToRel(<, Nat)
<1>1. IsWellFoundedOn(R, Nat)
  BY NatLessThanWellFounded
<1>2. \E x \in S : \A y \in S : ~ (<<y, x>> \in R)
  <2> HIDE DEF R
  <2> QED BY <1>1, WFMin
<1>3. \A x, y \in Nat : <<y, x>> \in R <=> y < x
  BY DEF OpToRel
<1>4. PICK x \in S : \A y \in S : ~ (<<y, x>> \in R)
  BY <1>2
<1> HIDE DEF R
<1>5. \A y \in S : ~ (y < x)
  BY <1>3, <1>4
<1> QED BY <1>5

LEMMA HasGreatest ==
  ASSUME NEW S, S \subseteq Nat, S # {}, NEW n \in Nat, \A x \in S : x <= n
  PROVE  Max(S) \in S /\ \A x \in S : x <= Max(S)
<1> DEFINE T == {n - x : x \in S}
<1>1. PICK z \in T : \A y \in T : z <= y
  <2>1. \A x \in S : n - x \in Nat
    OBVIOUS
  <2>2. T \subseteq Nat /\ T # {}
    BY <2>1
  <2> HIDE DEF T
  <2> QED BY <2>2, HasLeast
<1>2. PICK x \in S : z = n - x
  OBVIOUS
<1>3. \A y \in S : x >= y
  <2> TAKE y \in S
  <2>1. n - x <= n - y
    BY <1>1, <1>2
  <2> QED BY <2>1
<1>4. \E w \in S : \A y \in S : w >= y
  BY <1>3
<1> QED BY <1>4 DEF Max

(* The scene of a frame: it starts there, or is the scene of the frame     *)
(* before.                                                                 *)
LEMMA FramesAreNat == Frames \subseteq Nat
  BY DEF Frames

LEMMA SceneOf ==
  ASSUME Cuts, NEW f \in Nat
  PROVE  /\ SceneStart(f) \in scenes \cup {0} /\ SceneStart(f) \in 0..f
         /\ \A s \in scenes \cup {0} : s <= f => s <= SceneStart(f)
<1> DEFINE S == {s \in scenes \cup {0} : s <= f}
<1>1. S \subseteq Nat /\ 0 \in S /\ \A s \in S : s <= f
  <2>1. scenes \cup {0} \subseteq Nat
    BY FramesAreNat DEF Cuts
  <2> QED BY <2>1
<1>2. Max(S) \in S /\ \A s \in S : s <= Max(S)
  <2> HIDE DEF S
  <2> QED BY <1>1, HasGreatest
<1>3. SceneStart(f) = Max(S)
  BY DEF SceneStart
<1>4. SceneStart(f) \in S /\ \A s \in S : s <= SceneStart(f)
  BY <1>2, <1>3
<1> HIDE DEF S
<1>5. SceneStart(f) \in Nat /\ SceneStart(f) <= f
  BY <1>1, <1>4
<1> QED BY <1>4, <1>5 DEF S

LEMMA NextScene ==
  ASSUME Cuts, NEW f \in Nat
  PROVE  /\ f = 0 => SceneStart(f) = 0
         /\ f \in scenes => SceneStart(f) = f
         /\ f # 0 /\ f \notin scenes => SceneStart(f) = SceneStart(f - 1)
<1>1. f = 0 => SceneStart(f) = 0
  BY SceneOf
<1>2. ASSUME f \in scenes PROVE SceneStart(f) = f
  BY <1>2, SceneOf
<1>3. ASSUME f # 0, f \notin scenes PROVE SceneStart(f) = SceneStart(f - 1)
  <2>0. f - 1 \in Nat
    BY <1>3
  <2>1. SceneStart(f) \in scenes \cup {0} /\ SceneStart(f) \in 0..(f - 1)
    BY <1>3, SceneOf
  <2>2. SceneStart(f) <= SceneStart(f - 1)
    BY <2>0, <2>1, SceneOf
  <2>3. SceneStart(f - 1) <= SceneStart(f)
    <3>1. SceneStart(f - 1) \in scenes \cup {0} /\ SceneStart(f - 1) \in 0..(f - 1)
      BY <2>0, SceneOf
    <3> QED BY <3>1, SceneOf
  <2>4. SceneStart(f - 1) \in Nat
    BY <2>0, SceneOf
  <2> QED BY <2>1, <2>2, <2>3, <2>4
<1> QED BY <1>1, <1>2, <1>3

(* What ByteTrack has seen after a frame, if it was fed in order: the      *)
(* frames of the scene.                                                    *)
Seen(f) == [scene |-> SceneStart(f), fed |-> SceneUpTo(f)]

InJob(frame, f) ==
  /\ frame.frame = f /\ frame.scene = SceneStart(f)
  /\ frame.reset => f \in scenes

LEMMA FirstFed ==
  ASSUME Cuts, NEW f \in Nat, SceneStart(f) = f, NEW frame, InJob(frame, f), NEW b,
         Enter(b, frame) = [scene |-> f, fed |-> <<>>]
  PROVE  Feed(b, frame) = Seen(f)
<1>1. Feed(b, frame) = [scene |-> f, fed |-> Append(<<>>, f)]
  BY DEF Feed, InJob
<1>2. SceneUpTo(f) = <<f>>
  <2>1. f - SceneStart(f) + 1 = 1
    OBVIOUS
  <2>2. SceneUpTo(f) = [i \in 1..1 |-> f + i - 1]
    BY <2>1 DEF SceneUpTo
  <2>3. SceneUpTo(f) \in Seq(Nat) /\ Len(SceneUpTo(f)) = 1 /\ SceneUpTo(f)[1] = f
    BY <2>2
  <2> QED BY <2>3
<1>3. Append(<<>>, f) = <<f>>
  OBVIOUS
<1> QED BY <1>1, <1>2, <1>3 DEF Seen

LEMMA FeedFirst ==
  ASSUME Cuts, NEW frame, InJob(frame, 0)
  PROVE  Feed(NewTracker.byte_tracker, frame) = Seen(0)
<1>1. SceneStart(0) = 0
  BY NextScene
<1>2. NewTracker.byte_tracker = [scene |-> -1, fed |-> <<>>]
  BY DEF NewTracker, Tracker
<1>3. Enter(NewTracker.byte_tracker, frame) = [scene |-> 0, fed |-> <<>>]
  BY <1>1, <1>2 DEF Enter, InJob
<1> QED BY <1>1, <1>3, FirstFed

LEMMA FeedNext ==
  ASSUME Cuts, NEW f \in Nat \ {0}, NEW frame, InJob(frame, f)
  PROVE  Feed(Seen(f - 1), frame) = Seen(f)
<1>1. CASE f \in scenes
  <2>1. SceneStart(f) = f /\ SceneStart(f - 1) # f
    BY <1>1, NextScene, SceneOf
  <2>2. Enter(Seen(f - 1), frame) = [scene |-> f, fed |-> <<>>]
    BY <2>1 DEF Enter, Seen, InJob
  <2> QED BY <2>1, <2>2, FirstFed
<1>2. CASE f \notin scenes
  <2>1. SceneStart(f) = SceneStart(f - 1) /\ SceneStart(f) \in 0..(f - 1)
    BY <1>2, NextScene, SceneOf
  <2>2. Enter(Seen(f - 1), frame) = Seen(f - 1)
    BY <1>2, <2>1 DEF Enter, Seen, InJob
  <2>3. Feed(Seen(f - 1), frame) =
          [scene |-> SceneStart(f), fed |-> Append(SceneUpTo(f - 1), f)]
    <3>1. Feed(Seen(f - 1), frame) = [Seen(f - 1) EXCEPT !.fed = Append(@, f)]
      BY <2>2 DEF Feed, InJob
    <3> QED BY <2>1, <3>1 DEF Seen
  <2> DEFINE s == SceneStart(f)
             old == SceneUpTo(f - 1)
             new == SceneUpTo(f)
  <2>4. /\ old = [i \in 1..(f - s) |-> s + i - 1]
        /\ new = [i \in 1..(f - s + 1) |-> s + i - 1]
    BY <2>1 DEF SceneUpTo
  <2> HIDE DEF old, new
  <2>5. s \in Nat /\ f - s \in Nat /\ f - s + 1 \in Nat
    BY <2>1
  <2> HIDE DEF s
  <2>6. old \in Seq(Nat) /\ Len(old) = f - s /\ new \in Seq(Nat) /\ Len(new) = f - s + 1
    BY <2>4, <2>5
  <2>7. Append(old, f) \in Seq(Nat) /\ Len(Append(old, f)) = f - s + 1
    BY <2>5, <2>6
  <2>8. \A i \in 1..(f - s + 1) : Append(old, f)[i] = new[i]
    <3> TAKE i \in 1..(f - s + 1)
    <3>1. CASE i = f - s + 1
      <4>1. Append(old, f)[i] = f
        BY <2>6, <3>1
      <4>2. new[i] = s + i - 1
        BY <2>4
      <4> QED BY <2>5, <3>1, <4>1, <4>2
    <3>2. CASE i # f - s + 1
      <4>1. i \in 1..(f - s)
        BY <2>5, <3>2
      <4>2. Append(old, f)[i] = old[i]
        BY <2>6, <4>1
      <4> QED BY <2>4, <4>1, <4>2
    <3> QED BY <3>1, <3>2
  <2>9. Append(old, f) = new
    BY <2>6, <2>7, <2>8, SeqEqual
  <2> QED BY <2>3, <2>9 DEF Seen, s, old, new
<1> QED BY <1>1, <1>2

(* The frames of a job, fed one after the other.                           *)
LEMMA JobFrames ==
  ASSUME NEW c \in Nat
  PROVE  /\ Job(c) \in Seq([frame : Int, scene : {SceneStart(f) : f \in Int}, reset : BOOLEAN])
         /\ Len(Job(c)) = ChunkSize
         /\ \A i \in 1..ChunkSize : InJob(Job(c)[i], c * ChunkSize + i - 1)
<1> DEFINE T == [frame : Int, scene : {SceneStart(f) : f \in Int}, reset : BOOLEAN]
           F(i) == c * ChunkSize + i - 1
           frame(i) == [frame |-> F(i), scene |-> SceneStart(F(i)),
                        reset |-> F(i) \in scenes /\ (F(i) % ChunkSize = 0 => F(i) \in late)]
<1>1. ChunkSize \in Nat /\ c * ChunkSize \in Nat
  BY TrackingAssumption
<1>2. \A i \in 1..ChunkSize : F(i) \in Int
  BY <1>1
<1>3. Job(c) = [i \in 1..ChunkSize |-> frame(i)]
  BY DEF Job
<1> HIDE DEF F
<1>4. \A i \in 1..ChunkSize : frame(i) \in T /\ InJob(frame(i), F(i))
  BY <1>2 DEF InJob
<1> HIDE DEF frame, T
<1>5. Job(c) \in [1..ChunkSize -> T] /\ \A i \in 1..ChunkSize : Job(c)[i] = frame(i)
  BY <1>3, <1>4
<1>6. Job(c) \in Seq(T) /\ Len(Job(c)) = ChunkSize
  BY <1>1, <1>5
<1> QED BY <1>4, <1>5, <1>6 DEF F, T

(* The state of ByteTrack before a chunk.                                  *)
Met(c) == IF c = 0 THEN NewTracker.byte_tracker ELSE Seen(c * ChunkSize - 1)

(* A recursion is given by its steps.                                      *)
Recursion(g, n, b, frames) ==
  g = [i \in 0..n |-> IF i = 0 THEN b ELSE Feed(g[i - 1], frames[i])]

LEMMA RecursionIs ==
  ASSUME NEW n \in Nat, NEW b, NEW frames,
         NEW g, Recursion(g, n, b, frames), NEW h, Recursion(h, n, b, frames)
  PROVE  g = h
<1> USE DEF Recursion
<1> DEFINE Differ == {i \in 0..n : g[i] # h[i]}
<1>1. SUFFICES ASSUME Differ # {} PROVE FALSE
  <2>1. \A i \in 0..n : g[i] = h[i]
    BY <1>1
  <2>2. DOMAIN g = 0..n /\ DOMAIN h = 0..n
    OBVIOUS
  <2>3. g = [i \in 0..n |-> g[i]] /\ h = [i \in 0..n |-> h[i]]
    BY <2>2
  <2> QED BY <2>1, <2>3
<1>2. PICK k \in Differ : \A i \in Differ : k <= i
  <2>1. Differ \subseteq Nat
    OBVIOUS
  <2> HIDE DEF Differ
  <2> QED BY <1>1, <2>1, HasLeast
<1>3. g[0] = b /\ h[0] = b
  OBVIOUS
<1>4. k \in 1..n
  BY <1>2, <1>3
<1>5. k - 1 \in 0..n /\ k - 1 \notin Differ
  BY <1>2, <1>4
<1>6. g[k - 1] = h[k - 1]
  BY <1>5
<1>7. g[k] = Feed(g[k - 1], frames[k]) /\ h[k] = Feed(h[k - 1], frames[k])
  BY <1>4
<1> QED BY <1>2, <1>6, <1>7

LEMMA FedInOrder ==
  ASSUME Cuts, NEW c \in Nat, NEW n \in 1..ChunkSize, NEW frames,
         Len(frames) = n, \A i \in 1..n : InJob(frames[i], c * ChunkSize + i - 1)
  PROVE  Fed(Met(c), frames) = Seen(c * ChunkSize + n - 1)
<1> DEFINE first == c * ChunkSize
           b == Met(c)
           g == [i \in 0..n |-> IF i = 0 THEN b ELSE Seen(first + i - 1)]
<1>1. first \in Nat /\ n \in Nat /\ n >= 1
  BY TrackingAssumption
<1>2. c = 0 => first = 0
  BY TrackingAssumption
<1>3. c # 0 => first # 0
  <2>1. \A x, y \in Nat : x # 0 /\ y # 0 => x * y # 0
    OBVIOUS
  <2> QED BY <2>1, TrackingAssumption
<1>4. \A i \in 1..n : InJob(frames[i], first + i - 1)
  OBVIOUS
<1> HIDE DEF first
<1>5. \A i \in 1..n : g[i] = Feed(g[i - 1], frames[i])
  <2> TAKE i \in 1..n
  <2>0. g[i] = Seen(first + i - 1) /\ InJob(frames[i], first + i - 1) /\ first + i - 1 \in Nat
    BY <1>1, <1>4
  <2>1. CASE i = 1
    <3>1. g[i - 1] = b /\ first + i - 1 = first
      BY <1>1, <2>1
    <3>2. CASE c = 0
      BY <1>2, <2>0, <3>1, <3>2, FeedFirst DEF Met
    <3>3. CASE c # 0
      <4>1. b = Seen(first - 1) /\ first \in Nat \ {0}
        BY <1>1, <1>3, <3>3 DEF Met, first
      <4> QED BY <2>0, <3>1, <4>1, FeedNext
    <3> QED BY <3>2, <3>3
  <2>2. CASE i # 1
    <3>1. i - 1 \in 0..n /\ i - 1 # 0 /\ first + (i - 1) - 1 = (first + i - 1) - 1
          /\ first + i - 1 \in Nat \ {0}
      BY <1>1, <2>2
    <3>2. g[i - 1] = Seen((first + i - 1) - 1)
      BY <3>1
    <3> QED BY <2>0, <3>1, <3>2, FeedNext
  <2> QED BY <2>1, <2>2
<1>6. Recursion(g, n, b, frames)
  <2>1. g[0] = b /\ \A i \in 0..n : i # 0 => i \in 1..n
    BY <1>1
  <2>2. g = [i \in 0..n |-> g[i]]
    OBVIOUS
  <2> HIDE DEF g
  <2> QED BY <1>5, <2>1, <2>2 DEF Recursion
<1> DEFINE fed == CHOOSE f : f = [i \in 0..n |-> IF i = 0 THEN b ELSE Feed(f[i - 1], frames[i])]
<1>7. Recursion(fed, n, b, frames)
  <2> HIDE DEF g, b
  <2> QED BY <1>6 DEF Recursion
<1>8. fed[n] = Seen(first + n - 1)
  <2>1. g[n] = Seen(first + n - 1)
    BY <1>1
  <2> HIDE DEF g, b, fed
  <2>2. fed = g
    BY <1>1, <1>6, <1>7, RecursionIs
  <2> QED BY <2>1, <2>2
<1>9. Fed(b, frames) = fed[n]
  <2> HIDE DEF b
  <2> QED BY DEF Fed
<1> QED BY <1>8, <1>9 DEF first
(* A chunk: its tracks, and what ByteTrack has seen after it.              *)
Right(tracks) ==
  \A i \in DOMAIN tracks :
    tracks[i].frame \in Nat /\ tracks[i].fed = SceneUpTo(tracks[i].frame)

LEMMA ChunkFed ==
  ASSUME Cuts, NEW c \in Nat
  PROVE  /\ Right(Tracks(Met(c), Job(c)))
         /\ Fed(Met(c), Job(c)) = Seen((c + 1) * ChunkSize - 1)
<1> DEFINE T == [frame : Int, scene : {SceneStart(f) : f \in Int}, reset : BOOLEAN]
           first == c * ChunkSize
           part(i) == SubSeq(Job(c), 1, i)
<1>1. /\ Job(c) \in Seq(T) /\ Len(Job(c)) = ChunkSize
      /\ \A i \in 1..ChunkSize : InJob(Job(c)[i], first + i - 1)
  BY JobFrames
<1>2. ChunkSize \in Nat \ {0} /\ first \in Nat /\ (c + 1) * ChunkSize - 1 = first + ChunkSize - 1
  BY TrackingAssumption
<1> HIDE DEF T
<1>3. Fed(Met(c), Job(c)) = Seen(first + ChunkSize - 1)
  <2>1. ChunkSize \in 1..ChunkSize
    BY <1>2
  <2> QED BY <1>1, <2>1, FedInOrder
<1> HIDE DEF first
<1>4. ASSUME NEW i \in 1..ChunkSize PROVE Fed(Met(c), part(i)) = Seen(first + i - 1)
  <2>1. part(i) \in Seq(T) /\ Len(part(i)) = i /\ \A j \in 1..i : part(i)[j] = Job(c)[j]
    BY <1>1, <1>2
  <2>2. \A j \in 1..i : InJob(part(i)[j], first + j - 1)
    BY <1>1, <1>2, <2>1
  <2> HIDE DEF part
  <2> QED BY <2>1, <2>2, FedInOrder DEF first
<1>5. ASSUME NEW i \in DOMAIN Tracks(Met(c), Job(c))
      PROVE  /\ Tracks(Met(c), Job(c))[i].frame \in Nat
             /\ Tracks(Met(c), Job(c))[i].fed = SceneUpTo(Tracks(Met(c), Job(c))[i].frame)
  <2>1. i \in 1..ChunkSize
    BY <1>1, <1>2, <1>5 DEF Tracks
  <2>2. Tracks(Met(c), Job(c))[i] = [frame |-> Job(c)[i].frame, fed |-> Fed(Met(c), part(i)).fed]
    BY <1>5 DEF Tracks
  <2>3. Job(c)[i].frame = first + i - 1 /\ first + i - 1 \in Nat
    BY <1>1, <1>2, <2>1 DEF InJob
  <2>4. Fed(Met(c), part(i)).fed = SceneUpTo(first + i - 1)
    <3> HIDE DEF part
    <3>1. Fed(Met(c), part(i)) = Seen(first + i - 1)
      BY <1>4, <2>1
    <3>2. Seen(first + i - 1).fed = SceneUpTo(first + i - 1)
      BY DEF Seen
    <3> QED BY <3>1, <3>2
  <2> HIDE DEF part
  <2> QED BY <2>2, <2>3, <2>4
<1> QED BY <1>2, <1>3, <1>5 DEF Right

(* A tracker that stands between two chunks.                               *)
Whole(t) == t = NewTracker \/ \E m \in Nat \ {0} : t = Tracker({m}, Seen(m * ChunkSize - 1))

LEMMA WholeMeets ==
  ASSUME NEW t, Whole(t), NEW n \in Nat, t.expected = {n} \/ (n = 0 /\ t = NewTracker)
  PROVE  t.byte_tracker = Met(n)
<1>1. NewTracker.expected = {}
  BY DEF NewTracker, Tracker
<1>2. CASE t.expected = {n}
  <2>1. PICK m \in Nat \ {0} : t = Tracker({m}, Seen(m * ChunkSize - 1))
    BY <1>1, <1>2 DEF Whole
  <2>2. t.expected = {m} /\ t.byte_tracker = Seen(m * ChunkSize - 1)
    BY <2>1 DEF Tracker
  <2>3. m = n /\ n # 0
    BY <1>2, <2>2
  <2> QED BY <2>2, <2>3 DEF Met
<1>3. CASE n = 0 /\ t = NewTracker
  BY <1>3 DEF Met
<1> QED BY <1>2, <1>3

(* Where everything that is fed, remembered and stored came in turn.       *)
WholeAnswer(r) == Right(r.tracks) /\ \A t \in r.checkpoint : Whole(t)

RightStore == /\ \A r \in results : Right(r.tracks)
              /\ \A t \in checkpoint : Whole(t)
              /\ \A q \in Requests : \A t \in q[2] : Whole(t)

RightActor == actor.status = "alive" => Whole(actor.tracker) /\ \A r \in actor.cache : WholeAnswer(r)

RightWork == handler.at = "persist" => Right(handler.result.tracks) /\ Whole(handler.checkpoint)

Straight == RightStore /\ RightActor /\ RightWork

(* Where a tracker began with a later chunk: nothing is published, and no  *)
(* tracker will take chunk 0, since what the actor forgets is restored     *)
(* from the checkpoint.                                                    *)
Late(t) == t.expected # {} /\ 0 \notin t.expected

LateAnswer(r) == r.chunk # 0 /\ \A t \in r.checkpoint : Late(t)

LateStore == /\ classes /\ next = 0 /\ published = {}
             /\ \A r \in results : r.chunk # 0
             /\ \A t \in checkpoint : Late(t)
             /\ \A q \in Requests : \A t \in q[2] : Late(t)

LateActor == actor.status = "alive" => \A r \in actor.cache : LateAnswer(r)

LateWork == handler.at = "persist" => handler.result.chunk # 0 /\ Late(handler.checkpoint)

LateSource ==
  \/ actor.status = "alive" /\ Late(actor.tracker)
  \/ /\ actor.status = "alive" => ~actor.restored /\ \A q \in Requests : q[2] # {}
     /\ checkpoint # {} \/ handler.at = "persist"

Strange == LateStore /\ LateActor /\ LateWork /\ LateSource

Clean == ~Happened("mid_job")

Content == Clean => Straight \/ Strange

(* A call that is served between two chunks feeds the next one.            *)
LEMMA ChunkServed ==
  ASSUME Cuts, NEW n \in Nat, n <= LastChunk, Call.chunk = n, Whole(Restored),
         Restored.expected = {n} \/ (n = 0 /\ Restored = NewTracker)
  PROVE  Right(JobTracks) /\ Whole(Processed)
<1>1. Restored.byte_tracker = Met(n)
  BY WholeMeets
<1>2. Processed = Tracker({n + 1}, Seen((n + 1) * ChunkSize - 1))
  BY <1>1, ChunkFed DEF Processed
<1>3. n + 1 \in Nat \ {0}
  OBVIOUS
<1> QED BY <1>1, <1>2, <1>3, ChunkFed DEF Whole, JobTracks

LEMMA VideoStays ==
  ASSUME [Next]_vars
  PROVE  /\ \A tracks : Right(tracks)' <=> Right(tracks)
         /\ \A t : Whole(t)' <=> Whole(t)
         /\ \A r : WholeAnswer(r)' <=> WholeAnswer(r)
<1>1. UNCHANGED video
  BY Noted
<1>2. \A f : SceneStart(f)' = SceneStart(f)
  BY <1>1 DEF video, SceneStart
<1>3. \A f : SceneUpTo(f)' = SceneUpTo(f)
  BY <1>2 DEF SceneUpTo
<1>4. \A f : Seen(f)' = Seen(f)
  BY <1>2, <1>3 DEF Seen
<1>5. \A tracks : Right(tracks)' <=> Right(tracks)
  BY <1>3 DEF Right
<1>6. \A t : Whole(t)' <=> Whole(t)
  BY <1>4 DEF Whole
<1>7. \A r : WholeAnswer(r)' <=> WholeAnswer(r)
  BY <1>5, <1>6 DEF WholeAnswer
<1> QED BY <1>5, <1>6, <1>7

(* Without a result nothing has been published or stored.                  *)
LEMMA NothingStored ==
  ASSUME Base, results = {}
  PROVE  next = 0 /\ published = {} /\ checkpoint = {} /\ \A q \in Requests : q[2] = {}
<1>1. next = 0
  <2>1. next \in Nat
    BY DEF Base, OrderInv
  <2>2. next # 0 => 0 \in 0..(next - 1)
    BY <2>1
  <2> QED BY <2>2 DEF Base, OrderInv
<1> QED BY <1>1 DEF Base, OrderInv, StoreInv

(* The requests after a step.                                              *)
LEMMA RequestStep ==
  ASSUME Base, [Next]_vars
  PROVE  /\ Requests' \subseteq Requests \/ Requests' \subseteq Requests \cup {<<Head(held), checkpoint>>}
         /\ handler'.at # "infer" \/ handler' = handler => Requests' \subseteq Requests
         /\ Serves => Requests' \subseteq Requests
<1>1. Requests' \subseteq Requests \/ \E c \in Chunk : NewRequest(c)
  BY QueueStep DEF Base
<1>2. ASSUME NEW c \in Chunk, NewRequest(c)
      PROVE  /\ handler'.at = "infer" /\ handler # handler'
             /\ \E call : queue' = Append(queue, call)
             /\ Requests' \subseteq Requests \cup {<<Head(held), checkpoint>>}
  <2>1. /\ handler = Idle /\ handler'.at = "infer" /\ c = Head(held)
        /\ queue' = Append(queue, ProcessCall(c, checkpoint, TRUE))
    BY <1>2 DEF NewRequest, StartInference, Handles
  <2>2. handler # handler'
    BY <2>1 DEF Idle
  <2>3. \E call : queue' = Append(queue, call)
    BY <2>1
  <2> QED BY <1>2, <2>1, <2>2, <2>3 DEF NewRequest
<1>3. ASSUME Serves, NEW call PROVE queue' # Append(queue, call)
  <2>1. Serving /\ queue' = Tail(queue)
    BY <1>3, Served
  <2>2. PICK S : queue \in Seq(S)
    BY DEF Base, QueueInv
  <2>3. Len(queue') = Len(queue) - 1 /\ Len(queue) \in Nat
    BY <2>1, <2>2, TailOf DEF Serving
  <2> SUFFICES ASSUME queue' = Append(queue, call) PROVE FALSE
    OBVIOUS
  <2>4. Len(queue') = Len(queue) + 1
    BY <2>2, AppendOf
  <2> QED BY <2>3, <2>4
<1> QED BY <1>1, <1>2, <1>3

LEMMA StraightStep ==
  ASSUME Base, Straight, [Next]_vars, \A t : ~Breaks(t)
  PROVE  Straight' \/ Strange'
<1> USE DEF stored, order
<1>b. OrderInv /\ WorkInv /\ StoreInv /\ ActorInv /\ Cuts
  BY DEF Base
<1>i. Idle.at = "idle"
  BY DEF Idle
<1>v. /\ \A tracks : Right(tracks)' <=> Right(tracks)
      /\ \A t : Whole(t)' <=> Whole(t)
      /\ \A r : WholeAnswer(r)' <=> WholeAnswer(r)
  BY VideoStays
<1>n. Whole(NewTracker)
  BY DEF Whole
<1>q. \A q \in Requests' : \A t \in q[2] : Whole(t)'
  <2>1. \A q \in Requests' : q \in Requests \/ q[2] = checkpoint
    BY RequestStep
  <2> QED BY <1>v, <2>1 DEF Straight, RightStore
(* The store, the actor and the handler, where a step leaves them alone.   *)
<1>s. UNCHANGED <<results, checkpoint>> => RightStore'
  BY <1>q, <1>v DEF Straight, RightStore
<1>a. ASSUME actor' = actor \/ actor'.status # "alive" \/ actor' = NewActor(0) \/ actor' = NewActor(1)
      PROVE  RightActor'
  <2>1. CASE actor' = actor
    BY <1>v, <2>1 DEF Straight, RightActor
  <2>2. CASE actor'.status # "alive"
    BY <2>2 DEF RightActor
  <2>3. CASE actor' = NewActor(0) \/ actor' = NewActor(1)
    <3>1. actor'.tracker = NewTracker /\ actor'.cache = {}
      BY <2>3 DEF NewActor, Actor
    <3> QED BY <1>n, <1>v, <3>1 DEF RightActor
  <2> QED BY <1>a, <2>1, <2>2, <2>3
<1>w. handler' = handler \/ handler'.at # "persist" => RightWork'
  BY <1>v DEF Straight, RightWork
<1>1. CASE UNCHANGED vars
  BY <1>1, <1>s, <1>a, <1>w DEF vars, Straight
<1>2. CASE Aside
  BY <1>2, <1>i, <1>s, <1>a, <1>w, AsideStep DEF Straight
<1>3. CASE Serves
  <2>1. Serving /\ UNCHANGED <<results, checkpoint, order>> /\ RightStore'
    BY <1>3, <1>s, Served
  <2>t. /\ actor.status = "alive" /\ classes
        /\ <<Call.chunk, Call.checkpoint>> \in Requests /\ Call.chunk \in Chunk
        /\ \/ Call.checkpoint = {} /\ Restored = actor.tracker
           \/ Call.checkpoint # {} /\ actor.restored /\ Restored = actor.tracker
           \/ Call.checkpoint # {} /\ ~actor.restored /\ Restored \in Call.checkpoint
    BY <2>1, ServedTracker
  <2>w. Whole(actor.tracker) /\ Whole(Restored) /\ \A r \in actor.cache : WholeAnswer(r)
    BY <2>t DEF Straight, RightActor, RightStore
  <2>r. ASSUME NEW tracks, NEW state, Return(tracks, state), Right(tracks), Whole(state)
        PROVE  RightWork'
    BY <1>v, <1>w, <2>r DEF Return, RightWork
  <2>i. Raise => RightWork'
    BY <1>i, <1>w DEF Raise
  <2>3. ASSUME NEW r, NEW state, Answers(r, state) PROVE Straight'
    <3>1. /\ r \in actor.cache /\ state # {} /\ (CHOOSE t \in state : TRUE) \in state
          /\ state = IF r.checkpoint = {} THEN {actor.tracker} ELSE r.checkpoint
      BY <2>1, <2>3, AnswerFed DEF Answers
    <3>2. Right(r.tracks) /\ \A t \in state : Whole(t)
      BY <2>w, <3>1 DEF WholeAnswer
    <3>3. PICK a : a = Response(r.chunk, r.tracks, state)
      OBVIOUS
    <3>4. a.tracks = r.tracks /\ a.checkpoint = state
      BY <3>3 DEF Response
    <3>5. WholeAnswer(a)
      BY <3>2, <3>4 DEF WholeAnswer
    <3>6. /\ ActorIs(actor.restored, actor.tracker, (actor.cache \ {r}) \cup {a})
          /\ Return(r.tracks, CHOOSE t \in state : TRUE)
      BY <2>3, <3>3 DEF Answers
    <3>7. RightActor'
      BY <1>v, <2>w, <3>5, <3>6 DEF RightActor, ActorIs
    <3>8. RightWork'
      BY <2>r, <3>1, <3>2, <3>6
    <3> QED BY <2>1, <3>7, <3>8 DEF Straight
  <2>4. CASE Restores
    <3>1. ActorIs(TRUE, Restored, actor.cache) /\ Raise
      BY <2>4 DEF Restores
    <3>2. RightActor'
      BY <1>v, <2>w, <3>1 DEF RightActor, ActorIs
    <3> QED BY <2>1, <2>i, <3>1, <3>2 DEF Straight
  <2>5. ASSUME NEW state, NEW cache, Feeds(state, cache) PROVE Straight' \/ Strange'
    <3>1. PICK r : r = Response(Call.chunk, JobTracks, state)
      OBVIOUS
    <3>2. r.chunk = Call.chunk /\ r.tracks = JobTracks /\ r.checkpoint = state
      BY <3>1 DEF Response
    <3>3. /\ ActorIs(TRUE, Processed, cache) /\ (state = {} \/ state = {Processed})
          /\ cache \subseteq actor.cache \cup {r} /\ Expected(Restored) = {Call.chunk}
          /\ Raise \/ Return(JobTracks, Processed)
      BY <2>5, <3>1 DEF Feeds, Kept
    <3>4. Restored.expected = {Call.chunk} \/ Restored.expected = {}
      BY <3>3 DEF Expected
    <3>5. Restored.expected = {} => Restored = NewTracker
      BY <2>w DEF Whole, Tracker
    <3>6. CASE Restored.expected = {Call.chunk} \/ Call.chunk = 0
      <4>1. PICK n \in Nat : n = Call.chunk /\ n <= LastChunk
        BY <2>t, TotalNat DEF Chunk
      <4>2. Restored.expected = {n} \/ (n = 0 /\ Restored = NewTracker)
        BY <3>4, <3>5, <3>6, <4>1
      <4>3. Right(JobTracks) /\ Whole(Processed)
        BY <1>b, <2>w, <4>1, <4>2, ChunkServed
      <4>4. WholeAnswer(r)
        BY <3>2, <3>3, <4>3 DEF WholeAnswer
      <4>5. RightActor'
        BY <1>v, <2>w, <3>3, <4>3, <4>4 DEF RightActor, ActorIs
      <4>6. RightWork'
        BY <2>i, <2>r, <3>3, <4>3
      <4> QED BY <2>1, <4>5, <4>6 DEF Straight
    <3>7. CASE Restored.expected = {} /\ Call.chunk # 0
      <4>1. Restored \notin Call.checkpoint
        BY <1>b, <2>t, <3>7 DEF StoreInv
      <4>2. Unfed /\ (actor.restored \/ \E q \in Requests : q[2] = {})
        BY <2>t, <3>7, <4>1 DEF Unfed
      <4>3. results = {} /\ actor.cache = {}
        BY <1>b, <2>t, <4>2 DEF ActorInv
      <4>4. next = 0 /\ published = {} /\ checkpoint = {} /\ \A q \in Requests : q[2] = {}
        BY <4>3, NothingStored
      <4>5. Requests' \subseteq Requests /\ classes' = classes
        BY <1>3, RequestStep, Noted DEF video
      <4>6. LateStore'
        BY <2>1, <2>t, <4>3, <4>4, <4>5 DEF LateStore
      <4>7. Late(Processed)
        <5>1. Processed.expected = {Call.chunk + 1} /\ Call.chunk \in Nat
          BY <2>t, TotalNat DEF Processed, Tracker, Chunk
        <5> QED BY <5>1 DEF Late
      <4>8. LateAnswer(r)
        BY <3>2, <3>3, <3>7, <4>7 DEF LateAnswer
      <4>9. LateActor' /\ LateSource'
        BY <3>3, <4>3, <4>7, <4>8 DEF LateActor, LateSource, ActorIs
      <4>10. LateWork'
        <5>1. handler.at # "persist"
          <6>1. queue # <<>>
            BY <2>1 DEF Serving
          <6> QED BY <1>b, <1>i, <6>1 DEF WorkInv, Busy
        <5> QED BY <1>i, <3>3, <3>7, <4>7, <5>1 DEF LateWork, Raise, Return
      <4> QED BY <4>6, <4>9, <4>10 DEF Strange
    <3> QED BY <3>4, <3>6, <3>7
  <2> QED BY <1>3, <2>3, <2>4, <2>5, Served
<1>4. CASE ActorDies
  <2>1. /\ UNCHANGED <<results, checkpoint>> /\ (handler' = handler \/ handler' = Idle)
        /\ actor' = NewActor(1) \/ actor' = DeadActor
    BY <1>4 DEF ActorDies
  <2> QED BY <1>i, <1>s, <1>a, <1>w, <2>1 DEF Straight, DeadActor
<1>5. ASSUME NEW c \in Chunk, StartCached(c) \/ StartInference(c) PROVE Straight'
  <2>1. /\ UNCHANGED <<results, checkpoint>> /\ handler'.at \in {"publish", "infer"}
        /\ actor' = actor \/ actor' = NewActor(0)
    <3>1. CASE StartCached(c)
      <4>1. PICK r : handler' = [at |-> "publish", result |-> r]
        BY <3>1 DEF StartCached
      <4>2. handler'.at = "publish"
        BY <4>1
      <4> QED BY <3>1, <4>2 DEF StartCached
    <3>2. CASE StartInference(c)
      BY <3>2 DEF StartInference
    <3> QED BY <1>5, <3>1, <3>2
  <2> QED BY <1>s, <1>a, <1>w, <2>1 DEF Straight
<1>6. ASSUME NEW c \in Chunk, StartWithoutClasses(c) PROVE Straight'
  <2>1. PICK r : r = [chunk |-> c, tracks |-> <<>>]
    OBVIOUS
  <2>2. Right(r.tracks)
    BY <2>1 DEF Right
  <2>3. /\ results' = results \cup {r} /\ handler'.at = "publish" /\ UNCHANGED <<actor, checkpoint>>
    BY <1>6, <2>1 DEF StartWithoutClasses
  <2>4. RightStore'
    BY <1>q, <1>v, <2>2, <2>3 DEF Straight, RightStore
  <2> QED BY <1>a, <1>w, <2>3, <2>4 DEF Straight
<1>7. CASE Persist
  <2>1. /\ Right(handler.result.tracks) /\ Whole(handler.checkpoint) /\ handler'.at = "publish"
        /\ results' = results \cup {handler.result} /\ checkpoint' = {handler.checkpoint}
        /\ UNCHANGED actor
    BY <1>7 DEF Persist, Straight, RightWork
  <2>2. RightStore'
    BY <1>q, <1>v, <2>1 DEF Straight, RightStore
  <2> QED BY <1>a, <1>w, <2>1, <2>2 DEF Straight
<1>8. CASE Publish \/ Release \/ DeleteState \/ Ack
  <2>1. /\ results' = results /\ (checkpoint' = checkpoint \/ checkpoint' = {})
        /\ handler'.at # "persist" /\ (actor' = actor \/ actor'.status # "alive")
    BY <1>8, <1>i DEF Publish, Release, DeleteState, Ack, Then, NoActor
  <2>2. RightStore'
    BY <1>q, <1>v, <2>1 DEF Straight, RightStore
  <2> QED BY <1>a, <1>w, <2>1, <2>2 DEF Straight
<1> QED BY <1>1, <1>2, <1>3, <1>4, <1>5, <1>6, <1>7, <1>8, Steps

LEMMA StrangeStep ==
  ASSUME Base, Strange, [Next]_vars, \A t : ~Breaks(t)
  PROVE  Straight' \/ Strange'
<1> USE DEF stored, order
<1>b. QueueInv /\ OrderInv /\ WorkInv /\ StoreInv /\ ActorInv
  BY DEF Base
<1>o. Base' /\ StoreInv' /\ OrderInv'
  <2>1. Base'
    BY BaseStep
  <2> QED BY <2>1 DEF Base
<1>i. Idle.at = "idle"
  BY DEF Idle
<1>c. classes /\ classes' /\ next = 0 /\ published = {} /\ LastChunk \in Nat
  BY Noted, TotalNat DEF video, Strange, LateStore
(* Which handlers there are: what is published comes in turn.              *)
<1>h. /\ handler.at \in {"idle", "infer", "persist", "publish"}
      /\ handler.at = "publish" => handler.result.chunk > next
  <2>1. \A r \in results : r.chunk \in 0..LastChunk /\ r.chunk # 0
    BY <1>b DEF OrderInv, Chunk, Strange, LateStore
  <2>2. handler.at = "publish" => handler.result.chunk \in 0..LastChunk /\ handler.result.chunk # 0
    BY <1>b, <1>i, <2>1 DEF WorkInv, Busy
  <2>3. handler.at # "release" /\ handler.at # "delete"
    BY <1>b, <1>c, <1>i DEF WorkInv, Busy
  <2>4. handler.at # "ack"
    <3> SUFFICES ASSUME handler.at = "ack" PROVE FALSE
      OBVIOUS
    <3>1. held # <<>> /\ handler.chunk = Head(held) /\ handler.chunk < next
      BY <1>b, <1>i DEF WorkInv, Busy
    <3>2. handler.chunk \in 0..LastChunk
      BY <3>1, HeadOfHeld DEF Base, Chunk
    <3> QED BY <1>c, <3>1, <3>2
  <2> QED BY <1>b, <1>c, <1>i, <2>2, <2>3, <2>4 DEF WorkInv, Busy
<1>q. \A q \in Requests' : q \in Requests \/ q[2] = checkpoint
  BY RequestStep
<1>s. UNCHANGED <<results, checkpoint, next, published>> => LateStore'
  BY <1>c, <1>q DEF Strange, LateStore
<1>a. ASSUME actor' = actor \/ actor'.status # "alive" \/ actor' = NewActor(0) \/ actor' = NewActor(1)
      PROVE  LateActor'
  BY <1>a DEF Strange, LateActor, NewActor, Actor
<1>w. handler' = handler \/ handler'.at # "persist" => LateWork'
  BY DEF Strange, LateWork
(* With the tracker and the last who would store its checkpoint gone, the  *)
(* worker starts anew.                                                     *)
<1>x. ASSUME UNCHANGED <<results, checkpoint, next>>, checkpoint = {}, handler'.at # "persist",
             actor'.status = "alive" => ~actor'.restored
      PROVE  Straight'
  <2>1. results = {}
    BY <1>b, <1>c, <1>x DEF StoreInv
  <2>2. \A q \in Requests' : q[2] = {}
    BY <1>q, <1>x, <2>1, NothingStored
  <2>3. RightStore' /\ RightWork'
    BY <1>x, <2>1, <2>2 DEF RightStore, RightWork
  <2>4. RightActor'
    <3> SUFFICES ASSUME actor'.status = "alive" PROVE Whole(actor.tracker)' /\ actor'.cache = {}
      BY DEF RightActor
    <3>1. actor'.tracker = NewTracker /\ actor'.cache = {}
      BY <1>o, <1>x DEF Base, ActorInv, Unfed
    <3>2. Whole(NewTracker)'
      BY DEF Whole
    <3> QED BY <3>1, <3>2
  <2> QED BY <2>3, <2>4 DEF Straight
(* The source stays, where a step leaves the actor alone.                  *)
<1>y. ASSUME actor' = actor, Requests' \subseteq Requests, checkpoint' # {} \/ handler'.at = "persist"
      PROVE  LateSource'
  BY <1>y DEF Strange, LateSource
<1>z. ASSUME actor' = actor, actor.status = "alive", Late(actor.tracker) PROVE LateSource'
  BY <1>z DEF LateSource
<1>1. CASE UNCHANGED vars
  <2>1. UNCHANGED <<results, checkpoint, order, actor, handler, queue>>
    BY <1>1 DEF vars
  <2>2. LateSource'
    BY <2>1 DEF Strange, LateSource, Requests
  <2> QED BY <1>s, <1>a, <1>w, <2>1, <2>2 DEF Strange
<1>2. CASE Aside
  <2>1. UNCHANGED <<results, checkpoint, order, actor>> /\ (handler' = handler \/ handler' = Idle)
    BY <1>2, AsideStep
  <2>2. Requests' \subseteq Requests
    BY <1>i, <2>1, RequestStep
  <2>3. LateStore' /\ LateActor' /\ LateWork'
    BY <1>i, <1>s, <1>a, <1>w, <2>1
  <2>4. LateSource' \/ Straight'
    <3>1. CASE actor.status = "alive" /\ Late(actor.tracker)
      BY <1>z, <2>1, <3>1
    <3>2. CASE checkpoint' # {} \/ handler'.at = "persist"
      BY <1>y, <2>1, <2>2, <3>2
    <3>3. CASE /\ checkpoint' = {} /\ handler'.at # "persist"
               /\ actor.status = "alive" => ~actor.restored
      BY <1>x, <2>1, <3>3
    <3> QED BY <3>1, <3>2, <3>3 DEF Strange, LateSource
  <2> QED BY <2>3, <2>4 DEF Strange
<1>3. CASE Serves
  <2>1. Serving /\ UNCHANGED <<results, checkpoint, order>> /\ LateStore' /\ Requests' \subseteq Requests
    BY <1>3, <1>s, Served, RequestStep
  <2>t. /\ actor.status = "alive" /\ actor.restored \in BOOLEAN
        /\ <<Call.chunk, Call.checkpoint>> \in Requests /\ Call.chunk \in Chunk
        /\ \/ Call.checkpoint = {} /\ Restored = actor.tracker
           \/ Call.checkpoint # {} /\ actor.restored /\ Restored = actor.tracker
           \/ Call.checkpoint # {} /\ ~actor.restored /\ Restored \in Call.checkpoint
        /\ Remembered # {} => ~Unfed
    BY <1>b, <2>1, ServedTracker DEF ActorInv
  <2>l. Late(Restored) /\ (Remembered # {} => Late(actor.tracker))
    <3>1. CASE Late(actor.tracker)
      BY <2>t, <3>1 DEF Strange, LateStore
    <3>2. CASE ~actor.restored /\ \A q \in Requests : q[2] # {}
      <4>1. Remembered = {}
        BY <1>b, <2>t, <3>2 DEF ActorInv
      <4>2. Call.checkpoint # {}
        BY <2>t, <3>2
      <4>3. Restored \in Call.checkpoint
        BY <2>t, <3>2, <4>2
      <4> QED BY <2>t, <4>1, <4>3 DEF Strange, LateStore
    <3> QED BY <2>t, <3>1, <3>2 DEF Strange, LateSource
  <2>w. \A r \in actor.cache : LateAnswer(r)
    BY <2>t DEF Strange, LateActor
  <2>r. ASSUME NEW tracks, NEW state, Return(tracks, state), Call.chunk # 0, Late(state)
        PROVE  LateWork'
    BY <1>w, <2>r DEF Return, LateWork
  <2>i. Raise => LateWork'
    BY <1>i, <1>w DEF Raise
  <2>3. ASSUME NEW r, NEW state, Answers(r, state) PROVE Strange'
    <3>1. /\ r \in actor.cache /\ r.chunk = Call.chunk
          /\ state # {} /\ (CHOOSE t \in state : TRUE) \in state
          /\ state = IF r.checkpoint = {} THEN {actor.tracker} ELSE r.checkpoint
      BY <2>1, <2>3, AnswerFed DEF Answers
    <3>2. Late(actor.tracker)
      BY <2>3, <2>l DEF Answers
    <3>3. r.chunk # 0 /\ \A t \in state : Late(t)
      BY <2>w, <3>1, <3>2 DEF LateAnswer
    <3>4. PICK a : a = Response(r.chunk, r.tracks, state)
      OBVIOUS
    <3>5. LateAnswer(a)
      BY <3>3, <3>4 DEF LateAnswer, Response
    <3>6. /\ ActorIs(actor.restored, actor.tracker, (actor.cache \ {r}) \cup {a})
          /\ Return(r.tracks, CHOOSE t \in state : TRUE)
      BY <2>3, <3>4 DEF Answers
    <3>7. LateActor' /\ LateSource'
      BY <2>w, <3>2, <3>5, <3>6 DEF LateActor, LateSource, ActorIs
    <3>8. LateWork'
      BY <2>r, <3>1, <3>3, <3>6
    <3> QED BY <2>1, <3>7, <3>8 DEF Strange
  <2>4. CASE Restores
    <3>1. ActorIs(TRUE, Restored, actor.cache) /\ Raise
      BY <2>4 DEF Restores
    <3>2. LateActor' /\ LateSource'
      BY <2>w, <2>l, <3>1 DEF LateActor, LateSource, ActorIs
    <3> QED BY <2>1, <2>i, <3>1, <3>2 DEF Strange
  <2>5. ASSUME NEW state, NEW cache, Feeds(state, cache) PROVE Strange'
    <3>1. PICK r : r = Response(Call.chunk, JobTracks, state)
      OBVIOUS
    <3>2. r.chunk = Call.chunk /\ r.checkpoint = state
      BY <3>1 DEF Response
    <3>3. /\ ActorIs(TRUE, Processed, cache) /\ (state = {} \/ state = {Processed})
          /\ cache \subseteq actor.cache \cup {r} /\ Expected(Restored) = {Call.chunk}
          /\ Raise \/ Return(JobTracks, Processed)
      BY <2>5, <3>1 DEF Feeds, Kept
    <3>4. Call.chunk # 0
      BY <2>l, <3>3 DEF Late, Expected
    <3>5. Late(Processed)
      <4>1. Processed.expected = {Call.chunk + 1} /\ Call.chunk \in Nat
        BY <2>t, TotalNat DEF Processed, Tracker, Chunk
      <4> QED BY <4>1 DEF Late
    <3>6. LateAnswer(r)
      BY <3>2, <3>3, <3>4, <3>5 DEF LateAnswer
    <3>7. LateActor' /\ LateSource'
      BY <2>w, <3>3, <3>5, <3>6 DEF LateActor, LateSource, ActorIs
    <3>8. LateWork'
      BY <2>i, <2>r, <3>3, <3>4, <3>5
    <3> QED BY <2>1, <3>7, <3>8 DEF Strange
  <2> QED BY <1>3, <2>3, <2>4, <2>5, Served
<1>4. CASE ActorDies
  <2>1. /\ UNCHANGED <<results, checkpoint, order>> /\ (handler' = handler \/ handler' = Idle)
        /\ queue' = <<>> /\ (actor' = NewActor(1) \/ actor' = DeadActor)
    BY <1>4 DEF ActorDies
  <2>2. Requests' = {}
    BY <1>4 DEF ActorDies, Requests
  <2>3. actor'.status = "alive" => ~actor'.restored
    BY <2>1 DEF NewActor, Actor, DeadActor
  <2>4. LateStore' /\ LateActor' /\ LateWork'
    BY <1>i, <1>s, <1>a, <1>w, <2>1 DEF DeadActor
  <2>5. LateSource' \/ Straight'
    <3>1. CASE checkpoint' # {} \/ handler'.at = "persist"
      BY <2>2, <2>3, <3>1 DEF LateSource
    <3>2. CASE checkpoint' = {} /\ handler'.at # "persist"
      BY <1>x, <2>1, <2>3, <3>2
    <3> QED BY <3>1, <3>2
  <2> QED BY <2>4, <2>5 DEF Strange
<1>5. ASSUME NEW c \in Chunk, StartCached(c) PROVE Strange'
  <2>1. PICK r : handler' = [at |-> "publish", result |-> r]
    BY <1>5 DEF StartCached
  <2>2. /\ UNCHANGED <<results, checkpoint, order, actor, queue>> /\ handler'.at = "publish" /\ handler = Idle
    BY <1>5, <2>1 DEF StartCached
  <2>3. LateSource'
    BY <1>i, <2>2 DEF Strange, LateSource, Requests
  <2> QED BY <1>s, <1>a, <1>w, <2>2, <2>3 DEF Strange
<1>6. ASSUME NEW c \in Chunk, StartInference(c) PROVE Strange'
  <2>1. /\ UNCHANGED <<results, checkpoint, order>> /\ handler'.at = "infer" /\ handler = Idle
        /\ actor' = IF actor.status = "alive" THEN actor ELSE NewActor(0)
    BY <1>6 DEF StartInference
  <2>2. LateSource'
    <3>1. CASE actor.status = "alive" /\ Late(actor.tracker)
      BY <1>z, <2>1, <3>1
    <3>2. CASE /\ actor.status = "alive" => ~actor.restored /\ \A q \in Requests : q[2] # {}
               /\ checkpoint # {}
      <4>1. actor'.status = "alive" => ~actor'.restored
        BY <2>1, <3>2 DEF NewActor, Actor
      <4>2. \A q \in Requests : q[2] # {}
        BY <1>b, <3>2 DEF QueueInv, Requests
      <4> QED BY <1>q, <2>1, <3>2, <4>1, <4>2 DEF LateSource
    <3> QED BY <1>i, <2>1, <3>1, <3>2 DEF Strange, LateSource
  <2> QED BY <1>s, <1>a, <1>w, <2>1, <2>2 DEF Strange
<1>7. ASSUME NEW c \in Chunk, StartWithoutClasses(c) PROVE FALSE
  BY <1>c, <1>7 DEF StartWithoutClasses
<1>8. CASE Persist
  <2>1. /\ handler.at = "persist" /\ handler.result.chunk # 0 /\ Late(handler.checkpoint)
        /\ handler'.at = "publish"
        /\ results' = results \cup {handler.result} /\ checkpoint' = {handler.checkpoint}
        /\ UNCHANGED <<actor, queue, order>>
    BY <1>8 DEF Persist, Strange, LateWork
  <2>2. LateStore'
    BY <1>c, <1>q, <2>1 DEF Strange, LateStore
  <2>3. Requests' \subseteq Requests
    BY <2>1 DEF Requests
  <2> QED BY <1>a, <1>w, <1>y, <2>1, <2>2, <2>3 DEF Strange
<1>9. ~Publish
  <2> SUFFICES ASSUME Publish PROVE FALSE
    OBVIOUS
  <2>1. PICK c : c = handler.result.chunk
    OBVIOUS
  <2>2. handler.at = "publish" /\ (c = next \/ c < next)
    BY <2>1 DEF Publish
  <2>3. held # <<>> /\ c = Head(held)
    BY <1>b, <1>i, <2>1, <2>2 DEF WorkInv, Busy
  <2>4. c \in 0..LastChunk
    BY <2>3, HeadOfHeld DEF Base, Chunk
  <2>5. c > next
    BY <1>h, <2>1, <2>2
  <2> QED BY <1>c, <2>2, <2>4, <2>5
<1>10. ~Release /\ ~DeleteState /\ ~Ack
  BY <1>h DEF Release, DeleteState, Ack
<1> QED BY <1>1, <1>2, <1>3, <1>4, <1>5, <1>6, <1>7, <1>8, <1>9, <1>10, Steps

(* Unless a job failed midway, the trackers, the checkpoint and the        *)
(* results hold what feeding the frames of each scene in order, once,      *)
(* would give; or a tracker began with a later chunk, and then nothing is  *)
(* published.                                                              *)
THEOREM Contents == Spec => []Content
<1>1. Init => Content
  <2> SUFFICES ASSUME Init PROVE Straight
    BY DEF Content
  <2>1. results = {} /\ checkpoint = {} /\ queue = <<>> /\ actor.status # "alive" /\ handler.at # "persist"
    BY DEF Init, NoActor, Idle
  <2> QED BY <2>1 DEF Straight, RightStore, RightActor, RightWork, Requests
<1>2. Base /\ Content /\ [Next]_vars => Content'
  <2> SUFFICES ASSUME Base, Content, [Next]_vars, Clean' PROVE Straight' \/ Strange'
    BY DEF Content
  <2>1. Clean /\ ~Fault("mid_job")
    BY Noted, Remains DEF Clean, Base, FaultKind, CountedKind
  <2>2. \A t : ~Breaks(t)
    BY <2>1 DEF Breaks
  <2> QED BY <2>1, <2>2, StraightStep, StrangeStep DEF Content
<1> QED BY Invariance, <1>1, <1>2, PTL DEF Spec

LEMMA PublishedRight == Base /\ Content /\ Clean => \A r \in published : Right(r.tracks)
BY DEF Base, OrderInv, Content, Straight, RightStore, Strange, LateStore

(* YoloWorldTracker: over retries, restarts from the checkpoint, repeated  *)
(* publications and chunks that come out of turn, the tracks published of  *)
(* a frame come from the frames of its scene, each fed once and in order,  *)
(* unless a job failed midway.                                             *)
THEOREM ScenesContinue == Spec => []ContinuousScenes
<1>1. Base /\ Content => ContinuousScenes
  BY PublishedRight DEF Right, ContinuousScenes, Clean
<1> QED BY Invariance, Contents, <1>1, PTL

(* Without a job that failed midway, no frame of a scene was fed twice for *)
(* what is published: the run that finds FedOnce violated needs that fault.*)
THEOREM FedOnceUnlessMidway ==
  Spec => [](Clean => \A r \in published : \A i \in DOMAIN r.tracks : IsInjective(r.tracks[i].fed))
<1> DEFINE Once == Clean => \A r \in published : \A i \in DOMAIN r.tracks : IsInjective(r.tracks[i].fed)
<1>1. Base /\ Content => Once
  <2> SUFFICES ASSUME Base, Content, Clean, NEW r \in published, NEW i \in DOMAIN r.tracks
               PROVE  IsInjective(r.tracks[i].fed)
    OBVIOUS
  <2> DEFINE f == r.tracks[i].frame
             s == SceneStart(f)
  <2>1. f \in Nat /\ r.tracks[i].fed = SceneUpTo(f) /\ Cuts
    BY PublishedRight DEF Right, Base
  <2> HIDE DEF f
  <2>2. s \in Nat /\ f - s + 1 \in Int
    BY <2>1, SceneOf
  <2>3. SceneUpTo(f) = [j \in 1..(f - s + 1) |-> s + j - 1]
    BY DEF SceneUpTo
  <2> HIDE DEF s
  <2>4. IsInjective(SceneUpTo(f))
    BY <2>2, <2>3 DEF IsInjective
  <2> QED BY <2>1, <2>4
<1> QED BY Invariance, Contents, <1>1, PTL
-----------------------------------------------------------------------------
(* The actor remembers few responses: an eviction drops at least one.      *)
LEMMA MemoryKept ==
  ASSUME NEW cache, IsFiniteSet(cache), NEW r, \A q \in cache \cup {r} : q.chunk \in Nat
  PROVE  /\ IsFiniteSet(Kept(cache \cup {r}))
         /\ \/ Cardinality(Kept(cache \cup {r})) <= ActorCache
            \/ Cardinality(Kept(cache \cup {r})) <= Cardinality(cache)
<1> DEFINE S == cache \cup {r}
<1>1. IsFiniteSet(S) /\ Cardinality(S) \in Nat /\ Cardinality(cache) \in Nat
      /\ Cardinality(S) <= Cardinality(cache) + 1
  BY FS_AddElement, FS_CardinalityType
<1>2. PICK q \in S : \A p \in S : q.chunk <= p.chunk
  <2> DEFINE C == {p.chunk : p \in S}
  <2>1. C \subseteq Nat /\ C # {}
    OBVIOUS
  <2>2. PICK x \in C : \A y \in C : x <= y
    <3> HIDE DEF C
    <3> QED BY <2>1, HasLeast
  <2> QED BY <2>2
<1>3. \A p \in S : p.chunk \in Nat
  OBVIOUS
<1> HIDE DEF S
<1>4. CASE Cardinality(S) <= ActorCache
  BY <1>1, <1>4 DEF Kept, S
<1>5. CASE ~(Cardinality(S) <= ActorCache)
  <2>1. Kept(S) \subseteq S \ {q}
    BY <1>2, <1>3, <1>5 DEF Kept
  <2>2. IsFiniteSet(S \ {q}) /\ Cardinality(S \ {q}) = Cardinality(S) - 1
    BY <1>1, <1>2, FS_RemoveElement
  <2>3. IsFiniteSet(Kept(S)) /\ Cardinality(Kept(S)) <= Cardinality(S \ {q})
    BY <2>1, <2>2, FS_Subset
  <2>4. Cardinality(Kept(S)) \in Nat
    BY <2>3, FS_CardinalityType
  <2> QED BY <1>1, <2>2, <2>3, <2>4 DEF S
<1> QED BY <1>4, <1>5

(* The number of faults of a kind.                                         *)
LEMMA CountGrows ==
  ASSUME faults \in Seq(FaultKind), NEW kind \in FaultKind,
         faults' = faults \/ \E f \in FaultKind : Fault(f)
  PROVE  /\ Count(kind) \in Nat /\ Count(kind)' \in Nat /\ Count(kind) <= Count(kind)'
         /\ Fault(kind) => Count(kind)' = Count(kind) + 1
<1> DEFINE S == {i \in DOMAIN faults : faults[i] = kind}
           T == {i \in DOMAIN faults' : faults'[i] = kind}
<1>1. DOMAIN faults = 1..Len(faults) /\ Len(faults) \in Nat
  OBVIOUS
<1>2. Count(kind) = Cardinality(S) /\ Count(kind)' = Cardinality(T)
  BY DEF Count
<1>3. IsFiniteSet(S) /\ Cardinality(S) \in Nat
  <2>1. IsFiniteSet(1..Len(faults))
    BY <1>1, FS_Interval
  <2> QED BY <1>1, <2>1, FS_Subset, FS_CardinalityType
<1>4. CASE faults' = faults /\ ~Fault(kind)
  <2>1. T = S
    BY <1>4
  <2> HIDE DEF S, T
  <2> QED BY <1>2, <1>3, <1>4, <2>1
<1>5. ASSUME NEW f, Fault(f), f \in FaultKind
      PROVE  Count(kind)' = IF f = kind THEN Count(kind) + 1 ELSE Count(kind)
  <2>1. /\ DOMAIN faults' = 1..(Len(faults) + 1)
        /\ \A i \in 1..Len(faults) : faults'[i] = faults[i]
        /\ faults'[Len(faults) + 1] = f
    BY <1>5 DEF Fault
  <2>2. f # kind => T = S
    BY <1>1, <2>1
  <2>3. f = kind => T = S \cup {Len(faults) + 1}
    BY <1>1, <2>1
  <2>4. Len(faults) + 1 \notin S
    BY <1>1
  <2> HIDE DEF S, T
  <2> QED BY <1>2, <1>3, <2>2, <2>3, <2>4, FS_AddElement
<1> HIDE DEF S, T
<1>6. CASE \E f \in FaultKind : Fault(f)
  <2>1. PICK f \in FaultKind : Fault(f)
    BY <1>6
  <2>2. Fault(kind) => Count(kind)' = Count(kind) + 1
    BY <1>5
  <2>3. Count(kind)' = Count(kind) + 1 \/ Count(kind)' = Count(kind)
    BY <1>5, <2>1
  <2> QED BY <1>2, <1>3, <2>2, <2>3
<1> QED BY <1>2, <1>3, <1>4, <1>6

(* How much is held.                                                       *)
Bounded(cache, exports) == IsFiniteSet(cache) /\ Cardinality(cache) <= ActorCache + exports

MemoryInv ==
  /\ \A t, u \in checkpoint : t = u
  /\ actor.status \in {"none", "alive", "dead"}
  /\ actor.status = "alive" => Bounded(actor.cache, Count("export"))

(* How the memory of the actor changes while it serves a call.             *)
LEMMA CacheStep ==
  ASSUME Base, Serves
  PROVE  /\ actor.status = "alive" /\ actor'.status = "alive"
         /\ \/ actor'.cache = actor.cache
            \/ \E r \in actor.cache : \E q : actor'.cache = (actor.cache \ {r}) \cup {q}
            \/ \E r : /\ \A q \in actor.cache \cup {r} : q.chunk \in Nat
                      /\ \/ actor'.cache = Kept(actor.cache \cup {r})
                         \/ actor'.cache = actor.cache \cup {r} /\ Fault("export")
<1>1. actor.status = "alive" /\ Call.chunk \in Chunk
  BY Served, ServedTracker
<1>2. ASSUME NEW r, NEW state, Answers(r, state)
      PROVE  /\ actor'.status = "alive" /\ r \in actor.cache
             /\ \E q : actor'.cache = (actor.cache \ {r}) \cup {q}
  BY <1>2 DEF Answers, ActorIs, Remembered
<1>3. Restores \/ (\E t : Breaks(t)) => actor'.status = "alive" /\ actor'.cache = actor.cache
  BY DEF Restores, Breaks, ActorIs
<1>4. ASSUME NEW state, NEW cache, Feeds(state, cache)
      PROVE  /\ actor'.status = "alive"
             /\ \E r : /\ \A q \in actor.cache \cup {r} : q.chunk \in Nat
                       /\ \/ actor'.cache = Kept(actor.cache \cup {r})
                          \/ actor'.cache = actor.cache \cup {r} /\ Fault("export")
  <2>1. PICK r : r = Response(Call.chunk, JobTracks, state)
    OBVIOUS
  <2>2. r.chunk = Call.chunk
    BY <2>1 DEF Response
  <2>3. \A q \in actor.cache : q.chunk \in Chunk
    BY <1>1 DEF Base, ActorInv, Answer
  <2>4. \A q \in actor.cache \cup {r} : q.chunk \in Nat
    BY <1>1, <2>2, <2>3, TotalNat DEF Chunk
  <2>5. /\ actor'.status = "alive"
        /\ \/ actor'.cache = Kept(actor.cache \cup {r})
           \/ actor'.cache = actor.cache \cup {r} /\ Fault("export")
    BY <1>4, <2>1 DEF Feeds, ActorIs
  <2> QED BY <2>4, <2>5
<1> QED BY <1>1, <1>2, <1>3, <1>4, Served

LEMMA MemoryStep ==
  ASSUME Base, MemoryInv, [Next]_vars
  PROVE  MemoryInv'
<1> USE DEF video, stored
<1>1. ActorCache \in Nat \ {0}
  BY TrackingAssumption
<1>2. /\ Count("export") \in Nat /\ Count("export")' \in Nat /\ Count("export") <= Count("export")'
      /\ Fault("export") => Count("export")' = Count("export") + 1
  <2>1. "export" \in FaultKind
    BY DEF FaultKind, CountedKind
  <2> QED BY <2>1, Noted, CountGrows DEF Base
(* The actor is left alone, goes, comes, or serves a call.                 *)
<1>3. \/ actor' = actor
      \/ actor' \in {NoActor, DeadActor}
      \/ actor' \in {NewActor(0), NewActor(1)}
      \/ Serves
  <2>1. CASE Aside
    BY <2>1, AsideStep
  <2>2. CASE \/ UNCHANGED vars \/ Persist \/ Publish \/ Release \/ DeleteState \/ Ack
             \/ \E c \in Chunk : StartCached(c) \/ StartWithoutClasses(c)
    BY <2>2 DEF vars, Persist, Publish, Release, DeleteState, Ack, StartCached, StartWithoutClasses
  <2>3. CASE ActorDies \/ \E c \in Chunk : StartInference(c)
    BY <2>3 DEF ActorDies, StartInference
  <2> QED BY <2>1, <2>2, <2>3, Steps
<1>4. \A t, u \in checkpoint' : t = u
  <2>1. checkpoint' = checkpoint \/ checkpoint' = {} \/ checkpoint' = {handler.checkpoint}
    <3>1. CASE Aside \/ Serves
      BY <3>1, AsideStep, Served
    <3>2. CASE \/ UNCHANGED vars \/ ActorDies \/ Publish \/ Release \/ Ack
               \/ \E c \in Chunk : StartCached(c) \/ StartWithoutClasses(c) \/ StartInference(c)
      BY <3>2 DEF vars, ActorDies, Publish, Release, Ack, StartCached, StartWithoutClasses, StartInference
    <3>3. CASE Persist \/ DeleteState
      BY <3>3 DEF Persist, DeleteState
    <3> QED BY <3>1, <3>2, <3>3, Steps
  <2> QED BY <2>1 DEF MemoryInv
<1>5. CASE actor' = actor
  <2>1. ASSUME actor.status = "alive" PROVE Bounded(actor.cache, Count("export"))'
    <3>1. Bounded(actor.cache, Count("export"))
      BY <2>1 DEF MemoryInv
    <3>2. Cardinality(actor.cache) \in Nat
      BY <3>1, FS_CardinalityType DEF Bounded
    <3> QED BY <1>1, <1>2, <1>5, <3>1, <3>2 DEF Bounded
  <2> QED BY <1>4, <1>5, <2>1 DEF MemoryInv
<1>6. CASE actor' \in {NoActor, DeadActor}
  <2>1. actor'.status \in {"none", "dead"}
    BY <1>6 DEF NoActor, DeadActor
  <2> QED BY <1>4, <2>1 DEF MemoryInv
<1>7. CASE actor' \in {NewActor(0), NewActor(1)}
  <2>1. actor'.status = "alive" /\ actor'.cache = {}
    BY <1>7 DEF NewActor, Actor
  <2>2. Bounded(actor.cache, Count("export"))'
    BY <1>1, <1>2, <2>1, FS_EmptySet DEF Bounded
  <2> QED BY <1>4, <2>1, <2>2 DEF MemoryInv
<1>8. CASE Serves
  <2>1. /\ actor.status = "alive" /\ actor'.status = "alive"
        /\ \/ actor'.cache = actor.cache
           \/ \E r \in actor.cache : \E q : actor'.cache = (actor.cache \ {r}) \cup {q}
           \/ \E r : /\ \A q \in actor.cache \cup {r} : q.chunk \in Nat
                     /\ \/ actor'.cache = Kept(actor.cache \cup {r})
                        \/ actor'.cache = actor.cache \cup {r} /\ Fault("export")
    BY <1>8, CacheStep
  <2>2. IsFiniteSet(actor.cache) /\ Cardinality(actor.cache) <= ActorCache + Count("export")
    BY <2>1 DEF MemoryInv, Bounded
  <2>3. Cardinality(actor.cache) \in Nat
    BY <2>2, FS_CardinalityType
  <2>4. SUFFICES /\ IsFiniteSet(actor'.cache)
                 /\ \/ Cardinality(actor'.cache) <= ActorCache
                    \/ Cardinality(actor'.cache) <= Cardinality(actor.cache)
                    \/ Cardinality(actor'.cache) <= Cardinality(actor.cache) + 1 /\ Fault("export")
    <3>1. Cardinality(actor'.cache) \in Nat
      BY <2>4, FS_CardinalityType
    <3>2. Bounded(actor.cache, Count("export"))'
      BY <1>1, <1>2, <2>2, <2>3, <2>4, <3>1 DEF Bounded
    <3> QED BY <1>4, <2>1, <3>2 DEF MemoryInv
  <2>5. CASE actor'.cache = actor.cache
    BY <2>2, <2>3, <2>5
  <2>6. ASSUME NEW r \in actor.cache, NEW q, actor'.cache = (actor.cache \ {r}) \cup {q}
        PROVE  IsFiniteSet(actor'.cache) /\ Cardinality(actor'.cache) <= Cardinality(actor.cache)
    <3>1. PICK S : S = actor.cache \ {r}
      OBVIOUS
    <3>2. IsFiniteSet(S) /\ Cardinality(S) = Cardinality(actor.cache) - 1
      BY <2>2, <3>1, FS_RemoveElement
    <3>3. /\ IsFiniteSet(S \cup {q})
          /\ Cardinality(S \cup {q}) = Cardinality(S) \/ Cardinality(S \cup {q}) = Cardinality(S) + 1
      BY <3>2, FS_AddElement
    <3> QED BY <2>3, <2>6, <3>1, <3>2, <3>3
  <2>7. ASSUME NEW r, \A q \in actor.cache \cup {r} : q.chunk \in Nat,
               actor'.cache = Kept(actor.cache \cup {r})
        PROVE  /\ IsFiniteSet(actor'.cache)
               /\ \/ Cardinality(actor'.cache) <= ActorCache
                  \/ Cardinality(actor'.cache) <= Cardinality(actor.cache)
    BY <2>2, <2>7, MemoryKept
  <2>8. ASSUME NEW r, actor'.cache = actor.cache \cup {r}
        PROVE  IsFiniteSet(actor'.cache) /\ Cardinality(actor'.cache) <= Cardinality(actor.cache) + 1
    <3>1. /\ IsFiniteSet(actor.cache \cup {r})
          /\ \/ Cardinality(actor.cache \cup {r}) = Cardinality(actor.cache)
             \/ Cardinality(actor.cache \cup {r}) = Cardinality(actor.cache) + 1
      BY <2>2, FS_AddElement
    <3> QED BY <2>3, <2>8, <3>1
  <2> QED BY <2>1, <2>5, <2>6, <2>7, <2>8
<1> QED BY <1>3, <1>5, <1>6, <1>7, <1>8

(* TrackingInferenceActor._responses: with the type of the state, that the *)
(* actor remembers no more responses than it should and one for each       *)
(* export that failed, however many chunks are retried.                    *)
THEOREM TypeCorrect == Spec => []TypeOK
<1>1. Init => MemoryInv
  BY DEF Init, MemoryInv, NoActor
<1>2. Base /\ MemoryInv /\ [Next]_vars => MemoryInv'
  BY MemoryStep
<1>3. Base /\ MemoryInv => TypeOK
  <2> SUFFICES ASSUME Base, MemoryInv PROVE TypeOK
    OBVIOUS
  <2>1. Cardinality(checkpoint) <= 1
    <3>1. CASE checkpoint = {}
      BY <3>1, FS_EmptySet
    <3>2. CASE checkpoint # {}
      <4>1. PICK t \in checkpoint : TRUE
        BY <3>2
      <4>2. checkpoint = {t}
        BY <4>1 DEF MemoryInv
      <4> QED BY <4>2, FS_Singleton
    <3> QED BY <3>1, <3>2
  <2>2. handler.at \in {"idle", "infer", "persist", "publish", "release", "delete", "ack"}
    BY DEF Base, WorkInv, Busy, Idle
  <2> QED BY <2>1, <2>2 DEF Base, OrderInv, MemoryInv, Bounded, TypeOK
<1> QED BY Invariance, <1>1, <1>2, <1>3, PTL DEF Spec
=============================================================================
