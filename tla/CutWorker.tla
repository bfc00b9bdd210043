----------------------------- MODULE CutWorker ------------------------------
(***************************************************************************)
(* The AutoShot cut worker (participant_4_cut_detection/worker.py) for one *)
(* video.  Each chunk is inferred by itself; what continues from chunk to  *)
(* chunk - the scene number and the start of a gradual transition that is  *)
(* still open at the end of the chunk - is kept in a Redis hash, written   *)
(* in one transaction with the cached result of the chunk.                 *)
(*                                                                         *)
(* A video is a set of transitions, and the detector reports what its      *)
(* decoding rule (autoshot_detector.py, detect_transitions) makes of the   *)
(* part of a transition that lies in the chunk's context.  A gradual       *)
(* transition has a peak of the boundary head, and is confirmed when the   *)
(* peak is near the middle of the part that is seen; else the peak is      *)
(* reported as a hard cut, if it is strong.  The confidences are left out. *)
(*                                                                         *)
(* Chunks come as ConsumerGroup delivers them: in order, except that after *)
(* a stop or a lost reply later ones may come first.  A chunk whose turn   *)
(* it is not is refused, and given up when it was refused MaxAttempts      *)
(* times.                                                                  *)
(***************************************************************************)
EXTENDS ConsumerGroup, Chunking, ResultAggregation

CONSTANTS
  Layouts,         (* layouts to consider                                  *)
  GradualMin,      (* cut_model_gradual_min_frames                         *)
  GradualMax,      (* bound: frames of a gradual transition                *)
  MaxTransitions   (* bound: transitions of a video                        *)

ASSUME LayoutsAssumption ==
  Layouts \subseteq {l \in [frames : Nat \ {0}, size : Nat \ {0}, overlap : Nat] :
                       l.overlap < l.size}
ASSUME DetectorAssumption == /\ GradualMin \in Nat \ {0, 1} /\ GradualMax \in Nat
                             /\ MaxTransitions \in Nat

VARIABLES
  layout, video,   (* fixed by the initial state                           *)
  state,           (* cv:ml:cut-state, a set of at most one record         *)
  cache,           (* cv:ml:cut-result: results by chunk                   *)
  cut_results,     (* the stream                                           *)
  recorded,        (* results that the coordinator has stored              *)
  handler          (* the handler's local variables                        *)

videoVars == <<layout, video>>
resultVars == <<cache, cut_results, recorded>>
vars == <<videoVars, state, resultVars, handler, groupVars, faults>>

Chunks == 0..(TotalChunks(layout) - 1)

-----------------------------------------------------------------------------
(* Transitions.  A hard cut is the last frame of its scene.                *)
HardCut(f)     == [kind |-> "hard", start |-> f, end |-> f]
Gradual(s, e)  == [kind |-> "gradual", start |-> s, end |-> e]

(* |peak - middle| <= max(1, 0.4 (end - start)), doubled.                  *)
NearMiddle(s, e, peak) ==
  LET twice == 2 * (peak - s) - (e - s)
  IN  10 * (IF twice < 0 THEN -twice ELSE twice) <= Max({20, 8 * (e - s)})

(* What can happen in a video: a cut, or a gradual transition with a peak  *)
(* that confirms it.                                                       *)
HardEvent(f) == [kind |-> "hard", start |-> f, end |-> f, peak |-> f, strong |-> TRUE]

GradualEvents(s, e) ==
  [kind : {"gradual"}, start : {s}, end : {e},
   peak : {p \in s..e : NearMiddle(s, e, p)}, strong : BOOLEAN]

Events(frames) ==
  {HardEvent(f) : f \in 0..(frames - 1)}
  \cup UNION {GradualEvents(s, s + n - 1) : s \in 0..(frames - GradualMin),
                                           n \in GradualMin..GradualMax}

EventsWithin(frames) == {v \in Events(frames) : v.end < frames}

(* Some of them: runs of the many-hot head are apart by a frame or more.   *)
Apart(s) == \A i, j \in DOMAIN s : i < j => s[i].end + 1 < s[j].start

Videos(frames) ==
  LET Rows == UNION {[1..k -> EventsWithin(frames)] : k \in 0..MaxTransitions}
  IN  {ToSet(s) : s \in {q \in Rows : Apart(q)}}

(* detect_transitions on the context of a chunk.                           *)
Detection(v, from, to) ==
  LET s == Max({v.start, from})
      e == Min({v.end, to})
  IN  IF s > e
      THEN {}
      ELSE IF /\ v.kind = "gradual"
              /\ e - s + 1 >= GradualMin
              /\ v.peak \in s..e
              /\ NearMiddle(s, e, v.peak)
           THEN {Gradual(s, e)}
           ELSE {HardCut(p) : p \in {v.peak} \cap (IF v.strong THEN s..e ELSE {})}

Detections(c) ==
  UNION {Detection(v, ContextStart(layout, c), ContextEnd(layout, c)) : v \in video}

-----------------------------------------------------------------------------
(* _deduplicate_owned_transitions.  pending is the set of the start of the *)
(* transition that was open at the end of the chunk before.                *)
Graduals(S) == {t \in S : t.kind = "gradual"}

OpenAtEnd(t, c) == t.end = ContextEnd(layout, c) /\ ~IsLast(layout, c)

(* The pending transition, with its continuation in this chunk if any.     *)
Boundary(c) == ValidStart(layout, c) - 1

Continuation(c, seen) ==
  {t \in Graduals(seen) : t.start <= Boundary(c) /\ Boundary(c) <= t.end}

MutantForgetStart(c, seen, pending) == Continuation(c, seen)

Resumed(c, seen, pending) ==
  IF pending = {}
  THEN {}
  ELSE IF Continuation(c, seen) = {}
       THEN {Gradual(Min(pending), Boundary(c))}
       ELSE {Gradual(Min({Min(pending), t.start}), t.end) :
               t \in Continuation(c, seen)}

(* The other gradual transitions that do not lie before the chunk.         *)
Others(c, seen, pending) ==
  {t \in Graduals(seen) : /\ t.end >= ValidStart(layout, c)
                          /\ pending # {} => t \notin Continuation(c, seen)}

NextPending(c, seen, pending) ==
  LET open == {t \in Resumed(c, seen, pending) \cup Others(c, seen, pending) :
                 OpenAtEnd(t, c)}
  IN  IF open = {} THEN {} ELSE {Min({t.start : t \in open})}

(* A hard cut belongs to the chunk that has it in its valid range, unless  *)
(* it is part of a gradual transition of this chunk.                       *)
InValidRange(c, f) == ValidStart(layout, c) <= f /\ f <= ValidEnd(layout, c)

Owned(c, seen, pending) ==
  LET graduals == {t \in Resumed(c, seen, pending) \cup Others(c, seen, pending) :
                     ~OpenAtEnd(t, c)}
  IN  graduals \cup
      {t \in seen : /\ t.kind = "hard"
                    /\ InValidRange(c, t.end)
                    /\ \A g \in graduals : t.end \notin g.start..g.end}

(* build_cut_result.  A scene ends with each owned transition, unless that *)
(* ended with the chunk before; the rest of the chunk is one more scene.   *)
Before(t, u) == t.end < u.end \/ (t.end = u.end /\ t.start < u.start)

SceneAfter(c, earlier, last, st) ==
  [nr    |-> st.scene + Cardinality(earlier),
   start |-> Max({ValidStart(layout, c)} \cup {t.end + 1 : t \in earlier}),
   end   |-> last]

Scenes(c, owned, st) ==
  {s \in {SceneAfter(c, {u \in owned : Before(u, t)}, t.end, st) : t \in owned}
          \cup {SceneAfter(c, owned, ValidEnd(layout, c), st)} :
     s.start <= s.end}

Result(c, owned, st) ==
  [chunk |-> c, transitions |-> owned, scenes |-> Scenes(c, owned, st)]

MutantStateScene(owned, st) == st.scene

NextScene(owned, st) == st.scene + Cardinality(owned)

NextState(c, seen, owned, st) ==
  [next    |-> c + 1,
   scene   |-> NextScene(owned, st),
   pending |-> NextPending(c, seen, st.pending)]

-----------------------------------------------------------------------------
Idle == [at |-> "idle"]

Init ==
  /\ layout \in Layouts
  /\ video \in Videos(layout.frames)
  /\ state = {} /\ cache = {} /\ cut_results = {} /\ recorded = {}
  /\ handler = Idle
  /\ GroupInit(Chunks)

(* An error that the runtime counts, a Redis error that it does not count, *)
(* a stop of the process, a lost reply to a poll, a lost hash.             *)
FaultKind == {"handler", "transient", "worker_stops", "reply_lost", "state_lost"}

Cached(c) == {r \in cache : r.chunk = c}

(* _load_state: the hash, else the start, else the state that the record   *)
(* of the chunk before gives; it knows of no open transition.              *)
MutantRebuilt(r) == [next    |-> r.chunk + 1,
                     scene   |-> Min({s.nr : s \in r.scenes}),
                     pending |-> {}]

Rebuilt(r) == [next    |-> r.chunk + 1,
               scene   |-> Min({s.nr : s \in r.scenes}) + Cardinality(r.transitions),
               pending |-> {}]

Loaded(c) ==
  IF state # {} THEN state
  ELSE IF c = 0 THEN {[next |-> 0, scene |-> 0, pending |-> {}]}
  ELSE {Rebuilt(r) : r \in {q \in recorded : q.chunk = c - 1}}

(* A cached result is published again; else the chunk goes to the model.   *)
MutantRecompute(c) ==
  /\ handler = Idle /\ Handles(c)
  /\ handler' \in {[at |-> "infer", chunk |-> c, state |-> s] :
                    s \in {t \in Loaded(c) : c <= t.next}}
  /\ UNCHANGED <<videoVars, state, resultVars, groupVars, faults>>

Start(c) ==
  /\ handler = Idle /\ Handles(c)
  /\ handler' \in IF Cached(c) # {}
                  THEN {[at |-> "publish", result |-> r] : r \in Cached(c)}
                  ELSE {[at |-> "infer", chunk |-> c, state |-> s] :
                          s \in {t \in Loaded(c) : t.next = c}}
  /\ UNCHANGED <<videoVars, state, resultVars, groupVars, faults>>

(* _load_state finds no result to rebuild the state from, or               *)
(* build_cut_result sees that the state is for another chunk.              *)
Refuse(c) ==
  /\ handler = Idle /\ Handles(c)
  /\ Cached(c) = {} /\ \A s \in Loaded(c) : s.next # c
  /\ Raises
  /\ UNCHANGED <<videoVars, state, resultVars, handler, faults>>

(* The model answers; _persist_result writes result and state together.    *)
Answer(c, st) ==
  LET seen == Detections(c)
  IN  [seen |-> seen, owned |-> Owned(c, seen, st.pending)]

MutantPublishFirst ==
  /\ handler.at = "infer"
  /\ \E a \in {Answer(handler.chunk, handler.state)} :
       /\ state' = {NextState(handler.chunk, a.seen, a.owned, handler.state)}
       /\ handler' = [at |-> "publish",
                      result |-> Result(handler.chunk, a.owned, handler.state)]
  /\ UNCHANGED <<videoVars, resultVars, groupVars, faults>>

Persist ==
  /\ handler.at = "infer"
  /\ \E a \in {Answer(handler.chunk, handler.state)} :
       LET r == Result(handler.chunk, a.owned, handler.state)
       IN  /\ cache' = cache \cup {r}
           /\ state' = {NextState(handler.chunk, a.seen, a.owned, handler.state)}
           /\ handler' = [at |-> "publish", result |-> r]
  /\ UNCHANGED <<videoVars, cut_results, recorded, groupVars, faults>>

(* Published and acknowledged, or published only.                          *)
Publish ==
  /\ handler.at = "publish"
  /\ cut_results' = cut_results \cup {handler.result}
  /\ handler' = Idle
  /\ \/ Acks /\ UNCHANGED faults
     \/ Fault("transient") /\ UNCHANGED groupVars
  /\ UNCHANGED <<videoVars, state, cache, recorded>>

(* The inference fails: an error that is counted.                          *)
HandlerFails ==
  /\ handler.at = "infer"
  /\ Fault("handler")
  /\ Raises
  /\ handler' = Idle
  /\ UNCHANGED <<videoVars, state, resultVars>>

(* An error of Redis: the handler is called again.                         *)
Interrupted ==
  /\ handler # Idle
  /\ Fault("transient")
  /\ handler' = Idle
  /\ UNCHANGED <<videoVars, state, resultVars, groupVars>>

WorkerStops ==
  /\ held # <<>>
  /\ Stops
  /\ handler' = Idle
  /\ UNCHANGED <<videoVars, state, resultVars>>

(* The hash expires or is deleted.                                         *)
StateLost ==
  /\ state # {}
  /\ Fault("state_lost")
  /\ state' = {}
  /\ UNCHANGED <<videoVars, resultVars, handler, groupVars>>

Poll ==
  /\ Polls(TotalChunks(layout)) \/ ReplyLost(TotalChunks(layout))
  /\ UNCHANGED <<videoVars, state, resultVars, handler>>

CoordinatorRecords(r) ==
  /\ r \in cut_results \ recorded
  /\ recorded' = recorded \cup {r}
  /\ UNCHANGED <<videoVars, state, cache, cut_results, handler, groupVars, faults>>

Handle(c) == Start(c) \/ Refuse(c)

Work == Poll \/ (\E c \in Chunks : Handle(c)) \/ Persist \/ Publish

Next == \/ Work \/ HandlerFails \/ Interrupted \/ WorkerStops \/ StateLost
        \/ \E r \in cut_results : CoordinatorRecords(r)

(* The worker and the coordinator are loops; an entry that is not          *)
(* acknowledged is delivered again.                                        *)
Fairness == /\ WF_vars(Work)
            /\ WF_vars(\E r \in cut_results : CoordinatorRecords(r))

Spec == Init /\ [][Next]_vars /\ Fairness

-----------------------------------------------------------------------------
Kept == ~Happened("state_lost")

(* The type of the state; a result passes the validators of                *)
(* CutResultMessage, which would refuse it otherwise: its scenes lie in    *)
(* the valid range, its transitions end there or on the frame before.      *)
TypeOK ==
  /\ \A s \in state : /\ s.next \in 1..TotalChunks(layout) /\ s.scene \in Nat
                      /\ s.pending \subseteq 0..(layout.frames - 1)
  /\ Cardinality(state) <= 1
  /\ recorded \subseteq cut_results /\ cut_results \subseteq cache
  /\ GroupTypeOK(TotalChunks(layout))
  /\ handler.at \in {"idle", "infer", "publish"}
  /\ \A r \in cache :
       /\ \A s \in r.scenes : /\ InValidRange(r.chunk, s.start) /\ s.start <= s.end
                              /\ InValidRange(r.chunk, s.end)
       /\ \A t \in r.transitions :
            \/ InValidRange(r.chunk, t.end)
            \/ t.kind = "gradual" /\ t.end = ValidStart(layout, r.chunk) - 1

(* WORKER_CONTRACTS.md: a retry republishes the same result.  Whatever     *)
(* fails and is delivered again, a chunk has one result for ever.          *)
OneResult == \A r, q \in cut_results \cup cache : r.chunk = q.chunk => r = q

(* Scene identity across chunks, which tracking and the final result rely  *)
(* on: two neighbouring frames are of the same scene, also when a chunk    *)
(* boundary lies between them, exactly if no reported transition ends with *)
(* the first one.                                                          *)
Pieces == UNION {r.scenes : r \in cache}

SceneOf(f) == {p.nr : p \in {q \in Pieces : f \in q.start..q.end}}

ScenesFollowTransitions ==
  Kept =>
    \A f \in 0..(layout.frames - 2) :
      SceneOf(f) # {} /\ SceneOf(f + 1) # {} =>
        (SceneOf(f) = SceneOf(f + 1)
           <=> \A t \in MergedTransitions(cache) : t.end # f)

(* Even a state that is rebuilt from the record of the chunk before never  *)
(* gives a number to two scenes: the pieces of a number have no other      *)
(* scene between them, and numbers grow along the video.                   *)
NumbersGrow ==
  \A p, q \in Pieces : p.end < q.start => p.nr <= q.nr

(* ARCHITECTURE_AND_DECISIONS.md, section 5: the rules prevent missed and  *)
(* duplicate events at a boundary.  A transition that the chunk which owns *)
(* its end sees as a whole is reported once, with its exact frames,        *)
(* although the chunks around it see parts of it.                          *)
Owner(v) == v.end \div layout.size

SeenWhole(v) == v.start >= ContextStart(layout, Owner(v))

(* The results that can name v are those of its owner and of the chunk     *)
(* after, which closes a transition that was open at its start.            *)
Settled(v) == (Owner(v)..(Owner(v) + 1)) \cap Chunks \subseteq {r.chunk : r \in cache}

ReportedOnce ==
  Kept =>
    \A v \in video : SeenWhole(v) /\ Settled(v) =>
      {t \in MergedTransitions(cache) :
         t.kind = v.kind /\ t.start <= v.end /\ v.start <= t.end}
      = {[kind |-> v.kind, start |-> v.start, end |-> v.end]}

(* Section 12: one visual transition cannot split the scene twice.         *)
SplitOnce ==
  \A v \in video :
    Cardinality({t \in MergedTransitions(cache) :
                   t.start <= v.end /\ v.start <= t.end}) <= 1

(* The aggregated result of a finished video: its scenes have no gap and   *)
(* no overlap, from the first frame to the last, also when the hash of the *)
(* scene state was lost on the way.                                        *)
FinalScenesTile ==
  {r.chunk : r \in recorded} = Chunks =>
    LET scenes == MergedScenes(recorded)
    IN  \A f \in 0..(layout.frames - 1) :
          Cardinality({s \in scenes : f \in s.start..s.end}) = 1

(* Every result is published in the end, or the task has been failed; and  *)
(* it is failed only for a reason: the inference failed MaxAttempts times, *)
(* a stop or a lost reply let a later chunk overtake, or the hash was lost *)
(* when the coordinator had not yet stored the result before.              *)
AllRecorded == {r.chunk : r \in recorded} = Chunks

Excused == \/ Count("handler") >= MaxAttempts
           \/ \E kind \in {"worker_stops", "reply_lost", "state_lost"} : Happened(kind)

EveryChunkPublished == <>(AllRecorded \/ (given_up # {} /\ Excused))
=============================================================================
