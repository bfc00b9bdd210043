-------------------------- MODULE FrameStore_proofs --------------------------
(***************************************************************************)
(* Proofs about FrameStore for every set of videos and every limit.        *)
(*                                                                         *)
(* IndInv is inductive for Next.  SlotInv counts the slots of the          *)
(* registry and says which tokens there can be; HandlerInv says what the   *)
(* handler of a video knows at each point, which is what the decisions     *)
(* that it takes on old readings rest on; TokenInv that nobody else can    *)
(* touch the token it holds.  RefInv adds for FaultNext whose frames the   *)
(* registry holds, and LossInv counts the tokens that nobody knows.        *)
(***************************************************************************)
EXTENDS FrameStore, FiniteSetTheorems, TLAPS

(* Every token that is or may come to be in the registry.                  *)
Known == entries \cup reservations \cup asked \cup late

SlotInv ==
  /\ IsFiniteSet(entries) /\ IsFiniteSet(reservations)
  /\ Cardinality(entries \cup reservations) <= MaxGlobal
  /\ \A token \in Known : token.nr <= minted[token.video]
  /\ asked \cap (entries \cup late) = {}

(* seen is what the handler has read of tracked, some time ago.            *)
Handler(v) ==
  /\ local[v].released <= local[v].seen /\ local[v].seen <= tracked[v]
  /\ published[v] - tracked[v] <= MaxPerTask
  /\ complete[v] => published[v] = TotalChunks
  /\ pc[v] \in {"poll", "release"} /\ ~complete[v] => published[v] < TotalChunks
  /\ pc[v] \in {"reserve", "register", "publish"} =>
       /\ ~complete[v]
       /\ published[v] < TotalChunks
       /\ published[v] - local[v].seen < MaxPerTask
  /\ pc[v] = "mark" => published[v] = TotalChunks
  /\ pc[v] = "cleanup" => tracked[v] = TotalChunks \/ stage[v] = "failed"
  /\ pc[v] # "ended" => local[v].tries < PutAttempts
  /\ pc[v] \in Holding => local[v].nr = minted[v] /\ minted[v] # 0
  /\ source[v] = "removed" => tracked[v] = TotalChunks \/ stage[v] = "failed"

HandlerInv == \A v \in Videos : Handler(v)

(* No call that nobody waits for can touch the token in its hands.         *)
Alone(v) ==
  /\ pc[v] \in Holding => Current(v) \notin asked \cup late
  /\ pc[v] = "register" => Current(v) \notin entries

TokenInv == \A v \in Videos : Alone(v)

IndInv == TypeOK /\ SlotInv /\ HandlerInv /\ TokenInv

(* The tokens of published chunks differ from each other and from the one  *)
(* in the handler's hands; the frames of untracked chunks are there.       *)
References(v) ==
  /\ \A c \in 1..published[v] : /\ object_ref[v][c].video = v
                                /\ object_ref[v][c].nr <= minted[v]
                                /\ pc[v] \in Holding => object_ref[v][c].nr < minted[v]
  /\ \A c, d \in 1..published[v] : object_ref[v][c] = object_ref[v][d] => c = d
  /\ ~Happened("registry_restart") =>
       /\ \A c \in (tracked[v] + 1)..published[v] : object_ref[v][c] \in entries
       /\ pc[v] = "publish" => Current(v) \in entries

RefInv == \A v \in Videos : References(v)

(* The tokens of v that the registry holds, or may come to hold, although  *)
(* no record and no handler knows them: one for each loss at most.         *)
Stray(v) == {token \in Known : token.video = v} \ (ToSet(object_ref[v]) \cup InHand(v))

Few(v) == IsFiniteSet(Stray(v)) /\ Cardinality(Stray(v)) <= Losses

LossInv == \A v \in Videos : Few(v)

-----------------------------------------------------------------------------
LEMMA InitInv == Init => IndInv
<1> SUFFICES ASSUME Init PROVE IndInv
  OBVIOUS
<1> USE LimitsAssumption
<1>1. TypeOK
  BY DEF Init, TypeOK, Token, Pc, Locals, Fresh, FaultKind
<1>2. SlotInv
  BY FS_EmptySet DEF Init, SlotInv, Known
<1>3. HandlerInv
  BY DEF Init, HandlerInv, Handler, Fresh, Holding
<1>4. TokenInv
  BY DEF Init, TokenInv, Alone, Holding
<1> QED
  BY <1>1, <1>2, <1>3, <1>4 DEF IndInv

(* One more fault.                                                         *)
LEMMA FaultFacts ==
  ASSUME TypeOK, NEW kind \in FaultKind, Fault(kind)
  PROVE  /\ faults' \in Seq(FaultKind) /\ Len(faults') <= MaxFaults
         /\ ToSet(faults') = ToSet(faults) \cup {kind}
<1>1. faults \in Seq(FaultKind)
  BY DEF TypeOK
<1>2. faults' = Append(faults, kind) /\ Len(faults) < MaxFaults
  BY DEF Fault
<1>3. /\ faults' \in Seq(FaultKind)
      /\ Len(faults') = Len(faults) + 1 /\ Len(faults) \in Nat
      /\ \A i \in 1..Len(faults) : faults'[i] = faults[i]
      /\ faults'[Len(faults) + 1] = kind
  BY <1>1, <1>2
<1>4. DOMAIN faults = 1..Len(faults) /\ DOMAIN faults' = 1..(Len(faults) + 1)
  BY <1>1, <1>3
<1> QED
  BY <1>2, <1>3, <1>4, LimitsAssumption DEF ToSet

(* The local variables keep their type when one of them is set.            *)
LEMMA LocalsUpdate ==
  ASSUME NEW r \in Locals
  PROVE  /\ r.released \in 0..TotalChunks /\ r.seen \in 0..TotalChunks
         /\ r.tries \in 0..PutAttempts /\ r.nr \in Nat
         /\ \A n \in 0..TotalChunks : [r EXCEPT !.released = n] \in Locals
         /\ \A n \in 0..PutAttempts : [r EXCEPT !.tries = n] \in Locals
         /\ \A n \in Nat : [r EXCEPT !.nr = n] \in Locals
  BY DEF Locals

LEMMA LocalsType ==
  ASSUME TypeOK, NEW v \in Videos
  PROVE  /\ local[v] \in Locals
         /\ \A r \in Locals : [local EXCEPT ![v] = r] \in [Videos -> Locals]
  BY DEF TypeOK

(* One failed put.                                                         *)
LEMMA PutFailedType ==
  ASSUME TypeOK, NEW v \in Videos, local[v].tries < PutAttempts, PutFailed(v)
  PROVE  /\ local' \in [Videos -> Locals] /\ pc' \in [Videos -> Pc]
         /\ stage' \in [Videos -> {"active", "completed", "failed"}]
<1>1. [local[v] EXCEPT !.tries = local[v].tries + 1] \in Locals
  BY SMTT(30), LimitsAssumption, LocalsType, LocalsUpdate
<1>2. local' = [local EXCEPT ![v] = [local[v] EXCEPT !.tries = local[v].tries + 1]]
  BY DEF PutFailed
<1>3. local' \in [Videos -> Locals]
  BY <1>1, <1>2, LocalsType
<1> QED
  BY <1>3 DEF TypeOK, PutFailed, Goto, Fail, Pc

(* The token in the handler's hands.                                       *)
LEMMA CurrentType ==
  ASSUME TypeOK, HandlerInv, NEW v \in Videos, pc[v] \in Holding
  PROVE  Current(v) \in Token /\ local[v].nr = minted[v]
  BY DEF TypeOK, HandlerInv, Handler, Current, Token

LEMMA TypeStep == IndInv /\ [Next]_vars => TypeOK'
<1> SUFFICES ASSUME IndInv, [Next]_vars PROVE TypeOK'
  OBVIOUS
<1> USE LimitsAssumption DEF IndInv, registryVars, taskVars, handlerVars
<1>1. ASSUME NEW v \in Videos, Start(v) PROVE TypeOK'
  <2>1. local' \in [Videos -> Locals]
    BY <1>1 DEF Start, TypeOK, Locals, Fresh
  <2> QED
    BY <1>1, <2>1 DEF Start, TypeOK, Goto, NextChunk, Pc
<1>2. ASSUME NEW v \in Videos, Poll(v) PROVE TypeOK'
  <2>1. Ended(v) \in BOOLEAN /\ local[v] \in Locals /\ tracked[v] \in 0..TotalChunks
    BY DEF TypeOK, Ended
  <2>2. [local[v] EXCEPT !.seen = tracked[v], !.ended = Ended(v)] \in Locals
    BY <2>1 DEF Locals
  <2>3. local' = [local EXCEPT ![v] = [local[v] EXCEPT !.seen = tracked[v], !.ended = Ended(v)]]
    BY <1>2 DEF Poll, TypeOK
  <2>4. local' \in [Videos -> Locals]
    BY <2>2, <2>3 DEF TypeOK
  <2> QED
    BY <1>2, <2>4 DEF Poll, TypeOK, Goto, Pc
<1>3. ASSUME NEW v \in Videos, ReleaseNext(v) PROVE TypeOK'
  <2>1. local' \in [Videos -> Locals]
    <3>1. [local[v] EXCEPT !.released = local[v].released + 1] \in Locals
      BY SMTT(20), <1>3, LocalsType, LocalsUpdate DEF ReleaseNext, ToRelease
    <3>2. local' = [local EXCEPT ![v] = [local[v] EXCEPT !.released = local[v].released + 1]]
      BY <1>3 DEF ReleaseNext
    <3> QED
      BY <3>1, <3>2 DEF TypeOK
  <2> QED
    BY <1>3, <2>1 DEF ReleaseNext, Release, TypeOK
<1>4. ASSUME NEW v \in Videos, FillDecides(v) PROVE TypeOK'
  BY <1>4 DEF FillDecides, TypeOK, Goto, Pc
<1>5. ASSUME NEW v \in Videos, DrainDecides(v) PROVE TypeOK'
  BY <1>5 DEF DrainDecides, TypeOK, Goto, Pc
<1>6. ASSUME NEW v \in Videos, Reserve(v) PROVE TypeOK'
  <2>1. pc[v] = "reserve" /\ local[v].tries < PutAttempts
    BY <1>6 DEF Reserve, HandlerInv, Handler
  <2>2. CASE HasSlot
    <3> DEFINE token == [video |-> v, nr |-> minted[v] + 1]
    <3>1. token \in Token /\ token \notin entries
      BY DEF TypeOK, Token, SlotInv, Known, New
    <3>2. local' \in [Videos -> Locals]
      <4>1. [local[v] EXCEPT !.nr = minted[v] + 1] \in Locals
        <5>1. minted[v] + 1 \in Nat
          BY DEF TypeOK
        <5> QED
          BY <5>1, LocalsType, LocalsUpdate
      <4>2. local' = [local EXCEPT ![v] = [local[v] EXCEPT !.nr = minted[v] + 1]]
        BY <1>6, <2>2 DEF Reserve
      <4> QED
        BY <4>1, <4>2 DEF TypeOK
    <3>3. reservations' = reservations \cup {token}
      BY <1>6, <2>2 DEF Reserve, New
    <3> HIDE DEF token
    <3>4. /\ minted' = [minted EXCEPT ![v] = minted[v] + 1]
          /\ pc' = [pc EXCEPT ![v] = "register"]
          /\ stage' = stage
      BY <1>6, <2>2 DEF Reserve, Goto
    <3>5. minted' \in [Videos -> Nat] /\ pc' \in [Videos -> Pc]
      BY <3>4 DEF TypeOK, Pc
    <3> QED
      BY <1>6, <3>1, <3>2, <3>3, <3>4, <3>5 DEF Reserve, TypeOK
  <2>3. CASE ~HasSlot
    BY <1>6, <2>1, <2>3, PutFailedType DEF Reserve, TypeOK
  <2> QED
    BY <2>2, <2>3
<1>7. ASSUME NEW v \in Videos, Register(v) PROVE TypeOK'
  <2>1. local' \in [Videos -> Locals]
    <3>1. [local[v] EXCEPT !.tries = 0] \in Locals
      BY LocalsType, LocalsUpdate
    <3>2. local' = [local EXCEPT ![v] = [local[v] EXCEPT !.tries = 0]]
      BY <1>7 DEF Register
    <3> QED
      BY <3>1, <3>2, LocalsType
  <2>2. Current(v) \in Token
    BY <1>7, CurrentType DEF Register, Holding
  <2> QED
    BY <1>7, <2>1, <2>2 DEF Register, TypeOK, Goto, Pc
<1>8. ASSUME NEW v \in Videos, Publish(v) PROVE TypeOK'
  <2>1. Current(v) \in Token /\ published[v] < TotalChunks
    BY <1>8, CurrentType DEF Publish, Holding, HandlerInv, Handler
  <2> QED
    BY <1>8, <2>1 DEF Publish, Record, NextChunk, TypeOK, Goto, Pc
<1>9. ASSUME NEW v \in Videos, GiveBack(v) PROVE TypeOK'
  BY <1>9 DEF GiveBack, Release, TypeOK, Goto, Pc
<1>10. ASSUME NEW v \in Videos, Mark(v) PROVE TypeOK'
  BY <1>10 DEF Mark, TypeOK, Goto, Pc
<1>11. ASSUME NEW v \in Videos, Cleanup(v) PROVE TypeOK'
  BY <1>11 DEF Cleanup, TypeOK, Goto, Pc
<1>12. ASSUME NEW v \in Videos, Downstream(v) PROVE TypeOK'
  <2>1. CASE Track(v)
    BY <2>1 DEF Track, TypeOK
  <2>2. CASE TrackFails(v)
    BY <2>2 DEF TrackFails, Fail, TypeOK
  <2>3. CASE Aggregate(v)
    BY <2>3 DEF Aggregate, TypeOK
  <2> QED
    BY <1>12, <2>1, <2>2, <2>3 DEF Downstream
<1>13. ASSUME NEW v \in Videos, TaskFails(v) PROVE TypeOK'
  BY <1>13, FaultFacts DEF TaskFails, Fail, TypeOK, FaultKind
<1>14. ASSUME NEW v \in Videos, Stall(v) PROVE TypeOK'
  BY <1>14, FaultFacts DEF Stall, Fail, TypeOK, FaultKind, Goto, Pc
<1>15. ASSUME NEW v \in Videos, PutRejected(v) \/ CancelFails(v) PROVE TypeOK'
  BY <1>15, FaultFacts, PutFailedType
  DEF PutRejected, CancelFails, TypeOK, FaultKind, HandlerInv, Handler
<1>16. ASSUME NEW v \in Videos, PutTimesOut(v) PROVE TypeOK'
  <2>1. Current(v) \in Token /\ local[v].tries < PutAttempts
    BY <1>16, CurrentType DEF PutTimesOut, Holding, HandlerInv, Handler
  <2>2. faults' \in Seq(FaultKind) /\ Len(faults') <= MaxFaults
    BY <1>16, FaultFacts DEF PutTimesOut, FaultKind
  <2> QED
    BY <1>16, <2>1, <2>2, PutFailedType DEF PutTimesOut, TypeOK
<1>17. ASSUME NEW token \in late, LateRegister(token) PROVE TypeOK'
  <2>1. token \in Token
    BY DEF TypeOK
  <2> QED
    BY <1>17, <2>1 DEF LateRegister, TypeOK
<1>18. ASSUME NEW v \in Videos, PublishFails(v) PROVE TypeOK'
  BY <1>18, FaultFacts DEF PublishFails, TypeOK, FaultKind, Goto, Pc
<1>19. ASSUME NEW v \in Videos, PublishReplyLost(v) PROVE TypeOK'
  <2>1. Current(v) \in Token /\ published[v] < TotalChunks
    BY <1>19, CurrentType DEF PublishReplyLost, Holding, HandlerInv, Handler
  <2>2. faults' \in Seq(FaultKind) /\ Len(faults') <= MaxFaults
    BY <1>19, FaultFacts DEF PublishReplyLost, FaultKind
  <2> QED
    BY <1>19, <2>1, <2>2 DEF PublishReplyLost, Record, TypeOK, Goto, Pc
<1>20. ASSUME Crash PROVE TypeOK'
  <2>1. \A v \in Videos : pc[v] = "register" => Current(v) \in Token
    BY CurrentType DEF Holding
  <2>2. faults' \in Seq(FaultKind) /\ Len(faults') <= MaxFaults
    BY <1>20, FaultFacts DEF Crash, FaultKind
  <2>3. local' \in [Videos -> Locals]
    BY <1>20 DEF Crash, Locals, Fresh
  <2>4. late' \subseteq Token
    BY <1>20, <2>1 DEF Crash, TypeOK
  <2>5. \A v \in Videos : New(v) \in Token
    BY DEF New, Token, TypeOK
  <2>6. asked' \subseteq Token /\ minted' \in [Videos -> Nat]
    BY <1>20, <2>5 DEF Crash, TypeOK
  <2> QED
    BY <1>20, <2>2, <2>3, <2>4, <2>6 DEF Crash, TypeOK, Pc
<1>21. ASSUME RegistryRestarts PROVE TypeOK'
  BY <1>21, FaultFacts DEF RegistryRestarts, TypeOK, FaultKind
<1>22. CASE UNCHANGED vars
  BY <1>22 DEF vars, TypeOK
<1>23. ASSUME NEW v \in Videos, IngestFails(v) PROVE TypeOK'
  <2>1. faults' \in Seq(FaultKind) /\ Len(faults') <= MaxFaults
    BY <1>23, FaultFacts DEF IngestFails, FaultKind
  <2>2. entries' \subseteq entries /\ reservations' \subseteq reservations
    BY <1>23 DEF IngestFails, Release
  <2> QED
    BY <1>23, <2>1, <2>2 DEF IngestFails, Fail, TypeOK, Goto, Pc
<1>24. ASSUME NEW v \in Videos, ReserveLost(v) PROVE TypeOK'
  <2>1. New(v) \in Token /\ local[v].tries < PutAttempts
    BY <1>24 DEF ReserveLost, HandlerInv, Handler, New, TypeOK, Token
  <2>2. faults' \in Seq(FaultKind) /\ Len(faults') <= MaxFaults
    BY <1>24, FaultFacts DEF ReserveLost, FaultKind
  <2>3. minted' \in [Videos -> Nat] /\ asked' \subseteq Token
    BY <1>24, <2>1 DEF ReserveLost, TypeOK
  <2> QED
    BY <1>24, <2>1, <2>2, <2>3, PutFailedType DEF ReserveLost, TypeOK
<1>25. ASSUME NEW token \in asked, LateReserve(token) PROVE TypeOK'
  <2>1. token \in Token /\ token \notin entries
    BY DEF TypeOK, SlotInv
  <2>2. /\ asked' \subseteq asked /\ late' \subseteq late \cup {token}
        /\ reservations' \subseteq reservations \cup {token}
    BY <1>25 DEF LateReserve
  <2> QED
    BY <1>25, <2>1, <2>2 DEF LateReserve, TypeOK
<1>26. ASSUME NEW v \in Videos, RegisterReplyLost(v) PROVE TypeOK'
  <2>1. Current(v) \in Token /\ local[v].tries < PutAttempts
    BY <1>26, CurrentType DEF RegisterReplyLost, Holding, HandlerInv, Handler
  <2>2. faults' \in Seq(FaultKind) /\ Len(faults') <= MaxFaults
    BY <1>26, FaultFacts DEF RegisterReplyLost, FaultKind
  <2> QED
    BY <1>26, <2>1, <2>2, PutFailedType DEF RegisterReplyLost, TypeOK
<1>27. ASSUME NEW v \in Videos, GiveBackFails(v) \/ Interrupted(v) PROVE TypeOK'
  BY <1>27, FaultFacts DEF GiveBackFails, Interrupted, TypeOK, FaultKind, Goto, Pc
<1> QED
  BY <1>1, <1>2, <1>3, <1>4, <1>5, <1>6, <1>7, <1>8, <1>9, <1>10, <1>11, <1>12, <1>13,
     <1>14, <1>15, <1>16, <1>17, <1>18, <1>19, <1>20, <1>21, <1>22, <1>23, <1>24, <1>25,
     <1>26, <1>27
  DEF Next, FaultNext, WorkNext, Ingest, HandlerFault

(* Tokens are not minted twice.                                            *)
LEMMA MintedGrow ==
  ASSUME IndInv, TypeOK', \A v \in Videos : minted[v] <= minted'[v],
         NEW T, \A token \in T : token.nr <= minted'[token.video],
         Known' \subseteq Known \cup T
  PROVE  \A token \in Known' : token.nr <= minted'[token.video]
<1>1. \A token \in Known : token.video \in Videos /\ token.nr \in Nat
                           /\ token.nr <= minted[token.video]
  BY DEF IndInv, TypeOK, Token, SlotInv, Known
<1>2. \A v \in Videos : minted[v] \in Nat /\ minted'[v] \in Nat
  BY DEF IndInv, TypeOK
<1>3. \A token \in Known : token.nr <= minted'[token.video]
  BY <1>1, <1>2
<1> QED
  BY <1>3

(* A step that takes no slot, and one that takes a slot for a token.       *)
LEMMA NoSlotTaken ==
  ASSUME IndInv, TypeOK', \A v \in Videos : minted[v] <= minted'[v],
         entries' \cup reservations' \subseteq entries \cup reservations,
         NEW T, \A token \in T : token.nr <= minted'[token.video],
         asked' \cup late' \subseteq asked \cup late \cup T,
         asked' \cap (entries' \cup late') = {}
  PROVE  SlotInv'
<1>1. IsFiniteSet(entries \cup reservations)
  BY FS_Union DEF IndInv, SlotInv
<1>2. /\ IsFiniteSet(entries') /\ IsFiniteSet(reservations')
      /\ IsFiniteSet(entries' \cup reservations')
      /\ Cardinality(entries' \cup reservations') <= Cardinality(entries \cup reservations)
  BY <1>1, FS_Subset
<1>3. Cardinality(entries' \cup reservations') \in Nat /\ Cardinality(entries \cup reservations) \in Nat
  BY <1>1, <1>2, FS_CardinalityType
<1>4. \A token \in Known' : token.nr <= minted'[token.video]
  <2>1. Known' \subseteq Known \cup T
    BY DEF Known
  <2> QED
    BY <2>1, MintedGrow
<1> QED
  BY <1>2, <1>3, <1>4, LimitsAssumption DEF IndInv, SlotInv

LEMMA SlotTaken ==
  ASSUME IndInv, TypeOK', HasSlot, NEW token,
         \A v \in Videos : minted[v] <= minted'[v],
         entries' \cup reservations' \subseteq (entries \cup reservations) \cup {token},
         asked' \cup late' \subseteq asked \cup late \cup {token},
         token.nr <= minted'[token.video],
         asked' \cap (entries' \cup late') = {}
  PROVE  SlotInv'
<1> DEFINE S == entries \cup reservations
<1>1. IsFiniteSet(S) /\ Cardinality(S) \in Nat /\ Cardinality(S) < MaxGlobal
  BY FS_Union, FS_CardinalityType DEF IndInv, SlotInv, HasSlot, Count
<1> HIDE DEF S
<1>2. /\ IsFiniteSet(S \cup {token})
      /\ Cardinality(S \cup {token}) <= Cardinality(S) + 1
      /\ Cardinality(S \cup {token}) \in Nat
  <2>1. IsFiniteSet(S)
    BY <1>1 DEF S
  <2>2. /\ IsFiniteSet(S \cup {token})
        /\ Cardinality(S \cup {token}) = IF token \in S THEN Cardinality(S)
                                         ELSE Cardinality(S) + 1
    BY <2>1, FS_AddElement
  <2> QED
    BY <1>1, <2>2
<1>3. /\ IsFiniteSet(entries') /\ IsFiniteSet(reservations')
      /\ IsFiniteSet(entries' \cup reservations')
      /\ Cardinality(entries' \cup reservations') <= Cardinality(S \cup {token})
      /\ Cardinality(entries' \cup reservations') \in Nat
  BY <1>2, FS_Subset, FS_CardinalityType DEF S
<1>4. \A t \in Known' : t.nr <= minted'[t.video]
  <2> DEFINE T == {token}
  <2>1. /\ Known' \subseteq Known \cup T
        /\ \A t \in T : t.nr <= minted'[t.video]
    BY DEF Known
  <2> HIDE DEF T
  <2> QED
    BY <2>1, MintedGrow
<1> QED
  BY <1>1, <1>2, <1>3, <1>4, LimitsAssumption DEF SlotInv

LEMMA SlotStep == IndInv /\ [Next]_vars /\ TypeOK' => SlotInv'
<1> SUFFICES ASSUME IndInv, [Next]_vars, TypeOK' PROVE SlotInv'
  OBVIOUS
<1> USE DEF registryVars
<1>0. /\ \A v \in Videos : minted[v] \in Nat
      /\ asked \cap (entries \cup late) = {}
      /\ \A token \in entries \cup reservations \cup asked \cup late :
           token.video \in Videos /\ token.nr \in Nat /\ token.nr <= minted[token.video]
  BY DEF IndInv, TypeOK, SlotInv, Token, Known
<1>1. ASSUME UNCHANGED minted,
             entries' \cup reservations' \subseteq entries \cup reservations,
             entries' \subseteq entries, asked' \subseteq asked, late' \subseteq late
      PROVE  SlotInv'
  <2> DEFINE T == {}
  <2>1. /\ asked' \cup late' \subseteq asked \cup late \cup T
        /\ \A token \in T : token.nr <= minted'[token.video]
        /\ \A v \in Videos : minted[v] <= minted'[v]
        /\ asked' \cap (entries' \cup late') = {}
    BY <1>0, <1>1
  <2> HIDE DEF T
  <2> QED
    BY <1>1, <2>1, NoSlotTaken
<1>2. \A v \in Videos :
        pc[v] \in Holding => /\ Current(v).nr <= minted[Current(v).video]
                             /\ Current(v) \notin asked \cup late
  <2> SUFFICES ASSUME NEW v \in Videos, pc[v] \in Holding
               PROVE  /\ Current(v).nr <= minted[Current(v).video]
                      /\ Current(v) \notin asked \cup late
    OBVIOUS
  <2>1. local[v].nr = minted[v] /\ minted[v] \in Nat
    BY CurrentType DEF IndInv, TypeOK
  <2>2. Current(v) \notin asked \cup late
    BY DEF IndInv, TokenInv, Alone
  <2> QED
    BY <2>1, <2>2 DEF Current
<1>3. ASSUME NEW v \in Videos,
             \/ ReleaseNext(v) \/ GiveBack(v) \/ PutRejected(v) \/ IngestFails(v)
      PROVE  SlotInv'
  BY <1>1, <1>3 DEF ReleaseNext, GiveBack, PutRejected, IngestFails, Release
<1>4. ASSUME NEW v \in Videos, Reserve(v) PROVE SlotInv'
  <2>1. CASE HasSlot
    <3> DEFINE token == New(v)
    <3>1. /\ minted' = [minted EXCEPT ![v] = minted[v] + 1]
          /\ reservations' = reservations \cup {token}
          /\ entries' = entries /\ asked' = asked /\ late' = late
      BY <1>4, <2>1 DEF Reserve
    <3>2. /\ token.nr <= minted'[token.video]
          /\ \A w \in Videos : minted[w] <= minted'[w]
      BY SMTT(30), <3>1 DEF IndInv, TypeOK, New
    <3> HIDE DEF token
    <3> QED
      BY <1>0, <2>1, <3>1, <3>2, SlotTaken
  <2>2. CASE ~HasSlot
    BY <1>1, <1>4, <2>2 DEF Reserve
  <2> QED
    BY <2>1, <2>2
<1>5. ASSUME NEW v \in Videos, Register(v) \/ RegisterReplyLost(v) PROVE SlotInv'
  <2> DEFINE token == Current(v)
  <2>1. /\ entries' \cup reservations' = (entries \cup reservations) \cup {token}
        /\ entries' = entries \cup {token}
        /\ minted' = minted /\ asked' = asked /\ late' = late
        /\ pc[v] \in Holding /\ MayRegister(token)
    BY <1>5 DEF Register, RegisterReplyLost, Holding
  <2>2. asked' \cap (entries' \cup late') = {}
    BY <1>0, <1>2, <2>1
  <2>3. token.nr <= minted'[token.video] /\ \A w \in Videos : minted[w] <= minted'[w]
    BY <1>0, <1>2, <2>1
  <2> HIDE DEF token
  <2>4. CASE token \in reservations
    <3> DEFINE T == {}
    <3>1. /\ asked' \cup late' \subseteq asked \cup late \cup T
          /\ \A t \in T : t.nr <= minted'[t.video]
          /\ entries' \cup reservations' \subseteq entries \cup reservations
      BY <2>1, <2>4
    <3> HIDE DEF T
    <3> QED
      BY <2>2, <2>3, <3>1, NoSlotTaken
  <2>5. CASE HasSlot
    BY <2>1, <2>2, <2>3, <2>5, SlotTaken
  <2> QED
    BY <2>1, <2>4, <2>5 DEF MayRegister
<1>6. ASSUME NEW v \in Videos, ReserveLost(v) PROVE SlotInv'
  <2> DEFINE T == {New(v)}
  <2>1. /\ minted' = [minted EXCEPT ![v] = minted[v] + 1]
        /\ asked' = asked \cup T
        /\ UNCHANGED <<entries, reservations, late>>
    BY <1>6 DEF ReserveLost
  <2>2. /\ \A token \in T : token.nr <= minted'[token.video]
        /\ \A w \in Videos : minted[w] <= minted'[w]
    BY SMTT(30), <2>1 DEF IndInv, TypeOK, New
  <2>3. asked' \cap (entries' \cup late') = {}
    <3>1. New(v) \notin entries \cup late
      BY <1>0 DEF New
    <3> QED
      BY <1>0, <2>1, <3>1
  <2> HIDE DEF T
  <2> QED
    BY <2>1, <2>2, <2>3, NoSlotTaken
<1>7. ASSUME NEW v \in Videos, PutTimesOut(v) PROVE SlotInv'
  <2> DEFINE T == {Current(v)}
  <2>1. /\ late' = late \cup T /\ pc[v] \in Holding
        /\ UNCHANGED <<entries, reservations, minted, asked>>
    BY <1>7 DEF PutTimesOut, Holding
  <2>2. /\ \A token \in T : token.nr <= minted'[token.video]
        /\ \A w \in Videos : minted[w] <= minted'[w]
    BY <1>0, <1>2, <2>1
  <2>3. asked' \cap (entries' \cup late') = {}
    BY <1>0, <1>2, <2>1
  <2> HIDE DEF T
  <2> QED
    BY <2>1, <2>2, <2>3, NoSlotTaken
<1>8. ASSUME NEW token \in late, LateRegister(token) PROVE SlotInv'
  <2>1. minted' = minted /\ late' \subseteq late /\ asked' = asked
    BY <1>8 DEF LateRegister
  <2>2. CASE entries' \cup reservations' \subseteq entries \cup reservations
    <3> DEFINE T == {}
    <3>1. /\ asked' \cup late' \subseteq asked \cup late \cup T
          /\ \A t \in T : t.nr <= minted'[t.video]
          /\ \A w \in Videos : minted[w] <= minted'[w]
      BY <1>0, <2>1
    <3>2. asked' \cap (entries' \cup late') = {}
      BY <1>0, <1>8, <2>1 DEF LateRegister
    <3> HIDE DEF T
    <3> QED
      BY <2>2, <3>1, <3>2, NoSlotTaken
  <2>3. CASE HasSlot
    <3>1. token.nr <= minted'[token.video] /\ \A w \in Videos : minted[w] <= minted'[w]
      BY <1>0, <2>1
    <3>2. entries' \cup reservations' \subseteq (entries \cup reservations) \cup {token}
      BY <1>8 DEF LateRegister
    <3>3. asked' \cap (entries' \cup late') = {}
      BY <1>0, <1>8, <2>1 DEF LateRegister
    <3> QED
      BY <2>1, <2>3, <3>1, <3>2, <3>3, SlotTaken
  <2> QED
    BY <1>8, <2>2, <2>3 DEF LateRegister, MayRegister
<1>9. CASE Crash
  <2> DEFINE T == {New(v) : v \in {w \in Videos : pc[w] = "reserve"}}
                  \cup {Current(v) : v \in {w \in Videos : pc[w] = "register"}}
  <2>1. /\ asked' \cup late' \subseteq asked \cup late \cup T
        /\ entries' = entries /\ reservations' = reservations
        /\ \A v \in Videos : minted'[v] = IF pc[v] = "reserve" THEN minted[v] + 1 ELSE minted[v]
    BY <1>9 DEF Crash
  <2>2. \A v \in Videos : minted[v] <= minted'[v]
    BY <1>0, <2>1
  <2>3. \A token \in T : token.nr <= minted'[token.video]
    <3>1. \A v \in Videos : pc[v] = "reserve" => New(v).nr <= minted'[New(v).video]
      BY <1>0, <2>1 DEF New
    <3>2. \A v \in Videos : pc[v] = "register" => Current(v).nr <= minted'[Current(v).video]
      BY <1>0, <1>2, <2>1 DEF Holding, Current
    <3> QED
      BY <3>1, <3>2
  <2>4. asked' \cap (entries' \cup late') = {}
    <3>1. \A v \in Videos : New(v) \notin entries \cup late
      BY <1>0 DEF New
    <3>2. \A v \in Videos : pc[v] = "register" => Current(v) \notin asked
      BY <1>2 DEF Holding
    <3>3. \A v, w \in Videos : pc[v] = "reserve" /\ pc[w] = "register" => New(v) # Current(w)
      BY DEF New, Current
    <3> QED
      BY <1>0, <1>9, <3>1, <3>2, <3>3 DEF Crash
  <2> HIDE DEF T
  <2> QED
    BY <2>1, <2>2, <2>3, <2>4, NoSlotTaken
<1>10. ASSUME NEW token \in asked, LateReserve(token) PROVE SlotInv'
  <2>1. CASE HasSlot
    <3>1. /\ minted' = minted /\ entries' = entries /\ asked' = asked \ {token}
          /\ late' \subseteq late \cup {token}
          /\ reservations' = reservations \cup {token}
      BY <1>10, <2>1 DEF LateReserve
    <3>2. token.nr <= minted'[token.video] /\ \A w \in Videos : minted[w] <= minted'[w]
      BY <1>0, <3>1
    <3>3. asked' \cap (entries' \cup late') = {}
      BY <1>0, <3>1
    <3>4. /\ asked' \cup late' \subseteq asked \cup late \cup {token}
          /\ entries' \cup reservations' \subseteq (entries \cup reservations) \cup {token}
      BY <3>1
    <3> QED
      BY <2>1, <3>2, <3>3, <3>4, SlotTaken
  <2>2. CASE ~HasSlot
    BY <1>1, <1>10, <2>2 DEF LateReserve
  <2> QED
    BY <2>1, <2>2
<1>11. ASSUME NEW v \in Videos,
              \/ Start(v) \/ Poll(v) \/ FillDecides(v) \/ DrainDecides(v)
              \/ Publish(v) \/ Mark(v) \/ Cleanup(v) \/ Downstream(v)
              \/ TaskFails(v) \/ Stall(v) \/ CancelFails(v) \/ PublishFails(v)
              \/ GiveBackFails(v) \/ PublishReplyLost(v) \/ Interrupted(v)
       PROVE  UNCHANGED registryVars
  BY <1>11
  DEF Start, Poll, FillDecides, DrainDecides, Publish, Mark, Cleanup, Downstream, Track,
      TrackFails, Aggregate, TaskFails, Stall, CancelFails, PublishFails, GiveBackFails,
      PublishReplyLost, Interrupted
<1>12. CASE RegistryRestarts
  BY <1>1, <1>12 DEF RegistryRestarts
<1>13. CASE UNCHANGED registryVars
  BY <1>1, <1>13
<1>14. CASE UNCHANGED vars
  BY <1>13, <1>14 DEF vars
<1> QED
  BY <1>3, <1>4, <1>5, <1>6, <1>7, <1>8, <1>9, <1>10, <1>11, <1>12, <1>13, <1>14
  DEF Next, FaultNext, WorkNext, Ingest, HandlerFault

(* What is said of a video that a step leaves alone stays true.            *)
LEMMA OtherHandler ==
  ASSUME HandlerInv, NEW w \in Videos,
         local'[w] = local[w], pc'[w] = pc[w], tracked'[w] = tracked[w],
         published'[w] = published[w], complete'[w] = complete[w],
         minted'[w] = minted[w], source'[w] = source[w],
         stage'[w] = stage[w] \/ stage'[w] = "failed"
  PROVE  Handler(w)'
<1>1. Handler(w)
  BY DEF HandlerInv
<1> QED
  BY <1>1 DEF Handler

(* One failed put.                                                         *)
LEMMA PutFailedHandler ==
  ASSUME IndInv, NEW v \in Videos, pc[v] \in {"reserve", "register"}, PutFailed(v),
         UNCHANGED <<published, tracked, complete, source>>,
         \A w \in Videos : w # v => minted'[w] = minted[w]
  PROVE  HandlerInv'
<1> SUFFICES ASSUME NEW w \in Videos PROVE Handler(w)'
  BY DEF HandlerInv
<1>1. /\ local' = [local EXCEPT ![v] = [local[v] EXCEPT !.tries = local[v].tries + 1]]
      /\ pc' = [pc EXCEPT ![v] = IF local[v].tries + 1 < PutAttempts
                                  THEN "reserve" ELSE "ended"]
      /\ stage' = stage \/ stage' = [stage EXCEPT ![v] = IF Ended(v) THEN @ ELSE "failed"]
  BY DEF PutFailed, Goto, Fail
<1>2. CASE w # v
  BY <1>1, <1>2, OtherHandler DEF IndInv, TypeOK
<1>3. CASE w = v
  <2>1. Handler(v) /\ local[v] \in Locals
    BY LocalsType DEF IndInv, HandlerInv
  <2>2. /\ local'[v] = [local[v] EXCEPT !.tries = local[v].tries + 1]
        /\ pc'[v] = IF local[v].tries + 1 < PutAttempts THEN "reserve" ELSE "ended"
        /\ stage'[v] = stage[v] \/ stage'[v] = "failed"
    BY <1>1 DEF IndInv, TypeOK
  <2>3. /\ local'[v].seen = local[v].seen /\ local'[v].released = local[v].released
        /\ local'[v].tries = local[v].tries + 1
    BY <2>1, <2>2 DEF Locals
  <2> QED
    BY <1>3, <2>1, <2>2, <2>3 DEF Handler, Holding
<1> QED
  BY <1>2, <1>3

LEMMA HandlerStep == IndInv /\ [Next]_vars => HandlerInv'
<1> SUFFICES ASSUME IndInv, [Next]_vars, NEW w \in Videos PROVE Handler(w)'
  BY DEF HandlerInv
<1> USE LimitsAssumption DEF registryVars, taskVars, handlerVars
<1>0. /\ Handler(w) /\ TypeOK /\ HandlerInv /\ local[w] \in Locals
      /\ tracked[w] \in 0..TotalChunks /\ published[w] \in 0..TotalChunks
      /\ minted[w] \in Nat /\ tracked[w] <= published[w]
  BY LocalsType DEF IndInv, HandlerInv, TypeOK
<1>1. ASSUME NEW v \in Videos, v # w,
             Ingest(v) \/ Downstream(v) \/ HandlerFault(v) \/ PublishReplyLost(v)
      PROVE  Handler(w)'
  <2>1. /\ local'[w] = local[w] /\ pc'[w] = pc[w] /\ tracked'[w] = tracked[w]
        /\ published'[w] = published[w] /\ complete'[w] = complete[w]
        /\ minted'[w] = minted[w] /\ source'[w] = source[w] /\ stage'[w] = stage[w]
    BY SMTT(30), <1>0, <1>1
    DEF Ingest, Start, Poll, ReleaseNext, FillDecides, DrainDecides, Reserve, Register, Publish,
        GiveBack, Mark, Cleanup, Downstream, Track, TrackFails, Aggregate, HandlerFault,
        TaskFails, Stall, IngestFails, Interrupted, ReserveLost, PutRejected, RegisterReplyLost,
        CancelFails,
        PutTimesOut, PublishFails, GiveBackFails, PublishReplyLost, PutFailed, Goto, Fail,
        Record, TypeOK
  <2> QED
    BY <1>0, <2>1, OtherHandler
<1>2. CASE Start(w)
  <2>1. local'[w] = Fresh
    BY <1>0, <1>2 DEF Start, TypeOK
  <2> QED
    BY <1>0, <1>2, <2>1 DEF Start, Handler, Goto, NextChunk, TypeOK, Fresh, Holding
<1>3. CASE Poll(w)
  <2>1. local'[w] = [local[w] EXCEPT !.seen = tracked[w], !.ended = Ended(w)]
    BY <1>0, <1>3 DEF Poll, TypeOK
  <2>2. /\ local'[w].seen = tracked[w] /\ local'[w].released = local[w].released
        /\ local'[w].tries = local[w].tries
    BY <1>0, <2>1 DEF Locals
  <2> QED
    BY SMTT(20), <1>0, <1>3, <2>2, LocalsUpdate DEF Poll, Handler, Goto, TypeOK, Holding
<1>4. CASE ReleaseNext(w)
  <2>1. local'[w] = [local[w] EXCEPT !.released = local[w].released + 1]
    BY <1>0, <1>4 DEF ReleaseNext, TypeOK
  <2>2. /\ local'[w].seen = local[w].seen /\ local'[w].released = local[w].released + 1
        /\ local'[w].tries = local[w].tries
    BY <1>0, <2>1 DEF Locals
  <2>3. /\ local[w].released < local[w].seen /\ local[w].released \in Nat
        /\ UNCHANGED <<minted, published, tracked, complete, stage, source, pc>>
    BY <1>0, <1>4, LocalsUpdate DEF ReleaseNext, ToRelease
  <2>4. local'[w].released <= local'[w].seen
    BY <1>0, <2>2, <2>3, LocalsUpdate
  <2> QED
    BY <1>0, <1>4, <2>2, <2>3, <2>4 DEF ReleaseNext, Handler, Holding
<1>5. CASE FillDecides(w)
  <2>1. TaskLimit <= MaxPerTask /\ TaskLimit \in Nat
    BY DEF TaskLimit
  <2> QED
    BY SMTT(30), <1>0, <1>5, <2>1, LocalsUpdate DEF FillDecides, HasCapacity, Handler, Goto, TypeOK, Holding
<1>6. CASE DrainDecides(w)
  BY <1>0, <1>6, LocalsUpdate DEF DrainDecides, Drained, Handler, Goto, TypeOK, Holding
<1>7. CASE Reserve(w)
  <2>1. CASE HasSlot
    <3>1. /\ local'[w] = [local[w] EXCEPT !.nr = minted[w] + 1]
          /\ pc'[w] = "register" /\ minted'[w] = minted[w] + 1
          /\ UNCHANGED <<published, tracked, complete, stage, source>>
      BY <1>0, <1>7, <2>1 DEF Reserve, Goto, TypeOK
    <3>2. /\ local'[w].seen = local[w].seen /\ local'[w].released = local[w].released
          /\ local'[w].tries = local[w].tries /\ local'[w].nr = minted[w] + 1
      BY <1>0, <3>1 DEF Locals
    <3> QED
      BY <1>0, <1>7, <3>1, <3>2, LocalsUpdate DEF Reserve, Handler, Holding
  <2>2. CASE ~HasSlot
    BY <1>7, <2>2, PutFailedHandler DEF Reserve, HandlerInv
  <2> QED
    BY <2>1, <2>2
<1>8. CASE Register(w)
  <2>1. local'[w] = [local[w] EXCEPT !.tries = 0]
    BY <1>0, <1>8 DEF Register, TypeOK
  <2>2. /\ local'[w].seen = local[w].seen /\ local'[w].released = local[w].released
        /\ local'[w].tries = 0 /\ local'[w].nr = local[w].nr
    BY <1>0, <2>1 DEF Locals
  <2> QED
    BY <1>0, <1>8, <2>2, LocalsUpdate DEF Register, Handler, Goto, TypeOK, Holding
<1>9. CASE Publish(w) \/ PublishReplyLost(w)
  <2>1. /\ pc[w] = "publish" /\ published'[w] = published[w] + 1
        /\ \/ pc'[w] = NextChunk(published[w] + 1)
           \/ pc'[w] = "give_back"
        /\ UNCHANGED <<minted, tracked, complete, stage, source, local>>
    BY <1>0, <1>9 DEF Publish, PublishReplyLost, Record, Goto, TypeOK
  <2>2. /\ ~complete[w] /\ published[w] < TotalChunks
        /\ published[w] - local[w].seen < MaxPerTask /\ local[w].seen <= tracked[w]
        /\ local[w].seen \in Nat
    BY <1>0, <2>1, LocalsUpdate DEF Handler
  <2>3. published'[w] - tracked'[w] <= MaxPerTask
    BY <1>0, <2>1, <2>2
  <2>4. /\ pc'[w] \in {"poll", "release"} => published'[w] < TotalChunks
        /\ pc'[w] = "mark" => published'[w] = TotalChunks
        /\ pc'[w] \in {"poll", "mark", "give_back"}
    BY <1>0, <2>1, <2>2 DEF NextChunk
  <2> QED
    BY <1>0, <2>1, <2>2, <2>3, <2>4 DEF Handler, Holding
<1>10. CASE GiveBack(w) \/ PublishFails(w) \/ GiveBackFails(w) \/ Interrupted(w)
  BY <1>0, <1>10 DEF GiveBack, PublishFails, GiveBackFails, Interrupted, Handler, Goto, TypeOK, Holding
<1>11. CASE Mark(w)
  BY <1>0, <1>11 DEF Mark, Handler, Goto, TypeOK, Holding
<1>12. CASE Cleanup(w)
  BY <1>0, <1>12 DEF Cleanup, Handler, Goto, TypeOK, Holding
<1>13. CASE Downstream(w)
  <2>1. CASE Track(w)
    <3>1. /\ tracked[w] < published[w] /\ tracked'[w] = tracked[w] + 1
          /\ UNCHANGED <<minted, published, complete, stage, source, local, pc>>
      BY <1>0, <2>1 DEF Track, TypeOK
    <3>2. local[w].seen \in 0..TotalChunks
      BY <1>0, LocalsUpdate
    <3>3. /\ local'[w].seen <= tracked'[w] /\ tracked'[w] <= published'[w]
          /\ published'[w] - tracked'[w] <= MaxPerTask
          /\ tracked[w] = TotalChunks => tracked'[w] = TotalChunks
      BY <1>0, <3>1, <3>2 DEF Handler
    <3> QED
      BY <1>0, <3>1, <3>3 DEF Handler
  <2>2. CASE TrackFails(w)
    BY <1>0, <2>2, OtherHandler DEF TrackFails, Fail, TypeOK
  <2>3. CASE Aggregate(w)
    BY <1>0, <2>3 DEF Aggregate, Ended, Handler, TypeOK
  <2> QED
    BY <1>13, <2>1, <2>2, <2>3 DEF Downstream
<1>14. CASE TaskFails(w)
  BY <1>0, <1>14, OtherHandler DEF TaskFails, Fail, TypeOK
<1>15. CASE Stall(w) \/ IngestFails(w)
  BY <1>0, <1>15 DEF Stall, IngestFails, Fail, Handler, Goto, TypeOK, Holding
<1>16. CASE \/ ReserveLost(w) \/ PutRejected(w) \/ RegisterReplyLost(w) \/ CancelFails(w)
            \/ PutTimesOut(w)
  <2>1. /\ pc[w] \in {"reserve", "register"} /\ PutFailed(w)
        /\ UNCHANGED <<published, tracked, complete, source>>
        /\ minted' = minted \/ minted' = [minted EXCEPT ![w] = @ + 1]
    BY <1>16 DEF ReserveLost, PutRejected, RegisterReplyLost, CancelFails, PutTimesOut
  <2>2. \A v \in Videos : v # w => minted'[v] = minted[v]
    BY <1>0, <2>1 DEF TypeOK
  <2> QED
    BY <2>1, <2>2, PutFailedHandler DEF HandlerInv
<1>17. CASE Crash
  <2>1. local'[w] = Fresh /\ pc'[w] = IF w \in Active THEN "idle" ELSE pc[w]
    BY <1>17 DEF Crash
  <2> QED
    BY <1>0, <1>17, <2>1 DEF Crash, Active, Handler, Fresh, Holding
<1>18. CASE RegistryRestarts
  BY <1>0, <1>18, OtherHandler DEF RegistryRestarts
<1>19. ASSUME NEW token, LateReserve(token) \/ LateRegister(token) PROVE Handler(w)'
  BY <1>0, <1>19, OtherHandler DEF LateReserve, LateRegister
<1>20. CASE UNCHANGED vars
  BY <1>0, <1>20, OtherHandler DEF vars
<1> QED
  BY <1>1, <1>2, <1>3, <1>4, <1>5, <1>6, <1>7, <1>8, <1>9, <1>10, <1>11, <1>12, <1>13,
     <1>14, <1>15, <1>16, <1>17, <1>18, <1>19, <1>20
  DEF Next, FaultNext, WorkNext, Ingest, HandlerFault

(* A step that gives nobody else the token in the handler's hands.         *)
LEMMA AloneKept ==
  ASSUME NEW w \in Videos, Alone(w),
         pc'[w] \in Holding =>
           /\ pc[w] \in Holding /\ Current(w)' = Current(w)
           /\ Current(w) \in asked' \cup late' => Current(w) \in asked \cup late,
         pc'[w] = "register" => /\ pc[w] = "register"
                                /\ Current(w) \in entries' => Current(w) \in entries
  PROVE  Alone(w)'
  BY DEF Alone, Holding

LEMMA TokenStep == IndInv /\ [Next]_vars => TokenInv'
<1> SUFFICES ASSUME IndInv, [Next]_vars, NEW w \in Videos PROVE Alone(w)'
  BY DEF TokenInv
<1> USE DEF registryVars, taskVars, handlerVars
<1>0. /\ Alone(w) /\ TypeOK /\ local[w] \in Locals /\ minted[w] \in Nat
      /\ \A token \in Known : token.nr \in Nat /\ token.nr <= minted[token.video]
  BY LocalsType DEF IndInv, TokenInv, TypeOK, Known, SlotInv, Token
<1>1. ASSUME NEW v \in Videos, v # w,
             Ingest(v) \/ Downstream(v) \/ HandlerFault(v) \/ PublishReplyLost(v)
      PROVE  Alone(w)'
  <2>1. local'[w] = local[w] /\ pc'[w] = pc[w]
    BY SMTT(30), <1>0, <1>1
    DEF Ingest, Start, Poll, ReleaseNext, FillDecides, DrainDecides, Reserve, Register, Publish,
        GiveBack, Mark, Cleanup, Downstream, Track, TrackFails, Aggregate, HandlerFault,
        TaskFails, Stall, IngestFails, Interrupted, ReserveLost, PutRejected, RegisterReplyLost,
        CancelFails,
        PutTimesOut, PublishFails, GiveBackFails, PublishReplyLost, PutFailed, Goto, TypeOK
  <2>2. Current(w)' = Current(w) /\ Current(w) # Current(v) /\ Current(w) # New(v)
    BY <1>1, <2>1 DEF Current, New
  <2>3. /\ Current(w) \in asked' \cup late' => Current(w) \in asked \cup late
        /\ Current(w) \in entries' => Current(w) \in entries
    BY <1>1, <2>2
    DEF Ingest, Start, Poll, ReleaseNext, FillDecides, DrainDecides, Reserve, Register, Publish,
        GiveBack, Mark, Cleanup, Downstream, Track, TrackFails, Aggregate, HandlerFault,
        TaskFails, Stall, IngestFails, Interrupted, ReserveLost, PutRejected, RegisterReplyLost,
        CancelFails,
        PutTimesOut, PublishFails, GiveBackFails, PublishReplyLost, Release
  <2> QED
    BY <1>0, <2>1, <2>2, <2>3, AloneKept
<1>2. CASE Reserve(w) /\ HasSlot
  <2>1. /\ local'[w] = [local[w] EXCEPT !.nr = minted[w] + 1]
        /\ UNCHANGED <<entries, asked, late>>
    BY <1>0, <1>2 DEF Reserve, TypeOK
  <2>2. local'[w].nr = minted[w] + 1
    BY <1>0, <2>1 DEF Locals
  <2>3. Current(w)' \notin Known
    BY <1>0, <2>2 DEF Current
  <2> QED
    BY <2>1, <2>3 DEF Alone, Known
<1>3. CASE Register(w)
  <2>1. /\ local'[w] = [local[w] EXCEPT !.tries = 0]
        /\ pc[w] = "register" /\ pc'[w] = "publish"
        /\ UNCHANGED <<asked, late>>
    BY <1>0, <1>3 DEF Register, TypeOK, Goto
  <2>2. Current(w)' = Current(w)
    BY <1>0, <2>1 DEF Locals, Current
  <2> QED
    BY <1>0, <2>1, <2>2, AloneKept DEF Holding
<1>4. CASE PublishReplyLost(w) \/ PublishFails(w)
  <2>1. /\ pc[w] = "publish" /\ pc'[w] = "give_back"
        /\ UNCHANGED <<asked, late, local>>
    BY <1>0, <1>4 DEF PublishReplyLost, PublishFails, TypeOK, Goto
  <2> QED
    BY <1>0, <2>1, AloneKept DEF Holding, Current
<1>5. CASE Downstream(w) \/ TaskFails(w)
  <2>1. UNCHANGED <<registryVars, pc, local>>
    BY <1>5 DEF Downstream, Track, TrackFails, Aggregate, TaskFails
  <2> QED
    BY <1>0, <2>1, AloneKept DEF Holding, Current
<1>6. CASE \/ Start(w) \/ Poll(w) \/ ReleaseNext(w) \/ FillDecides(w) \/ DrainDecides(w)
           \/ (Reserve(w) /\ ~HasSlot) \/ Publish(w) \/ GiveBack(w) \/ Mark(w) \/ Cleanup(w)
           \/ Stall(w) \/ IngestFails(w) \/ Interrupted(w) \/ ReserveLost(w) \/ PutRejected(w)
           \/ RegisterReplyLost(w) \/ CancelFails(w) \/ PutTimesOut(w) \/ GiveBackFails(w)
           \/ Crash
  <2>1. pc'[w] \notin Holding
    BY <1>0, <1>6
    DEF Start, Poll, ReleaseNext, FillDecides, DrainDecides, Reserve, Publish, GiveBack, Mark,
        Cleanup, Stall, IngestFails, Interrupted, ReserveLost, PutRejected, RegisterReplyLost,
        CancelFails,
        PutTimesOut, GiveBackFails, Crash, Active, PutFailed, Goto, NextChunk, Holding, TypeOK
  <2> QED
    BY <2>1 DEF Alone, Holding
<1>7. ASSUME NEW token \in asked, LateReserve(token) PROVE Alone(w)'
  <2>1. /\ asked' \cup late' \subseteq asked \cup late
        /\ UNCHANGED <<entries, pc, local>>
    BY <1>7 DEF LateReserve
  <2> QED
    BY <1>0, <2>1, AloneKept DEF Current
<1>8. ASSUME NEW token \in late, LateRegister(token) PROVE Alone(w)'
  <2>1. /\ asked' = asked /\ late' \subseteq late /\ entries' \subseteq entries \cup {token}
        /\ UNCHANGED <<pc, local>>
    BY <1>8 DEF LateRegister
  <2>2. pc[w] = "register" => token # Current(w)
    BY <1>0 DEF Alone, Holding
  <2> QED
    BY <1>0, <2>1, <2>2, AloneKept DEF Current
<1>9. CASE RegistryRestarts
  BY <1>0, <1>9, AloneKept DEF RegistryRestarts, Current
<1>10. CASE UNCHANGED vars
  BY <1>0, <1>10, AloneKept DEF vars, Current
<1> QED
  BY <1>1, <1>2, <1>3, <1>4, <1>5, <1>6, <1>7, <1>8, <1>9, <1>10
  DEF Next, FaultNext, WorkNext, Ingest, HandlerFault

(* Who holds which token: the invariant that the theorems below rest on,   *)
(* for any number of videos, any limits and any faults.                    *)
THEOREM Invariance == Spec => []IndInv
<1>1. IndInv /\ [Next]_vars => IndInv'
  BY TypeStep, SlotStep, HandlerStep, TokenStep DEF IndInv
<1> QED
  BY InitInv, <1>1, PTL DEF Spec

(* FaultSpec is Spec without the lost reply.                               *)
LEMMA FaultSpecImplies == FaultSpec => Spec
<1>1. [FaultNext]_vars => [Next]_vars
  BY DEF Next
<1> QED
  BY <1>1, PTL DEF FaultSpec, Spec

(* The registry, the records of the tasks and the handlers keep their      *)
(* types, and no more objects or chunks exist than tokens were minted for. *)
THEOREM TypeCorrect == Spec => []TypeOK
<1>1. IndInv => TypeOK
  BY DEF IndInv
<1> QED
  BY Invariance, <1>1, PTL

(* ObjectRegistryActor.reserve: for any number of videos, any limits and   *)
(* any faults the slots suffice for what the registry holds.               *)
THEOREM CapacityKept == Spec => []CapacityRespected
<1>1. IndInv => CapacityRespected
  <2> SUFFICES ASSUME IndInv PROVE CapacityRespected
    OBVIOUS
  <2>1. /\ IsFiniteSet(entries) /\ IsFiniteSet(reservations)
        /\ Cardinality(entries \cup reservations) <= MaxGlobal
        /\ entries \cap reservations = {}
    BY DEF IndInv, SlotInv, TypeOK
  <2>2. Cardinality(entries \cup reservations)
          = Cardinality(entries) + Cardinality(reservations) - Cardinality(entries \cap reservations)
    BY <2>1, FS_Union
  <2>3. /\ Cardinality(entries \cap reservations) = 0
        /\ Cardinality(entries) \in Nat /\ Cardinality(reservations) \in Nat
    BY <2>1, FS_EmptySet, FS_CardinalityType
  <2> QED
    BY <2>1, <2>2, <2>3 DEF CapacityRespected
<1> QED
  BY Invariance, <1>1, PTL

(* _wait_for_downstream_capacity: the decision rests on a reading of the   *)
(* tracking counter that may be old, and the window holds nevertheless.    *)
THEOREM WindowKept == Spec => []WindowRespected
<1>1. IndInv => WindowRespected
  BY DEF IndInv, HandlerInv, Handler, WindowRespected
<1> QED
  BY Invariance, <1>1, PTL

(* _cleanup_processed_source: the source goes only when every chunk is     *)
(* tracked or the task has failed.                                         *)
THEOREM SourceKept == Spec => []SourceUntilDone
<1>1. IndInv => SourceUntilDone
  BY DEF IndInv, HandlerInv, Handler, SourceUntilDone
<1> QED
  BY Invariance, <1>1, PTL

-----------------------------------------------------------------------------
(* Frames of published chunks.                                             *)
LEMMA RefInit == Init => RefInv
  BY DEF Init, RefInv, References, Holding, Happened

LEMMA RefType ==
  ASSUME TypeOK, NEW v \in Videos
  PROVE  /\ object_ref[v] \in Seq(Token) /\ Len(object_ref[v]) = published[v]
         /\ \A c \in 1..published[v] : object_ref[v][c].nr \in Nat
<1>1. object_ref[v] \in Seq(Token) /\ Len(object_ref[v]) = published[v]
  BY DEF TypeOK
<1>2. \A c \in 1..published[v] : object_ref[v][c] \in Token
  BY <1>1
<1> QED
  BY <1>1, <1>2 DEF Token

(* Every step is at most one fault.                                        *)
LEMMA FaultStep ==
  ASSUME [Next]_vars
  PROVE  UNCHANGED faults \/ \E kind \in FaultKind : Fault(kind)
  BY DEF Next, FaultNext, WorkNext, Ingest, Start, Poll, ReleaseNext, FillDecides, DrainDecides,
         Reserve, Register, Publish, GiveBack, Mark, Cleanup, Downstream, Track, TrackFails,
         Aggregate, HandlerFault, TaskFails, Stall, IngestFails, Interrupted, ReserveLost, LateReserve,
         PutRejected, RegisterReplyLost, CancelFails, PutTimesOut, LateRegister, PublishFails,
         GiveBackFails, PublishReplyLost, Crash, RegistryRestarts, vars, FaultKind

LEMMA FaultKept ==
  ASSUME TypeOK, [FaultNext]_vars
  PROVE  Happened("registry_restart") => Happened("registry_restart")'
<1>1. UNCHANGED faults \/ \E kind \in FaultKind : Fault(kind)
  BY FaultStep DEF Next
<1>2. ToSet(faults) \subseteq ToSet(faults')
  BY <1>1, FaultFacts
<1> QED
  BY <1>2 DEF Happened

(* A step that leaves the published chunks of w alone, and takes from the  *)
(* registry no token that w still needs.                                   *)
LEMMA RefKept ==
  ASSUME IndInv, IndInv', RefInv, [FaultNext]_vars, NEW w \in Videos,
         object_ref'[w] = object_ref[w], published'[w] = published[w],
         minted[w] <= minted'[w], tracked[w] <= tracked'[w],
         pc'[w] \in Holding => pc[w] \in Holding \/ minted[w] < minted'[w],
         ~Happened("registry_restart")' =>
           \A token \in entries \ entries' :
             /\ \A c \in (tracked[w] + 1)..published[w] : token # object_ref[w][c]
             /\ pc[w] = "publish" => token # Current(w),
         pc'[w] = "publish" => \/ pc[w] = "publish" /\ local'[w] = local[w]
                               \/ Current(w)' \in entries'
  PROVE  References(w)'
<1>1. References(w) /\ (Happened("registry_restart") => Happened("registry_restart")')
  BY FaultKept DEF RefInv, IndInv
<1>2. /\ minted[w] \in Nat /\ minted'[w] \in Nat /\ object_ref[w] \in Seq(Token)
      /\ tracked[w] \in Nat /\ tracked'[w] \in Nat /\ published[w] \in Nat
      /\ Len(object_ref[w]) = published[w]
  BY DEF IndInv, TypeOK
<1>3. \A c \in 1..published[w] : object_ref[w][c].nr \in Nat
  BY RefType DEF IndInv
<1>4. \A c \in 1..published[w] :
        /\ object_ref[w][c].video = w
        /\ object_ref[w][c].nr <= minted'[w]
        /\ pc'[w] \in Holding => object_ref[w][c].nr < minted'[w]
  BY <1>1, <1>2, <1>3 DEF References
<1>5. ASSUME ~Happened("registry_restart")'
      PROVE  /\ \A c \in (tracked'[w] + 1)..published[w] : object_ref[w][c] \in entries'
             /\ pc'[w] = "publish" => Current(w)' \in entries'
  <2>1. \A c \in (tracked[w] + 1)..published[w] : object_ref[w][c] \in entries'
    BY <1>1, <1>5 DEF References
  <2>2. \A c \in (tracked'[w] + 1)..published[w] : c \in (tracked[w] + 1)..published[w]
    BY <1>2
  <2>3. ASSUME pc[w] = "publish", local'[w] = local[w] PROVE Current(w)' \in entries'
    BY <1>1, <1>5, <2>3 DEF References, Current
  <2> QED
    BY <2>1, <2>2, <2>3
<1> QED
  BY <1>1, <1>4, <1>5 DEF References

(* Publication: the token becomes the reference of the new chunk.          *)
LEMMA RefPublish ==
  ASSUME IndInv, RefInv, [FaultNext]_vars, NEW w \in Videos, Publish(w)
  PROVE  References(w)'
<1>1. References(w) /\ (Happened("registry_restart") => Happened("registry_restart")')
  BY FaultKept DEF RefInv, IndInv
<1>2. /\ minted[w] \in Nat /\ object_ref[w] \in Seq(Token)
      /\ tracked[w] \in Nat /\ published[w] \in Nat
      /\ Len(object_ref[w]) = published[w] /\ tracked[w] <= published[w]
  BY DEF IndInv, TypeOK
<1>3. /\ pc[w] = "publish" /\ pc'[w] \notin Holding /\ pc'[w] # "publish"
      /\ published'[w] = published[w] + 1
      /\ object_ref'[w] = Append(object_ref[w], Current(w))
      /\ UNCHANGED <<entries, minted, tracked>>
  BY DEF Publish, Record, Goto, NextChunk, Holding, IndInv, TypeOK, registryVars
<1>4. Current(w) \in Token /\ Current(w).video = w /\ Current(w).nr = minted[w]
  BY <1>3, CurrentType DEF IndInv, Holding, Current
<1>5. /\ \A c \in 1..published[w] : object_ref'[w][c] = object_ref[w][c]
      /\ object_ref'[w][published[w] + 1] = Current(w)
  BY <1>2, <1>3, <1>4
<1>6. \A c \in 1..published[w] : /\ object_ref[w][c].video = w
                                 /\ object_ref[w][c].nr < minted[w]
                                 /\ object_ref[w][c].nr \in Nat
  BY <1>1, <1>2, <1>3, RefType DEF References, Holding, IndInv
<1>7. \A c \in 1..(published[w] + 1) : /\ object_ref'[w][c].video = w
                                       /\ object_ref'[w][c].nr <= minted[w]
  <2> SUFFICES ASSUME NEW c \in 1..(published[w] + 1)
               PROVE  object_ref'[w][c].video = w /\ object_ref'[w][c].nr <= minted[w]
    OBVIOUS
  <2>1. CASE c = published[w] + 1
    BY <1>2, <1>4, <1>5, <2>1
  <2>2. CASE c \in 1..published[w]
    BY SMTT(20), <1>2, <1>5, <1>6, <2>2
  <2> QED
    BY <1>2, <2>1, <2>2
<1>8. \A c, d \in 1..(published[w] + 1) : object_ref'[w][c] = object_ref'[w][d] => c = d
  <2>1. \A c \in 1..published[w] : object_ref[w][c] # Current(w)
    BY <1>2, <1>4, <1>6
  <2>2. \A c, d \in 1..published[w] : object_ref[w][c] = object_ref[w][d] => c = d
    BY <1>1 DEF References
  <2>3. \A c \in 1..(published[w] + 1) : c \in 1..published[w] \/ c = published[w] + 1
    BY <1>2
  <2> QED
    BY <1>5, <2>1, <2>2, <2>3
<1>9. ASSUME ~Happened("registry_restart")'
      PROVE  \A c \in (tracked[w] + 1)..(published[w] + 1) : object_ref'[w][c] \in entries
  <2>1. \A c \in (tracked[w] + 1)..published[w] : object_ref[w][c] \in entries
    BY <1>1, <1>9 DEF References
  <2>2. Current(w) \in entries
    BY <1>1, <1>3, <1>9 DEF References
  <2>3. \A c \in (tracked[w] + 1)..(published[w] + 1) :
          \/ c \in (tracked[w] + 1)..published[w] /\ c \in 1..published[w]
          \/ c = published[w] + 1
    BY <1>2
  <2> QED
    BY <1>5, <2>1, <2>2, <2>3
<1> QED
  BY <1>3, <1>7, <1>8, <1>9 DEF References

LEMMA RefStep == IndInv /\ IndInv' /\ RefInv /\ [FaultNext]_vars => RefInv'
<1> SUFFICES ASSUME IndInv, IndInv', RefInv, [FaultNext]_vars, NEW w \in Videos
             PROVE  References(w)'
  BY DEF RefInv
<1> USE DEF registryVars, taskVars, handlerVars
<1>0. /\ TypeOK /\ Handler(w) /\ References(w) /\ minted[w] \in Nat /\ tracked[w] \in Nat
      /\ \A c \in 1..published[w] : object_ref[w][c].nr \in Nat
      /\ published[w] \in Nat
  BY SMTT(30), RefType DEF IndInv, HandlerInv, RefInv, TypeOK
<1>1. ASSUME NEW v \in Videos, ReleaseNext(v) \/ (IngestFails(v) /\ ToRelease(v))
      PROVE  References(w)'
  <2> DEFINE r == local[v].released + 1
  <2>1. /\ r \in 1..tracked[v] /\ r \in 1..published[v]
        /\ entries' \in {entries, entries \ {object_ref[v][r]}}
        /\ UNCHANGED <<minted, published, object_ref, tracked>>
        /\ v # w => local'[w] = local[w] /\ pc'[w] = pc[w]
        /\ pc'[v] \in {"release", "ended"}
    <3>1. local[v] \in Locals /\ Handler(v) /\ tracked[v] <= published[v]
      BY LocalsType DEF IndInv, HandlerInv, TypeOK
    <3>2. tracked[v] \in Nat /\ published[v] \in Nat
      BY DEF IndInv, TypeOK
    <3>3. /\ local[v].released < local[v].seen /\ local[v].seen <= tracked[v]
          /\ local[v].released \in Nat /\ local[v].seen \in Nat
      BY <1>1, <3>1, LocalsUpdate DEF ReleaseNext, ToRelease, Handler
    <3>4. r \in 1..tracked[v] /\ r \in 1..published[v]
      BY <3>1, <3>2, <3>3
    <3> HIDE DEF r
    <3>5. /\ entries' \in {entries, entries \ {object_ref[v][r]}}
          /\ UNCHANGED <<minted, published, object_ref, tracked>>
          /\ v # w => local'[w] = local[w] /\ pc'[w] = pc[w]
          /\ pc'[v] \in {"release", "ended"}
      BY <1>0, <1>1 DEF ReleaseNext, IngestFails, Release, TypeOK, Goto, r
    <3> QED
      BY <3>4, <3>5
  <2>2. object_ref[v][r].video = v /\ References(v)
    BY <2>1 DEF RefInv, References
  <2>3. \A c \in (tracked[w] + 1)..published[w] : object_ref[v][r] # object_ref[w][c]
    <3>1. CASE v # w
      BY <1>0, <2>2, <3>1 DEF References
    <3>2. CASE v = w
      <4>1. \A c \in (tracked[w] + 1)..published[w] : c \in 1..published[w] /\ r # c
        BY <1>0, <2>1, <3>2
      <4> QED
        BY <1>0, <2>1, <3>2, <4>1 DEF References
    <3> QED
      BY <3>1, <3>2
  <2>4. pc'[w] = "publish" => pc[w] = "publish" /\ local'[w] = local[w]
    BY <2>1
  <2>5. pc[w] = "publish" => object_ref[v][r] # Current(w)
    <3>1. CASE v # w
      BY <2>2, <3>1 DEF Current
    <3>2. CASE v = w
      BY <1>1, <3>2 DEF ReleaseNext, IngestFails
    <3> QED
      BY <3>1, <3>2
  <2>6. pc'[w] \in Holding => pc[w] \in Holding
    BY <2>1 DEF Holding
  <2> HIDE DEF r
  <2> QED
    BY <1>0, <2>1, <2>3, <2>4, <2>5, <2>6, RefKept
<1>2. ASSUME NEW v \in Videos, GiveBack(v) PROVE References(w)'
  <2>1. /\ pc[v] = "give_back" /\ entries' = entries \ {Current(v)}
        /\ UNCHANGED <<minted, taskVars, local>>
        /\ pc'[w] = IF w = v THEN "idle" ELSE pc[w]
    BY <1>0, <1>2 DEF GiveBack, Release, Goto, TypeOK
  <2>2. \A c \in (tracked[w] + 1)..published[w] : Current(v) # object_ref[w][c]
    <3>1. CASE v # w
      BY <1>0, <3>1 DEF References, Current
    <3>2. CASE v = w
      <4>1. local[w].nr = minted[w]
        BY <2>1, <3>2, CurrentType DEF IndInv, Holding
      <4>2. \A c \in 1..published[w] : object_ref[w][c].nr < minted[w]
        BY <1>0, <2>1, <3>2 DEF References, Holding
      <4> QED
        BY <1>0, <3>2, <4>1, <4>2 DEF Current
    <3> QED
      BY <3>1, <3>2
  <2>3. pc[w] = "publish" => Current(v) # Current(w)
    BY <2>1 DEF Current
  <2> QED
    BY <1>0, <2>1, <2>2, <2>3, RefKept DEF Holding
<1>3. ASSUME NEW v \in Videos, Publish(v) PROVE References(w)'
  <2>1. CASE v = w
    BY <1>3, <2>1, RefPublish
  <2>2. CASE v # w
    <3>1. /\ object_ref'[w] = object_ref[w] /\ published'[w] = published[w]
          /\ pc'[w] = pc[w]
          /\ UNCHANGED <<entries, minted, tracked, local>>
      BY <1>0, <1>3, <2>2 DEF Publish, Record, Goto, TypeOK
    <3> QED
      BY <1>0, <3>1, RefKept
  <2> QED
    BY <2>1, <2>2
<1>4. ASSUME NEW v \in Videos, Register(v) PROVE References(w)'
  <2>1. /\ entries' = entries \cup {Current(v)} /\ pc[v] = "register"
        /\ UNCHANGED <<minted, taskVars>>
        /\ pc'[w] = IF w = v THEN "publish" ELSE pc[w]
        /\ v # w => local'[w] = local[w]
    BY <1>0, <1>4 DEF Register, Goto, TypeOK
  <2>2. Current(v)' = Current(v)
    <3>1. local'[v] = [local[v] EXCEPT !.tries = 0] /\ local[v] \in Locals
      BY <1>0, <1>4, LocalsType DEF Register, TypeOK
    <3> QED
      BY <3>1 DEF Current, Locals
  <2> QED
    BY <1>0, <2>1, <2>2, RefKept DEF Holding
<1>5. ASSUME NEW v \in Videos,
             \/ Reserve(v) \/ ReserveLost(v) \/ PutRejected(v) \/ RegisterReplyLost(v)
             \/ CancelFails(v) \/ PutTimesOut(v)
      PROVE  References(w)'
  <2>1. /\ entries \subseteq entries'
        /\ UNCHANGED <<published, object_ref, tracked>>
        /\ minted' = minted \/ minted' = [minted EXCEPT ![v] = minted[v] + 1]
        /\ v # w => local'[w] = local[w] /\ pc'[w] = pc[w]
        /\ \/ pc'[v] \in {"reserve", "ended"}
           \/ pc'[v] = "register" /\ minted' = [minted EXCEPT ![v] = minted[v] + 1]
    BY <1>0, <1>5
    DEF Reserve, ReserveLost, PutRejected, RegisterReplyLost, CancelFails, PutTimesOut,
        PutFailed, Goto, TypeOK
  <2>2. /\ minted[w] <= minted'[w]
        /\ pc'[v] = "register" /\ v = w => minted[w] < minted'[w]
    BY <1>0, <2>1 DEF TypeOK
  <2> QED
    BY <1>0, <2>1, <2>2, RefKept DEF Holding
<1>6. ASSUME NEW token, LateReserve(token) \/ LateRegister(token) PROVE References(w)'
  <2>1. /\ entries \subseteq entries'
        /\ UNCHANGED <<minted, taskVars, pc, local>>
    BY <1>6 DEF LateReserve, LateRegister
  <2> QED
    BY <1>0, <2>1, RefKept
<1>7. CASE Crash
  <2>1. /\ UNCHANGED <<entries, taskVars>>
        /\ minted[w] <= minted'[w]
        /\ pc'[w] = IF w \in Active THEN "idle" ELSE pc[w]
    BY <1>0, <1>7 DEF Crash
  <2>2. pc'[w] \notin Holding
    BY <2>1 DEF Active, Holding
  <2> QED
    BY <1>0, <2>1, <2>2, RefKept DEF Holding
<1>8. CASE RegistryRestarts
  <2>1. Happened("registry_restart")'
    BY <1>0, <1>8, FaultFacts DEF RegistryRestarts, FaultKind, Happened
  <2> QED
    BY <1>0, <1>8, <2>1, RefKept DEF RegistryRestarts
<1>9. ASSUME NEW v \in Videos,
             \/ Start(v) \/ Poll(v) \/ FillDecides(v) \/ DrainDecides(v) \/ Mark(v)
             \/ Cleanup(v) \/ Downstream(v) \/ TaskFails(v) \/ Stall(v)
             \/ (IngestFails(v) /\ ~ToRelease(v)) \/ Interrupted(v) \/ PublishFails(v) \/ GiveBackFails(v)
      PROVE  References(w)'
  <2>1. /\ UNCHANGED <<entries, minted, object_ref, published>>
        /\ pc'[w] \in Holding => pc[w] \in Holding
        /\ pc'[w] = "publish" => pc[w] = "publish" /\ local'[w] = local[w]
    BY <1>0, <1>9
    DEF Start, Poll, FillDecides, DrainDecides, Mark, Cleanup, Downstream, Track, TrackFails,
        Aggregate, TaskFails, Stall, IngestFails, Interrupted, PublishFails, GiveBackFails, Goto, NextChunk,
        Holding, TypeOK
  <2>2. tracked'[w] = tracked[w] \/ tracked'[w] = tracked[w] + 1
    BY <1>0, <1>9
    DEF Start, Poll, FillDecides, DrainDecides, Mark, Cleanup, Downstream, Track, TrackFails,
        Aggregate, TaskFails, Stall, IngestFails, Interrupted, PublishFails, GiveBackFails, TypeOK
  <2> QED
    BY <1>0, <2>1, <2>2, RefKept
<1>10. CASE UNCHANGED vars
  BY <1>0, <1>10, RefKept DEF vars
<1> QED
  BY <1>1, <1>2, <1>3, <1>4, <1>5, <1>6, <1>7, <1>8, <1>9, <1>10
  DEF FaultNext, WorkNext, Ingest, HandlerFault

(* README.md:354: ingest releases the frames of a chunk only after Redis   *)
(* has recorded its tracking, and the token that it releases is never that *)
(* of another chunk.  Not so when a reply is lost (run frames_lost_reply). *)
THEOREM FramesKept == FaultSpec => []FramesUntilTracked
<1>1. RefInv => FramesUntilTracked
  BY DEF RefInv, References, FramesUntilTracked
<1> QED
  BY RefInit, RefStep, FaultSpecImplies, Invariance, <1>1, PTL DEF FaultSpec

-----------------------------------------------------------------------------
(* Slots that are given back.                                              *)
LossIndices == {i \in DOMAIN faults : faults[i] = "loss"}

LEMMA LossesType == TypeOK => IsFiniteSet(LossIndices) /\ Losses \in Nat
<1> SUFFICES ASSUME TypeOK PROVE IsFiniteSet(LossIndices) /\ Losses \in Nat
  OBVIOUS
<1>1. faults \in Seq(FaultKind) /\ Len(faults) \in Nat
  BY DEF TypeOK
<1>2. LossIndices \subseteq 1..Len(faults)
  BY <1>1 DEF LossIndices
<1>3. IsFiniteSet(1..Len(faults))
  BY <1>1, FS_Interval
<1>4. IsFiniteSet(LossIndices)
  BY <1>2, <1>3, FS_Subset
<1> QED
  BY <1>4, FS_CardinalityType DEF Losses, LossIndices

(* A loss is counted, another fault is not.                                *)
LEMMA LossCounted ==
  ASSUME TypeOK, TypeOK', NEW kind \in FaultKind, Fault(kind)
  PROVE  Losses' = IF kind = "loss" THEN Losses + 1 ELSE Losses
<1> DEFINE n == Len(faults) + 1
<1>1. faults \in Seq(FaultKind) /\ faults' = Append(faults, kind) /\ Len(faults) \in Nat
  BY DEF TypeOK, Fault
<1>2. /\ DOMAIN faults = 1..Len(faults) /\ DOMAIN faults' = 1..n
      /\ \A i \in 1..Len(faults) : faults'[i] = faults[i]
      /\ faults'[n] = kind
  BY <1>1
<1>3. \A i : i \in 1..n <=> i \in 1..Len(faults) \/ i = n
  BY <1>1
<1>4. n \notin LossIndices /\ LossIndices \subseteq 1..Len(faults)
  BY <1>1, <1>2 DEF LossIndices
<1> HIDE DEF n
<1>5. LossIndices' = LossIndices \cup (IF kind = "loss" THEN {n} ELSE {})
  BY <1>2, <1>3 DEF LossIndices
<1>6. Losses = Cardinality(LossIndices) /\ Losses' = Cardinality(LossIndices')
  BY DEF Losses, LossIndices
<1>7. CASE kind = "loss"
  <2>1. LossIndices' = LossIndices \cup {n}
    BY <1>5, <1>7
  <2>2. Cardinality(LossIndices \cup {n}) = Cardinality(LossIndices) + 1
    BY <1>4, LossesType, FS_AddElement
  <2> QED
    BY <1>6, <1>7, <2>1, <2>2
<1>8. CASE kind # "loss"
  <2>1. LossIndices' = LossIndices
    BY <1>5, <1>8
  <2> QED
    BY <1>6, <1>8, <2>1
<1> QED
  BY <1>7, <1>8

LEMMA LossesGrow ==
  ASSUME TypeOK, TypeOK', [Next]_vars
  PROVE  Losses \in Nat /\ Losses' \in Nat /\ Losses <= Losses'
<1>1. Losses \in Nat
  BY LossesType
<1>2. CASE UNCHANGED faults
  BY <1>1, <1>2 DEF Losses
<1>3. ASSUME NEW kind \in FaultKind, Fault(kind) PROVE Losses' \in Nat /\ Losses <= Losses'
  BY <1>1, <1>3, LossCounted
<1> QED
  BY <1>1, <1>2, <1>3, FaultStep

(* A step after which some tokens of w may have gone astray.               *)
MayStray(w, T) ==
  /\ ToSet(object_ref[w]) \subseteq ToSet(object_ref'[w])
  /\ \A token \in Known' \ (Known \cup T) :
       token.video = w => token \in ToSet(object_ref'[w]) \cup InHand(w)'
  /\ \A token \in InHand(w) \cap Known' :
       token \in ToSet(object_ref'[w]) \cup InHand(w)' \cup T

LEMMA FewKept ==
  ASSUME TypeOK, TypeOK', [Next]_vars, NEW w \in Videos, Few(w), MayStray(w, {})
  PROVE  Few(w)'
<1>1. Stray(w)' \subseteq Stray(w)
  BY DEF Stray, MayStray
<1>2. IsFiniteSet(Stray(w)) /\ Cardinality(Stray(w)) <= Losses
  BY DEF Few
<1>3. /\ IsFiniteSet(Stray(w)') /\ Cardinality(Stray(w)') <= Cardinality(Stray(w))
      /\ Cardinality(Stray(w)) \in Nat /\ Cardinality(Stray(w)') \in Nat
  BY <1>1, <1>2, FS_Subset, FS_CardinalityType
<1> QED
  BY <1>2, <1>3, LossesGrow DEF Few

LEMMA FewLost ==
  ASSUME TypeOK, TypeOK', NEW w \in Videos, Few(w), Fault("loss"), NEW token,
         MayStray(w, {token})
  PROVE  Few(w)'
<1>1. Stray(w)' \subseteq Stray(w) \cup {token}
  BY DEF Stray, MayStray
<1>2. IsFiniteSet(Stray(w)) /\ Cardinality(Stray(w)) <= Losses /\ Losses \in Nat
  BY LossesType DEF Few
<1>3. /\ IsFiniteSet(Stray(w) \cup {token})
      /\ Cardinality(Stray(w) \cup {token}) <= Cardinality(Stray(w)) + 1
      /\ Cardinality(Stray(w)) \in Nat
  <2>1. Cardinality(Stray(w)) \in Nat
    BY <1>2, FS_CardinalityType
  <2> QED
    BY <1>2, <2>1, FS_AddElement
<1>4. /\ IsFiniteSet(Stray(w)')
      /\ Cardinality(Stray(w)') <= Cardinality(Stray(w) \cup {token})
      /\ Cardinality(Stray(w)') \in Nat /\ Cardinality(Stray(w) \cup {token}) \in Nat
  BY <1>1, <1>3, FS_Subset, FS_CardinalityType
<1>5. Losses' = Losses + 1
  BY LossCounted DEF FaultKind
<1> QED
  BY <1>2, <1>3, <1>4, <1>5 DEF Few

LEMMA LossInit == Init => LossInv
<1> SUFFICES ASSUME Init, NEW v \in Videos PROVE Few(v)
  BY DEF LossInv
<1>1. Stray(v) = {}
  BY DEF Init, Stray, Known
<1>2. Losses \in Nat
  BY InitInv, LossesType DEF IndInv
<1> QED
  BY <1>1, <1>2, FS_EmptySet DEF Few

LEMMA LossStep == IndInv /\ IndInv' /\ LossInv /\ [Next]_vars => LossInv'
<1> SUFFICES ASSUME IndInv, IndInv', LossInv, [Next]_vars, NEW w \in Videos
             PROVE  Few(w)'
  BY DEF LossInv
<1> USE DEF registryVars, taskVars, handlerVars
<1>0. /\ TypeOK /\ TypeOK' /\ Few(w) /\ Alone(w) /\ local[w] \in Locals
      /\ object_ref[w] \in Seq(Token)
  BY LocalsType, RefType DEF IndInv, LossInv, TokenInv
<1>1. ASSUME MayStray(w, {}) PROVE Few(w)'
  BY <1>0, <1>1, FewKept
<1>2. ASSUME Fault("loss"), NEW token, MayStray(w, {token}) PROVE Few(w)'
  BY <1>0, <1>2, FewLost
<1>3. ASSUME NEW v \in Videos, v # w,
             Ingest(v) \/ Downstream(v) \/ HandlerFault(v) \/ PublishReplyLost(v)
      PROVE  MayStray(w, {})
  <2>1. local'[w] = local[w] /\ pc'[w] = pc[w] /\ object_ref'[w] = object_ref[w]
    <3>0. TypeOK
      BY <1>0
    <3>1. local'[w] = local[w] /\ pc'[w] = pc[w]
      BY SMTT(30), <3>0, <1>3
      DEF Ingest, Start, Poll, ReleaseNext, FillDecides, DrainDecides, Reserve, Register, Publish,
          GiveBack, Mark, Cleanup, Downstream, Track, TrackFails, Aggregate, HandlerFault,
          TaskFails, Stall, IngestFails, Interrupted, ReserveLost, PutRejected, RegisterReplyLost,
          CancelFails,
          PutTimesOut, PublishFails, GiveBackFails, PublishReplyLost, PutFailed, Goto,
          TypeOK
    <3>2. ASSUME Publish(v) \/ PublishReplyLost(v) PROVE object_ref'[w] = object_ref[w]
      BY <3>0, <1>3, <3>2 DEF Publish, PublishReplyLost, Record, TypeOK
    <3>3. ASSUME ~(Publish(v) \/ PublishReplyLost(v)) PROVE object_ref' = object_ref
      BY <1>3, <3>3
      DEF Ingest, Start, Poll, ReleaseNext, FillDecides, DrainDecides, Reserve, Register, Publish,
          GiveBack, Mark, Cleanup, Downstream, Track, TrackFails, Aggregate, HandlerFault,
          TaskFails, Stall, IngestFails, Interrupted, ReserveLost, PutRejected, RegisterReplyLost,
          CancelFails,
          PutTimesOut, PublishFails, GiveBackFails, PublishReplyLost
    <3> QED
      BY <3>1, <3>2, <3>3
  <2>2. InHand(w)' = InHand(w)
    BY <2>1 DEF InHand, Current
  <2>3. Known' \subseteq Known \cup {Current(v), New(v)}
    BY <1>3
    DEF Ingest, Start, Poll, ReleaseNext, FillDecides, DrainDecides, Reserve, Register, Publish,
        GiveBack, Mark, Cleanup, Downstream, Track, TrackFails, Aggregate, HandlerFault,
        TaskFails, Stall, IngestFails, Interrupted, ReserveLost, PutRejected, RegisterReplyLost,
        CancelFails,
        PutTimesOut, PublishFails, GiveBackFails, PublishReplyLost, Release, Known
  <2> QED
    BY <1>3, <2>1, <2>2, <2>3 DEF MayStray, Current, New
<1>4. CASE Reserve(w) /\ HasSlot
  <2>1. /\ local'[w] = [local[w] EXCEPT !.nr = minted[w] + 1]
        /\ pc[w] = "reserve" /\ pc'[w] = "register" /\ object_ref' = object_ref
        /\ Known' = Known \cup {New(w)}
    BY <1>0, <1>4 DEF Reserve, Goto, TypeOK, Known
  <2>2. local'[w].nr = minted[w] + 1
    BY <1>0, <2>1 DEF Locals
  <2>3. InHand(w)' = {New(w)} /\ InHand(w) = {}
    BY <2>1, <2>2 DEF InHand, Holding, Current, New
  <2> QED
    BY <1>1, <2>1, <2>3 DEF MayStray
<1>5. CASE Register(w)
  <2>1. /\ local'[w] = [local[w] EXCEPT !.tries = 0]
        /\ pc[w] = "register" /\ pc'[w] = "publish" /\ object_ref' = object_ref
        /\ Known' = Known \cup {Current(w)}
    BY <1>0, <1>5 DEF Register, Goto, TypeOK, Known
  <2>2. InHand(w)' = {Current(w)} /\ InHand(w) = {Current(w)}
    BY <1>0, <2>1 DEF InHand, Holding, Current, Locals
  <2> QED
    BY <1>1, <2>1, <2>2 DEF MayStray
<1>6. CASE Publish(w) \/ PublishReplyLost(w)
  <2>1. /\ object_ref'[w] = Append(object_ref[w], Current(w))
        /\ pc[w] = "publish" /\ Known' = Known
    BY <1>0, <1>6 DEF Publish, PublishReplyLost, Record, TypeOK, Known
  <2>2. /\ \A i \in 1..Len(object_ref[w]) : object_ref'[w][i] = object_ref[w][i]
        /\ object_ref'[w][Len(object_ref[w]) + 1] = Current(w)
        /\ DOMAIN object_ref[w] = 1..Len(object_ref[w])
        /\ DOMAIN object_ref'[w] = 1..(Len(object_ref[w]) + 1)
        /\ Len(object_ref[w]) \in Nat
    BY <1>0, <2>1
  <2>3. ToSet(object_ref[w]) \subseteq ToSet(object_ref'[w]) /\ Current(w) \in ToSet(object_ref'[w])
    BY <2>2 DEF ToSet
  <2>4. InHand(w) = {Current(w)}
    BY <2>1 DEF InHand, Holding
  <2> QED
    BY <1>1, <2>1, <2>3, <2>4 DEF MayStray
<1>7. CASE GiveBack(w)
  <2>1. /\ pc[w] = "give_back" /\ object_ref' = object_ref
        /\ Known' \subseteq Known /\ Current(w) \notin Known'
    BY <1>0, <1>7 DEF GiveBack, Release, Known, Alone, Holding
  <2>2. InHand(w) = {Current(w)}
    BY <2>1 DEF InHand, Holding
  <2> QED
    BY <1>1, <2>1, <2>2 DEF MayStray
<1>8. CASE PutRejected(w)
  <2>1. /\ pc[w] = "register" /\ object_ref' = object_ref
        /\ Known' \subseteq Known /\ Current(w) \notin Known'
    BY <1>0, <1>8 DEF PutRejected, Known, Alone, Holding
  <2>2. InHand(w) = {Current(w)}
    BY <2>1 DEF InHand, Holding
  <2> QED
    BY <1>1, <2>1, <2>2 DEF MayStray
<1>9. CASE PublishFails(w) \/ Downstream(w) \/ TaskFails(w)
  <2>1. UNCHANGED <<registryVars, object_ref, local>>
    BY <1>9 DEF PublishFails, Downstream, Track, TrackFails, Aggregate, TaskFails
  <2>2. pc'[w] = pc[w] \/ (pc[w] = "publish" /\ pc'[w] = "give_back")
    BY <1>0, <1>9 DEF PublishFails, Downstream, Track, TrackFails, Aggregate, TaskFails, Goto, TypeOK
  <2>3. InHand(w)' = InHand(w)
    BY <2>1, <2>2 DEF InHand, Holding, Current
  <2> QED
    BY <1>1, <2>1, <2>3 DEF MayStray, Known
<1>10. CASE \/ Start(w) \/ Poll(w) \/ ReleaseNext(w) \/ FillDecides(w) \/ DrainDecides(w)
            \/ (Reserve(w) /\ ~HasSlot) \/ Mark(w) \/ Cleanup(w) \/ Stall(w) \/ IngestFails(w)
            \/ Interrupted(w)
  <2>1. /\ pc[w] \notin Holding /\ object_ref' = object_ref /\ Known' \subseteq Known
    BY <1>10
    DEF Start, Poll, ReleaseNext, FillDecides, DrainDecides, Reserve, Mark, Cleanup, Stall,
        IngestFails, Interrupted, Release, Known, Holding
  <2> QED
    BY <1>1, <2>1 DEF MayStray, InHand
<1>11. CASE ReserveLost(w)
  <2>1. /\ pc[w] \notin Holding /\ object_ref' = object_ref /\ Fault("loss")
        /\ Known' = Known \cup {New(w)}
    BY <1>11 DEF ReserveLost, Known, Holding
  <2> QED
    BY <1>2, <2>1 DEF MayStray, InHand
<1>12. CASE RegisterReplyLost(w) \/ CancelFails(w) \/ PutTimesOut(w) \/ GiveBackFails(w)
  <2>1. /\ object_ref' = object_ref /\ Fault("loss")
        /\ Known' \subseteq Known \cup {Current(w)}
    BY <1>12 DEF RegisterReplyLost, CancelFails, PutTimesOut, GiveBackFails, Known
  <2> QED
    BY <1>2, <2>1 DEF MayStray, InHand
<1>13. CASE Crash
  <2> DEFINE token == IF pc[w] = "reserve" THEN New(w) ELSE Current(w)
  <2>1. /\ object_ref' = object_ref /\ Fault("loss")
        /\ Known' = Known \cup {New(v) : v \in {u \in Videos : pc[u] = "reserve"}}
                          \cup {Current(v) : v \in {u \in Videos : pc[u] = "register"}}
    BY <1>13 DEF Crash, Known
  <2>2. \A v \in Videos : New(v).video = v /\ Current(v).video = v
    BY DEF New, Current
  <2>3. MayStray(w, {token})
    <3>1. \A t \in Known' \ Known : t.video = w => t = token
      BY <2>1, <2>2
    <3>2. InHand(w) \subseteq {token}
      BY DEF InHand, Holding
    <3> HIDE DEF token
    <3> QED
      BY <2>1, <3>1, <3>2 DEF MayStray
  <2> QED
    BY <1>2, <2>1, <2>3
<1>14. ASSUME NEW token, \/ token \in asked /\ LateReserve(token)
                         \/ token \in late /\ LateRegister(token)
       PROVE  MayStray(w, {})
  <2>1. Known' \subseteq Known /\ UNCHANGED <<object_ref, pc, local>>
    BY <1>14 DEF LateReserve, LateRegister, Known
  <2> QED
    BY <2>1 DEF MayStray, InHand, Current
<1>15. CASE RegistryRestarts
  <2>1. Known' \subseteq Known /\ UNCHANGED <<object_ref, pc, local>>
    BY <1>15 DEF RegistryRestarts, Known
  <2> QED
    BY <1>1, <2>1 DEF MayStray, InHand, Current
<1>16. CASE UNCHANGED vars
  <2>1. UNCHANGED Known /\ UNCHANGED <<object_ref, pc, local>>
    BY <1>16 DEF vars, Known
  <2> QED
    BY <1>1, <2>1 DEF MayStray, InHand, Current
<1> QED
  BY <1>1, <1>3, <1>4, <1>5, <1>6, <1>7, <1>8, <1>9, <1>10, <1>11, <1>12, <1>13, <1>14,
     <1>15, <1>16
  DEF Next, FaultNext, WorkNext, Ingest, HandlerFault

(* _put_frames_with_retry and the finally clause of _process_task: of each *)
(* video as many slots are lost as calls were given up, replies to         *)
(* register were lost, cancellations or releases failed or ingest stopped, *)
(* for any number of videos and attempts.                                  *)
THEOREM SlotsGivenBack == Spec => []NoSlotLost
<1>1. IndInv /\ LossInv => NoSlotLost
  <2> SUFFICES ASSUME IndInv, LossInv, NEW v \in Videos PROVE Cardinality(Astray(v)) <= Losses
    BY DEF NoSlotLost
  <2>1. IsFiniteSet(Stray(v)) /\ Cardinality(Stray(v)) <= Losses
    BY DEF LossInv, Few
  <2>2. Astray(v) \subseteq Stray(v)
    BY DEF Astray, HeldBy, Stray, Known
  <2>3. /\ Cardinality(Astray(v)) <= Cardinality(Stray(v)) /\ Losses \in Nat
        /\ Cardinality(Stray(v)) \in Nat /\ Cardinality(Astray(v)) \in Nat
    BY <2>1, <2>2, FS_Subset, FS_CardinalityType, LossesType DEF IndInv
  <2> QED
    BY <2>1, <2>3
<1> QED
  BY LossInit, LossStep, Invariance, <1>1, PTL DEF Spec

=============================================================================
