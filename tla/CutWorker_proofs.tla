-------------------------- MODULE CutWorker_proofs --------------------------
(***************************************************************************)
(* What holds of the cut worker for any layouts, any number of             *)
(* transitions, and any number of faults: a chunk has one result, scene    *)
(* numbers grow along the video and change where a reported transition     *)
(* ends, the aggregated scenes cover the video, and a transition is        *)
(* reported once, with its exact frames.                                   *)
(*                                                                         *)
(* First the arithmetic of a layout, then the scenes of one chunk, then    *)
(* those of several, then what the ownership rules can return, then the    *)
(* invariant and its steps; last, which part of a transition each chunk    *)
(* reports, and what is pending at its boundaries.                         *)
(***************************************************************************)
EXTENDS CutWorker, FiniteSetTheorems, WellFoundedInduction, TLAPS

(* Every set of natural numbers has a least element, and a greatest one if *)
(* it is bounded.                                                          *)
LEMMA LeastOf ==
  ASSUME NEW S, S \subseteq Nat, S # {}
  PROVE  Min(S) \in S /\ \A x \in S : Min(S) <= x
<1> DEFINE R == OpToRel(<, Nat)
<1>1. IsWellFoundedOn(R, Nat)
  BY NatLessThanWellFounded
<1>2. \E x \in S : \A y \in S : ~ (<<y, x>> \in R)
  <2> HIDE DEF R
  <2> QED BY <1>1, WFMin
<1>3. \A x, y \in Nat : <<y, x>> \in R <=> y < x
  BY DEF OpToRel
<1>4. \E x \in S : \A y \in S : x <= y
  <2>1. PICK x \in S : \A y \in S : ~ (<<y, x>> \in R)
    BY <1>2
  <2> HIDE DEF R
  <2>2. \A y \in S : ~ (y < x)
    BY <1>3, <2>1
  <2> QED BY <2>2
<1> QED BY <1>4 DEF Min

LEMMA GreatestOf ==
  ASSUME NEW S, S \subseteq Nat, S # {}, NEW n \in Nat, \A x \in S : x <= n
  PROVE  Max(S) \in S /\ \A x \in S : x <= Max(S)
<1> DEFINE T == {n - x : x \in S}
<1>1. Min(T) \in T /\ \A y \in T : Min(T) <= y
  <2>1. \A x \in S : n - x \in Nat
    OBVIOUS
  <2>2. T \subseteq Nat /\ T # {}
    BY <2>1
  <2> HIDE DEF T
  <2> QED BY <2>2, LeastOf
<1>2. PICK x \in S : Min(T) = n - x
  BY <1>1
<1>3. \A y \in S : x >= y
  <2> TAKE y \in S
  <2>1. n - x <= n - y
    BY <1>1, <1>2
  <2> QED BY <2>1
<1>4. \E z \in S : \A y \in S : z >= y
  BY <1>3
<1> QED BY <1>4 DEF Max

-----------------------------------------------------------------------------
(* Min and Max of two numbers, for the arithmetic of the layout.           *)
LEMMA MinOfPair ==
  ASSUME NEW a \in Int, NEW b \in Int
  PROVE  Min({a, b}) = IF a <= b THEN a ELSE b
BY DEF Min

LEMMA MaxOfPair ==
  ASSUME NEW a \in Int, NEW b \in Int
  PROVE  Max({a, b}) = IF a >= b THEN a ELSE b
BY DEF Max

(* The chunks of a layout: none is empty, each begins where the one before *)
(* ends, and the last one ends with the video.                             *)
LEMMA ChunkBounds ==
  ASSUME NEW l \in Layouts, NEW c \in 0..(TotalChunks(l) - 1)
  PROVE  /\ l.frames \in Nat /\ TotalChunks(l) \in Nat
         /\ ValidStart(l, c) \in Nat /\ ValidEnd(l, c) \in Nat
         /\ ContextStart(l, c) \in Nat /\ ContextEnd(l, c) = ValidEnd(l, c)
         /\ c = 0 => ValidStart(l, c) = 0
         /\ ValidStart(l, c) <= ValidEnd(l, c) /\ ValidEnd(l, c) <= l.frames - 1
         /\ c + 1 < TotalChunks(l) => ValidStart(l, c + 1) = ValidEnd(l, c) + 1
         /\ c = TotalChunks(l) - 1 => ValidEnd(l, c) = l.frames - 1
<1>1. l.frames \in Nat \ {0} /\ l.size \in Nat \ {0} /\ l.overlap \in Nat
  BY LayoutsAssumption
<1> DEFINE n == TotalChunks(l)
           p == c * l.size
           t == n * l.size
<1>2. n \in Int /\ t <= l.frames + l.size - 1 /\ l.frames + l.size - 1 < t + l.size
  BY <1>1 DEF TotalChunks
<1>3. c \in Nat /\ c <= n - 1 /\ n \in Nat
  BY <1>2
<1>4. p \in Nat /\ t \in Int
  BY <1>1, <1>3
<1>5. p + l.size <= t /\ (c = n - 1 => p + l.size = t)
  <2> HIDE DEF n
  <2>1. (c + 1) * l.size <= n * l.size
    BY <1>1, <1>3
  <2>2. c * l.size + l.size <= n * l.size
    BY <1>1, <1>3, <2>1
  <2>3. c = n - 1 => c * l.size + l.size = n * l.size
    BY <1>1, <1>3
  <2> QED BY <2>2, <2>3
<1>6. c + 1 < n => p + l.size + l.size <= t
  <2> HIDE DEF n
  <2>1. c + 1 < n => (c + 2) * l.size <= n * l.size
    BY <1>1, <1>3
  <2> QED BY <1>1, <1>3, <2>1
<1>7. ValidStart(l, c) = p /\ ValidStart(l, c + 1) = p + l.size
  BY <1>1, <1>3 DEF ValidStart
<1>8. c = 0 => p = 0
  BY <1>1
<1> HIDE DEF n, p, t
<1>9. ValidEnd(l, c) = IF p + l.size <= l.frames THEN p + l.size - 1 ELSE l.frames - 1
  <2>1. Min({p + l.size, l.frames}) = IF p + l.size <= l.frames THEN p + l.size ELSE l.frames
    BY <1>1, <1>4, MinOfPair
  <2>2. ValidEnd(l, c) = Min({p + l.size, l.frames}) - 1
    BY <1>7 DEF ValidEnd
  <2> QED BY <1>1, <1>4, <2>1, <2>2
<1>10. ContextStart(l, c) \in Nat
  <2>1. p - l.overlap \in Int
    BY <1>1, <1>4
  <2> QED BY <1>7, <2>1, MaxOfPair DEF ContextStart
<1>11. ContextEnd(l, c) = ValidEnd(l, c)
  BY DEF ContextEnd
<1>12. ValidEnd(l, c) \in Nat /\ p <= ValidEnd(l, c) /\ ValidEnd(l, c) <= l.frames - 1
  BY <1>1, <1>2, <1>4, <1>5, <1>9
<1>13. c + 1 < n => p + l.size = ValidEnd(l, c) + 1
  BY <1>1, <1>2, <1>4, <1>6, <1>9
<1>14. c = n - 1 => ValidEnd(l, c) = l.frames - 1
  BY <1>1, <1>2, <1>4, <1>5, <1>9
<1> QED
  BY <1>1, <1>3, <1>4, <1>7, <1>8, <1>10, <1>11, <1>12, <1>13, <1>14 DEF n

(* The valid ranges of the chunks lie one after the other ...              *)
LEMMA ChunkOrder ==
  ASSUME NEW l \in Layouts, NEW c \in 0..(TotalChunks(l) - 1),
         NEW d \in 0..(TotalChunks(l) - 1), c < d
  PROVE  ValidEnd(l, c) < ValidStart(l, d)
<1>1. l.frames \in Nat \ {0} /\ l.size \in Nat \ {0}
  BY LayoutsAssumption
<1>2. c \in Nat /\ d \in Nat
  OBVIOUS
<1>3. (c + 1) * l.size <= d * l.size
  BY <1>1, <1>2
<1> DEFINE p == c * l.size
           q == d * l.size
<1>4. p + l.size <= q /\ p \in Nat /\ q \in Nat
  BY <1>1, <1>2, <1>3
<1>5. ValidStart(l, c) = p /\ ValidStart(l, d) = q
  BY DEF ValidStart
<1> HIDE DEF p, q
<1>6. Min({p + l.size, l.frames}) <= p + l.size
      /\ Min({p + l.size, l.frames}) \in Int
  BY <1>1, <1>4, MinOfPair
<1>7. ValidEnd(l, c) = Min({p + l.size, l.frames}) - 1
  BY <1>5 DEF ValidEnd
<1>8. l.size \in Nat
  BY <1>1
<1> QED BY <1>4, <1>5, <1>6, <1>7, <1>8

(* ... and hold every frame.                                               *)
LEMMA ChunkOfFrame ==
  ASSUME NEW l \in Layouts, NEW f \in 0..(l.frames - 1)
  PROVE  \E c \in 0..(TotalChunks(l) - 1) : ValidStart(l, c) <= f /\ f <= ValidEnd(l, c)
<1>1. l.frames \in Nat \ {0} /\ l.size \in Nat \ {0} /\ f \in Nat
  BY LayoutsAssumption
<1> DEFINE c == f \div l.size
           n == TotalChunks(l)
           p == c * l.size
           t == n * l.size
<1>2. c \in Nat /\ p <= f /\ f < p + l.size
  BY <1>1
<1>3. n \in Int /\ l.frames + l.size - 1 < t + l.size
  BY <1>1 DEF TotalChunks
<1> HIDE DEF n
<1>4. c < n
  <2> SUFFICES ASSUME n <= c PROVE FALSE
    BY <1>2, <1>3
  <2>1. t <= p
    <3> HIDE DEF c
    <3> QED BY <1>1, <1>2, <1>3
  <2>2. p \in Int /\ t \in Int
    BY <1>1, <1>2, <1>3
  <2> HIDE DEF p, t
  <2> QED BY <1>1, <1>2, <1>3, <2>1, <2>2
<1>5. ValidStart(l, c) = p
  BY DEF ValidStart
<1>6. p \in Nat
  BY <1>1, <1>2
<1> HIDE DEF c, p
<1>7. Min({p + l.size, l.frames}) = IF p + l.size <= l.frames THEN p + l.size ELSE l.frames
  BY <1>1, <1>6, MinOfPair
<1>8. f <= ValidEnd(l, c)
  BY <1>1, <1>2, <1>5, <1>6, <1>7 DEF ValidEnd
<1>9. c \in 0..(n - 1)
  BY <1>2, <1>3, <1>4
<1> QED BY <1>2, <1>5, <1>8, <1>9 DEF n

-----------------------------------------------------------------------------
(***************************************************************************)
(* build_cut_result: the scenes of a chunk cover it, and the number of the *)
(* scene of a frame counts the transitions that ended before the frame.    *)
(***************************************************************************)
Ended(S, f) == {t \in S : t.end < f}

OwnedBy(c, S) ==
  /\ IsFiniteSet(S)
  /\ \A t \in S : /\ t.start \in Nat /\ t.end \in Nat
                  /\ ValidStart(layout, c) - 1 <= t.end /\ t.end <= ValidEnd(layout, c)

FirstFrame(c, E) == Max({ValidStart(layout, c)} \cup {t.end + 1 : t \in E})

(* The frame with which the scene after the transitions E begins.          *)
LEMMA FirstFrameBounds ==
  ASSUME layout \in Layouts, NEW c \in Chunks, NEW S, OwnedBy(c, S), NEW E, E \subseteq S
  PROVE  /\ FirstFrame(c, E) \in Nat
         /\ ValidStart(layout, c) <= FirstFrame(c, E)
         /\ \A t \in E : t.end < FirstFrame(c, E)
         /\ \A f \in Nat : ValidStart(layout, c) <= f /\ (\A t \in E : t.end < f)
                             => FirstFrame(c, E) <= f
<1> DEFINE M == {ValidStart(layout, c)} \cup {t.end + 1 : t \in E}
<1>1. ValidStart(layout, c) \in Nat /\ ValidEnd(layout, c) \in Nat
      /\ ValidStart(layout, c) <= ValidEnd(layout, c) + 1
  BY ChunkBounds DEF Chunks
<1>2. \A t \in E : t.end \in Nat /\ t.end + 1 <= ValidEnd(layout, c) + 1
  BY <1>1 DEF OwnedBy
<1>3. M \subseteq Nat /\ M # {} /\ \A x \in M : x <= ValidEnd(layout, c) + 1
  BY <1>1, <1>2
<1>4. Max(M) \in M /\ \A x \in M : x <= Max(M)
  <2> HIDE DEF M
  <2>1. ValidEnd(layout, c) + 1 \in Nat
    BY <1>1
  <2> QED BY <1>3, <2>1, GreatestOf
<1>5. FirstFrame(c, E) = Max(M)
  BY DEF FirstFrame
<1>6. Max(M) \in Nat
  <2> HIDE DEF M
  <2> QED BY <1>3, <1>4
<1>7. ValidStart(layout, c) <= Max(M) /\ \A t \in E : t.end + 1 <= Max(M)
  BY <1>4
<1>8. ASSUME NEW f \in Nat, ValidStart(layout, c) <= f, \A t \in E : t.end < f
      PROVE  Max(M) <= f
  <2>1. \A x \in M : x <= f
    BY <1>2, <1>8
  <2> HIDE DEF M
  <2> QED BY <1>4, <2>1
<1> HIDE DEF M
<1> QED BY <1>2, <1>5, <1>6, <1>7, <1>8

(* The transition with which the scene of a frame ends.                    *)
LEMMA NextEnd ==
  ASSUME NEW S, \A t \in S : t.start \in Nat /\ t.end \in Nat,
         NEW f \in Nat, Ended(S, f) # S
  PROVE  \E t \in S : f <= t.end /\ {u \in S : Before(u, t)} = Ended(S, f)
<1> DEFINE T == S \ Ended(S, f)
           e == Min({t.end : t \in T})
           U == {t \in T : t.end = e}
           b == Min({t.start : t \in U})
<1>1. T # {} /\ \A t \in T : t \in S /\ f <= t.end
  BY DEF Ended
<1>2. e \in {t.end : t \in T} /\ \A t \in T : e <= t.end
  <2> DEFINE A == {t.end : t \in T}
  <2>1. A \subseteq Nat /\ A # {}
    BY <1>1
  <2> HIDE DEF A
  <2>2. Min(A) \in A /\ \A x \in A : Min(A) <= x
    BY <2>1, LeastOf
  <2> QED BY <2>2 DEF A
<1> HIDE DEF e
<1>3. U # {} /\ e \in Nat
  BY <1>1, <1>2
<1>4. b \in {t.start : t \in U} /\ \A t \in U : b <= t.start
  <2> DEFINE A == {t.start : t \in U}
  <2>1. A \subseteq Nat /\ A # {}
    BY <1>1, <1>3
  <2> HIDE DEF A
  <2>2. Min(A) \in A /\ \A x \in A : Min(A) <= x
    BY <2>1, LeastOf
  <2> QED BY <2>2 DEF A
<1> HIDE DEF b
<1>5. PICK t \in U : t.start = b
  BY <1>4
<1>6. t \in S /\ t.end = e /\ f <= t.end
  BY <1>1, <1>5
<1>7. ASSUME NEW u \in S PROVE Before(u, t) <=> u.end < f
  <2>1. CASE u.end < f
    BY <1>6, <2>1 DEF Before
  <2>2. CASE ~(u.end < f)
    <3>1. u \in T
      BY <2>2 DEF Ended
    <3>2. e <= u.end /\ (u.end = e => b <= u.start)
      BY <1>2, <1>4, <3>1
    <3> QED BY <1>5, <1>6, <2>2, <3>2 DEF Before
  <2> QED BY <2>1, <2>2
<1> QED BY <1>6, <1>7 DEF Ended

(* How many transitions have ended before a frame.                         *)
LEMMA EndedBounds ==
  ASSUME NEW S, IsFiniteSet(S), \A t \in S : t.end \in Nat,
         NEW f \in Nat, NEW g \in Nat, f <= g
  PROVE  /\ Cardinality(S) \in Nat
         /\ Cardinality(Ended(S, f)) \in Nat /\ Cardinality(Ended(S, g)) \in Nat
         /\ Cardinality(Ended(S, f)) <= Cardinality(Ended(S, g))
         /\ Cardinality(Ended(S, g)) <= Cardinality(S)
         /\ Cardinality(Ended(S, f)) = Cardinality(Ended(S, g))
              <=> \A t \in S : t.end < g => t.end < f
         /\ Cardinality(Ended(S, f)) = Cardinality(S) <=> \A t \in S : t.end < f
         /\ Cardinality(Ended(S, f)) = 0 <=> \A t \in S : ~(t.end < f)
<1>1. Ended(S, g) \subseteq S /\ Ended(S, f) \subseteq Ended(S, g) /\ Ended(S, f) \subseteq S
  BY DEF Ended
<1>2. /\ IsFiniteSet(Ended(S, g)) /\ Cardinality(Ended(S, g)) <= Cardinality(S)
  BY <1>1, FS_Subset
<1>3. /\ IsFiniteSet(Ended(S, f)) /\ Cardinality(Ended(S, f)) <= Cardinality(Ended(S, g))
      /\ Cardinality(Ended(S, g)) = Cardinality(Ended(S, f)) => Ended(S, g) = Ended(S, f)
  BY <1>1, <1>2, FS_Subset
<1>4. Cardinality(S) = Cardinality(Ended(S, f)) => S = Ended(S, f)
  BY <1>1, FS_Subset
<1>5. Cardinality(Ended(S, f)) = 0 <=> Ended(S, f) = {}
  BY <1>3, FS_EmptySet
<1>6. /\ Cardinality(S) \in Nat /\ Cardinality(Ended(S, f)) \in Nat
      /\ Cardinality(Ended(S, g)) \in Nat
  BY <1>2, <1>3, FS_CardinalityType
<1>7. Ended(S, f) = Ended(S, g) <=> \A t \in S : t.end < g => t.end < f
  BY DEF Ended
<1>8. Ended(S, f) = S <=> \A t \in S : t.end < f
  BY DEF Ended
<1>9. Ended(S, f) = {} <=> \A t \in S : ~(t.end < f)
  BY DEF Ended
<1> QED BY <1>2, <1>3, <1>4, <1>5, <1>6, <1>7, <1>8, <1>9

(* What a scene of a chunk is.                                             *)
LEMMA SceneBounds ==
  ASSUME layout \in Layouts, NEW c \in Chunks, NEW S, OwnedBy(c, S),
         NEW n \in Nat, NEW s \in Scenes(c, S, [scene |-> n])
  PROVE  /\ s.nr \in Nat /\ n <= s.nr /\ s.nr <= n + Cardinality(S)
         /\ s.start \in Nat /\ s.end \in Nat /\ s.start <= s.end
         /\ ValidStart(layout, c) <= s.start /\ s.end <= ValidEnd(layout, c)
         /\ Cardinality(S) \in Nat
<1>1. ValidStart(layout, c) \in Nat /\ ValidEnd(layout, c) \in Nat
  BY ChunkBounds DEF Chunks
<1>2. PICK E \in SUBSET S, e \in Nat : /\ e <= ValidEnd(layout, c)
                                      /\ s = SceneAfter(c, E, e, [scene |-> n])
  <2>1. CASE s = SceneAfter(c, S, ValidEnd(layout, c), [scene |-> n])
    BY <1>1, <2>1
  <2>2. ASSUME NEW t \in S, s = SceneAfter(c, {u \in S : Before(u, t)}, t.end, [scene |-> n])
        PROVE  \E E \in SUBSET S, e \in Nat : /\ e <= ValidEnd(layout, c)
                                      /\ s = SceneAfter(c, E, e, [scene |-> n])
    <3>1. {u \in S : Before(u, t)} \in SUBSET S /\ t.end \in Nat
          /\ t.end <= ValidEnd(layout, c)
      BY DEF OwnedBy
    <3> QED BY <2>2, <3>1
  <2> QED BY <2>1, <2>2 DEF Scenes
<1>3. s = [nr |-> n + Cardinality(E), start |-> FirstFrame(c, E), end |-> e]
  BY <1>2 DEF SceneAfter, FirstFrame
<1>4. s.start <= s.end
  BY DEF Scenes
<1>5. FirstFrame(c, E) \in Nat /\ ValidStart(layout, c) <= FirstFrame(c, E)
  BY FirstFrameBounds
<1>6. Cardinality(S) \in Nat /\ Cardinality(E) \in Nat /\ Cardinality(E) <= Cardinality(S)
  BY FS_Subset, FS_CardinalityType DEF OwnedBy
<1> QED BY <1>2, <1>3, <1>4, <1>5, <1>6

(* A scene with a frame, and the transitions before it.                    *)
LEMMA SceneWithFrame ==
  ASSUME layout \in Layouts, NEW c \in Chunks, NEW S, OwnedBy(c, S),
         NEW n \in Nat, NEW s \in Scenes(c, S, [scene |-> n]),
         NEW f \in Nat, s.start <= f, f <= s.end
  PROVE  \E e \in Nat : /\ s = SceneAfter(c, Ended(S, f), e, [scene |-> n])
                        /\ \/ Ended(S, f) = S /\ e = ValidEnd(layout, c)
                           \/ \E t \in S : /\ t.end = e /\ f <= e
                                           /\ {u \in S : Before(u, t)} = Ended(S, f)
<1>1. ValidStart(layout, c) \in Nat /\ ValidEnd(layout, c) \in Nat
  BY ChunkBounds DEF Chunks
<1>2. CASE s = SceneAfter(c, S, ValidEnd(layout, c), [scene |-> n])
  <2>1. s.start = FirstFrame(c, S)
    BY <1>2 DEF SceneAfter, FirstFrame
  <2>2. FirstFrame(c, S) \in Nat /\ \A t \in S : t.end < FirstFrame(c, S)
    BY FirstFrameBounds
  <2>3. \A t \in S : t.end < f
    BY <2>1, <2>2 DEF OwnedBy
  <2>4. Ended(S, f) = S
    BY <2>3 DEF Ended
  <2> QED BY <1>1, <1>2, <2>4
<1>3. ASSUME NEW t \in S, s = SceneAfter(c, {u \in S : Before(u, t)}, t.end, [scene |-> n])
      PROVE  \E e \in Nat : /\ s = SceneAfter(c, Ended(S, f), e, [scene |-> n])
                            /\ \E v \in S : /\ v.end = e /\ f <= e
                                            /\ {u \in S : Before(u, v)} = Ended(S, f)
  <2> DEFINE E == {u \in S : Before(u, t)}
  <2>1. s.start = FirstFrame(c, E) /\ s.end = t.end
    BY <1>3 DEF SceneAfter, FirstFrame
  <2>2. FirstFrame(c, E) \in Nat /\ \A u \in E : u.end < FirstFrame(c, E)
    <3>1. E \subseteq S
      OBVIOUS
    <3> HIDE DEF E
    <3> QED BY <3>1, FirstFrameBounds
  <2>3. t.end \in Nat /\ f <= t.end
    BY <2>1 DEF OwnedBy
  <2>4. \A u \in S : u.end \in Nat
    BY DEF OwnedBy
  <2>5. \A u \in E : u.end < f
    BY <2>1, <2>2, <2>4
  <2>6. \A u \in S : u.end < f => u \in E
    BY <2>3, <2>4 DEF Before
  <2>7. E = Ended(S, f)
    BY <2>5, <2>6 DEF Ended
  <2> QED BY <1>3, <2>3, <2>7
<1> QED BY <1>2, <1>3 DEF Scenes

(* Each frame of a chunk is in exactly one of its scenes, whose number     *)
(* counts the transitions that ended before the frame.                     *)
LEMMA OneSceneOfFrame ==
  ASSUME layout \in Layouts, NEW c \in Chunks, NEW S, OwnedBy(c, S), NEW n \in Nat,
         NEW f \in Nat, ValidStart(layout, c) <= f, f <= ValidEnd(layout, c)
  PROVE  \E s \in Scenes(c, S, [scene |-> n]) :
           /\ s.start <= f /\ f <= s.end /\ s.nr = n + Cardinality(Ended(S, f))
           /\ \A q \in Scenes(c, S, [scene |-> n]) : q.start <= f /\ f <= q.end => q = s
<1> DEFINE st == [scene |-> n]
<1>1. ValidStart(layout, c) \in Nat /\ ValidEnd(layout, c) \in Nat
  BY ChunkBounds DEF Chunks
<1>2. \A t \in S : t.start \in Nat /\ t.end \in Nat /\ t.end <= ValidEnd(layout, c)
  BY DEF OwnedBy
<1>3. Ended(S, f) \subseteq S /\ \A t \in Ended(S, f) : t.end < f
  BY DEF Ended
<1>4. FirstFrame(c, Ended(S, f)) \in Nat /\ FirstFrame(c, Ended(S, f)) <= f
  BY <1>3, FirstFrameBounds
<1>5. PICK e \in Nat : /\ f <= e
                      /\ \/ Ended(S, f) = S /\ e = ValidEnd(layout, c)
                         \/ \E t \in S : /\ t.end = e
                                         /\ {u \in S : Before(u, t)} = Ended(S, f)
  <2>1. CASE Ended(S, f) = S
    BY <1>1, <2>1
  <2>2. CASE Ended(S, f) # S
    BY <1>2, <2>2, NextEnd
  <2> QED BY <2>1, <2>2
<1>6. SceneAfter(c, Ended(S, f), e, st)
      = [nr |-> n + Cardinality(Ended(S, f)), start |-> FirstFrame(c, Ended(S, f)), end |-> e]
  BY DEF SceneAfter, FirstFrame
<1>7. SceneAfter(c, Ended(S, f), e, st) \in Scenes(c, S, st)
  <2>1. SceneAfter(c, Ended(S, f), e, st).start <= SceneAfter(c, Ended(S, f), e, st).end
    BY <1>4, <1>5, <1>6
  <2> HIDE DEF st
  <2>2. CASE Ended(S, f) = S /\ e = ValidEnd(layout, c)
    BY <2>1, <2>2 DEF Scenes
  <2>3. ASSUME NEW t \in S, t.end = e, {u \in S : Before(u, t)} = Ended(S, f)
        PROVE  SceneAfter(c, Ended(S, f), e, st) \in Scenes(c, S, st)
    BY <2>1, <2>3 DEF Scenes
  <2> QED BY <1>5, <2>2, <2>3
<1>8. ASSUME NEW q \in Scenes(c, S, st), q.start <= f, f <= q.end
      PROVE  q = SceneAfter(c, Ended(S, f), e, st)
  <2>1. PICK d \in Nat :
              /\ q = SceneAfter(c, Ended(S, f), d, st)
              /\ \/ Ended(S, f) = S /\ d = ValidEnd(layout, c)
                 \/ \E t \in S : /\ t.end = d /\ f <= d
                                 /\ {u \in S : Before(u, t)} = Ended(S, f)
    BY <1>8, SceneWithFrame
  <2>2. \A t \in S : f <= t.end => t \notin Ended(S, f)
    BY <1>2 DEF Ended
  <2>3. CASE Ended(S, f) = S
    BY <1>5, <2>1, <2>2, <2>3
  <2>4. CASE Ended(S, f) # S
    <3>1. PICK t \in S : t.end = e /\ {u \in S : Before(u, t)} = Ended(S, f)
      BY <1>5, <2>4
    <3>2. PICK v \in S : v.end = d /\ f <= d /\ {u \in S : Before(u, v)} = Ended(S, f)
      BY <2>1, <2>4
    <3>3. ~Before(t, v) /\ ~Before(v, t)
      BY <1>5, <2>2, <3>1, <3>2
    <3>4. d = e
      BY <1>2, <3>1, <3>2, <3>3 DEF Before
    <3> QED BY <2>1, <3>4
  <2> QED BY <2>3, <2>4
<1> DEFINE s == SceneAfter(c, Ended(S, f), e, st)
<1>9. s.start <= f /\ f <= s.end /\ s.nr = n + Cardinality(Ended(S, f))
  BY <1>4, <1>5, <1>6
<1> HIDE DEF s
<1> QED BY <1>7, <1>8, <1>9 DEF s

-----------------------------------------------------------------------------
(***************************************************************************)
(* The results of several chunks.  base[c] is the number with which chunk  *)
(* c was started.                                                          *)
(***************************************************************************)
PiecesOf(R) == UNION {r.scenes : r \in R}

ResultsOf(R, base) ==
  /\ \A r \in R : /\ r.chunk \in Chunks /\ OwnedBy(r.chunk, r.transitions)
                  /\ r = Result(r.chunk, r.transitions, [scene |-> base[r.chunk]])
  /\ \A r, q \in R :
       /\ r.chunk = q.chunk => r = q
       /\ r.chunk < q.chunk => base[r.chunk] + Cardinality(r.transitions) <= base[q.chunk]

(* What a scene of one of the results is.                                  *)
LEMMA PieceBounds ==
  ASSUME layout \in Layouts, NEW R, NEW base \in [Nat -> Nat], ResultsOf(R, base),
         NEW r \in R, NEW p \in r.scenes
  PROVE  /\ r.chunk \in Chunks /\ r.chunk \in Nat /\ base[r.chunk] \in Nat
         /\ p.nr \in Nat /\ base[r.chunk] <= p.nr
         /\ p.nr <= base[r.chunk] + Cardinality(r.transitions)
         /\ p.start \in Nat /\ p.end \in Nat /\ p.start <= p.end
         /\ ValidStart(layout, r.chunk) \in Nat /\ ValidEnd(layout, r.chunk) \in Nat
         /\ ValidStart(layout, r.chunk) <= p.start /\ p.end <= ValidEnd(layout, r.chunk)
         /\ p.end <= layout.frames - 1 /\ layout.frames \in Nat
         /\ Cardinality(r.transitions) \in Nat
<1>1. r.chunk \in Chunks /\ OwnedBy(r.chunk, r.transitions)
      /\ r = Result(r.chunk, r.transitions, [scene |-> base[r.chunk]])
  BY DEF ResultsOf
<1>2. r.scenes = Scenes(r.chunk, r.transitions, [scene |-> base[r.chunk]])
  BY <1>1 DEF Result
<1>3. r.chunk \in Nat /\ base[r.chunk] \in Nat
  BY <1>1 DEF Chunks
<1>4. /\ ValidStart(layout, r.chunk) \in Nat /\ ValidEnd(layout, r.chunk) \in Nat
      /\ layout.frames \in Nat /\ ValidEnd(layout, r.chunk) <= layout.frames - 1
  BY <1>1, ChunkBounds DEF Chunks
<1>5. /\ p.nr \in Nat /\ base[r.chunk] <= p.nr
      /\ p.nr <= base[r.chunk] + Cardinality(r.transitions)
      /\ p.start \in Nat /\ p.end \in Nat /\ p.start <= p.end
      /\ ValidStart(layout, r.chunk) <= p.start /\ p.end <= ValidEnd(layout, r.chunk)
      /\ Cardinality(r.transitions) \in Nat
  BY <1>1, <1>2, <1>3, SceneBounds
<1> QED BY <1>1, <1>3, <1>4, <1>5

(* A frame is in one piece at most, and in one exactly if its chunk is     *)
(* among the results.                                                      *)
OnlyPieceAt(p, f, r, R, base) ==
  /\ p.start <= f /\ f <= p.end
  /\ p.nr = base[r.chunk] + Cardinality(Ended(r.transitions, f))
  /\ \A q \in PiecesOf(R) : q.start <= f /\ f <= q.end => q = p

LEMMA OnePieceOfFrame ==
  ASSUME layout \in Layouts, NEW R, NEW base \in [Nat -> Nat], ResultsOf(R, base),
         NEW r \in R, NEW f \in Nat, InValidRange(r.chunk, f)
  PROVE  \E p \in r.scenes : OnlyPieceAt(p, f, r, R, base)
<1>1. r.chunk \in Chunks /\ OwnedBy(r.chunk, r.transitions) /\ base[r.chunk] \in Nat
      /\ r.scenes = Scenes(r.chunk, r.transitions, [scene |-> base[r.chunk]])
  BY DEF ResultsOf, Result, Chunks
<1>2. PICK p \in r.scenes :
           /\ p.start <= f /\ f <= p.end
           /\ p.nr = base[r.chunk] + Cardinality(Ended(r.transitions, f))
           /\ \A q \in r.scenes : q.start <= f /\ f <= q.end => q = p
  BY <1>1, OneSceneOfFrame DEF InValidRange
<1>3. ASSUME NEW o \in R, NEW q \in o.scenes, q.start <= f, f <= q.end
      PROVE  o = r
  <2>1. /\ o.chunk \in Nat /\ o.chunk \in Chunks
        /\ q.start \in Nat /\ q.end \in Nat
        /\ ValidStart(layout, o.chunk) \in Nat /\ ValidEnd(layout, o.chunk) \in Nat
        /\ ValidStart(layout, o.chunk) <= q.start /\ q.end <= ValidEnd(layout, o.chunk)
    BY <1>3, PieceBounds
  <2>2. /\ ValidStart(layout, r.chunk) \in Nat /\ ValidEnd(layout, r.chunk) \in Nat
        /\ ValidStart(layout, r.chunk) <= f /\ f <= ValidEnd(layout, r.chunk)
        /\ r.chunk \in Nat
    BY <1>1, ChunkBounds DEF Chunks, InValidRange
  <2>3. ~(o.chunk < r.chunk)
    <3>1. o.chunk < r.chunk => ValidEnd(layout, o.chunk) < ValidStart(layout, r.chunk)
      BY <1>1, <2>1, ChunkOrder DEF Chunks
    <3> QED BY <1>3, <2>1, <2>2, <3>1
  <2>4. ~(r.chunk < o.chunk)
    <3>1. r.chunk < o.chunk => ValidEnd(layout, r.chunk) < ValidStart(layout, o.chunk)
      BY <1>1, <2>1, ChunkOrder DEF Chunks
    <3> QED BY <1>3, <2>1, <2>2, <3>1
  <2>5. o.chunk = r.chunk
    BY <2>1, <2>2, <2>3, <2>4
  <2> QED BY <2>5 DEF ResultsOf
<1>4. \A q \in PiecesOf(R) : q.start <= f /\ f <= q.end => q = p
  BY <1>2, <1>3 DEF PiecesOf
<1> QED BY <1>2, <1>4 DEF OnlyPieceAt

(* No two pieces overlap ...                                               *)
LEMMA PiecesApart ==
  ASSUME layout \in Layouts, NEW R, NEW base \in [Nat -> Nat], ResultsOf(R, base),
         NEW p \in PiecesOf(R), NEW q \in PiecesOf(R), p # q
  PROVE  p.end < q.start \/ q.end < p.start
<1>1. PICK r \in R : p \in r.scenes
  BY DEF PiecesOf
<1>2. PICK o \in R : q \in o.scenes
  BY DEF PiecesOf
<1>3. /\ p.start \in Nat /\ p.end \in Nat /\ p.start <= p.end
      /\ ValidStart(layout, r.chunk) <= p.start /\ p.end <= ValidEnd(layout, r.chunk)
      /\ ValidStart(layout, r.chunk) \in Nat /\ ValidEnd(layout, r.chunk) \in Nat
  BY <1>1, PieceBounds
<1>4. /\ q.start \in Nat /\ q.end \in Nat /\ q.start <= q.end
      /\ ValidStart(layout, o.chunk) <= q.start /\ q.end <= ValidEnd(layout, o.chunk)
      /\ ValidStart(layout, o.chunk) \in Nat /\ ValidEnd(layout, o.chunk) \in Nat
  BY <1>2, PieceBounds
<1> SUFFICES ASSUME q.start <= p.end, p.start <= q.end PROVE FALSE
  BY <1>3, <1>4
<1>5. PICK f \in Nat : p.start <= f /\ f <= p.end /\ q.start <= f /\ f <= q.end
  <2>1. CASE p.start <= q.start
    BY <1>3, <1>4, <2>1
  <2>2. CASE q.start <= p.start
    BY <1>3, <1>4, <2>2
  <2> QED BY <1>3, <1>4, <2>1, <2>2
<1>6. InValidRange(r.chunk, f)
  BY <1>3, <1>5 DEF InValidRange
<1>7. PICK x \in r.scenes : OnlyPieceAt(x, f, r, R, base)
  BY <1>6, OnePieceOfFrame
<1> QED BY <1>5, <1>7 DEF OnlyPieceAt

(* ... and a later one has no smaller number.                              *)
LEMMA PieceNumbers ==
  ASSUME layout \in Layouts, NEW R, NEW base \in [Nat -> Nat], ResultsOf(R, base),
         NEW p \in PiecesOf(R), NEW q \in PiecesOf(R), p.end < q.start
  PROVE  p.nr <= q.nr
<1>1. PICK r \in R : p \in r.scenes
  BY DEF PiecesOf
<1>2. PICK o \in R : q \in o.scenes
  BY DEF PiecesOf
<1>3. /\ r.chunk \in Chunks /\ r.chunk \in Nat /\ base[r.chunk] \in Nat
      /\ p.nr \in Nat /\ p.nr <= base[r.chunk] + Cardinality(r.transitions)
      /\ p.start \in Nat /\ p.end \in Nat /\ p.start <= p.end
      /\ ValidStart(layout, r.chunk) \in Nat /\ ValidEnd(layout, r.chunk) \in Nat
      /\ ValidStart(layout, r.chunk) <= p.start /\ p.end <= ValidEnd(layout, r.chunk)
      /\ Cardinality(r.transitions) \in Nat
  BY <1>1, PieceBounds
<1>4. /\ o.chunk \in Chunks /\ o.chunk \in Nat /\ base[o.chunk] \in Nat
      /\ q.nr \in Nat /\ base[o.chunk] <= q.nr
      /\ q.start \in Nat /\ q.end \in Nat /\ q.start <= q.end
      /\ ValidStart(layout, o.chunk) \in Nat /\ ValidEnd(layout, o.chunk) \in Nat
      /\ ValidStart(layout, o.chunk) <= q.start /\ q.end <= ValidEnd(layout, o.chunk)
  BY <1>2, PieceBounds
<1>5. CASE r.chunk < o.chunk
  <2>1. base[r.chunk] + Cardinality(r.transitions) <= base[o.chunk]
    BY <1>5 DEF ResultsOf
  <2> QED BY <1>3, <1>4, <2>1
<1>6. CASE o.chunk < r.chunk
  <2>1. ValidEnd(layout, o.chunk) < ValidStart(layout, r.chunk)
    BY <1>3, <1>4, <1>6, ChunkOrder DEF Chunks
  <2> QED BY <1>3, <1>4, <2>1
<1>7. CASE r.chunk = o.chunk
  <2> DEFINE S == r.transitions
             b == base[r.chunk]
  <2>1. r = o
    BY <1>7 DEF ResultsOf
  <2>2. IsFiniteSet(S) /\ \A t \in S : t.end \in Nat
    BY DEF ResultsOf, OwnedBy
  <2>3. InValidRange(r.chunk, p.end) /\ InValidRange(r.chunk, q.start)
    BY <1>3, <1>4, <2>1 DEF InValidRange
  <2>4. p.nr = b + Cardinality(Ended(S, p.end))
    <3>1. PICK x \in r.scenes : OnlyPieceAt(x, p.end, r, R, base)
      BY <1>3, <2>3, OnePieceOfFrame
    <3>2. p.start <= p.end /\ p.end <= p.end
      BY <1>3
    <3> QED BY <3>1, <3>2 DEF OnlyPieceAt
  <2>5. q.nr = b + Cardinality(Ended(S, q.start))
    <3>1. PICK x \in r.scenes : OnlyPieceAt(x, q.start, r, R, base)
      BY <1>4, <2>3, OnePieceOfFrame
    <3>2. q.start <= q.start /\ q.start <= q.end
      BY <1>4
    <3> QED BY <3>1, <3>2 DEF OnlyPieceAt
  <2> HIDE DEF S, b
  <2>6. /\ Cardinality(Ended(S, p.end)) \in Nat /\ Cardinality(Ended(S, q.start)) \in Nat
        /\ Cardinality(Ended(S, p.end)) <= Cardinality(Ended(S, q.start))
    <3>1. p.end \in Nat /\ q.start \in Nat /\ p.end <= q.start
      BY <1>3, <1>4
    <3> QED BY <2>2, <3>1, EndedBounds
  <2>7. b \in Nat
    BY <1>3 DEF b
  <2> QED BY <2>4, <2>5, <2>6, <2>7
<1> QED BY <1>3, <1>4, <1>5, <1>6, <1>7

(* Pieces with different numbers lie one before the other.                 *)
LEMMA NumbersInOrder ==
  ASSUME layout \in Layouts, NEW R, NEW base \in [Nat -> Nat], ResultsOf(R, base),
         NEW p \in PiecesOf(R), NEW q \in PiecesOf(R), p.nr < q.nr
  PROVE  p.end < q.start
<1>1. p.nr \in Nat /\ q.nr \in Nat
  BY PieceBounds DEF PiecesOf
<1>2. p # q
  BY <1>1
<1>3. ~(q.end < p.start)
  BY <1>1, PieceNumbers
<1> QED BY <1>2, <1>3, PiecesApart

(* aggregate_result on the results of all chunks.                          *)
LEMMA MergedScenesTile ==
  ASSUME layout \in Layouts, NEW R, NEW base \in [Nat -> Nat], ResultsOf(R, base),
         {r.chunk : r \in R} = Chunks, NEW f \in 0..(layout.frames - 1)
  PROVE  Cardinality({s \in MergedScenes(R) : f \in s.start..s.end}) = 1
<1> DEFINE Piece(k)  == {p \in PiecesOf(R) : p.nr = k}
           Starts(k) == {p.start : p \in Piece(k)}
           Ends(k)   == {p.end : p \in Piece(k)}
           Whole(k)  == [nr |-> k, start |-> Min(Starts(k)), end |-> Max(Ends(k))]
<1>1. MergedScenes(R) = {Whole(k) : k \in {p.nr : p \in PiecesOf(R)}}
  BY DEF MergedScenes, PiecesOf
<1>2. PICK c \in Chunks : ValidStart(layout, c) <= f /\ f <= ValidEnd(layout, c)
  BY ChunkOfFrame DEF Chunks
<1>3. PICK r \in R : r.chunk = c
  BY <1>2
<1>4. f \in Nat /\ InValidRange(r.chunk, f)
  BY <1>2, <1>3 DEF InValidRange
<1>5. PICK p \in r.scenes : /\ p.start <= f /\ f <= p.end
                           /\ \A q \in PiecesOf(R) : q.start <= f /\ f <= q.end => q = p
  <2>1. \E p \in r.scenes : OnlyPieceAt(p, f, r, R, base)
    BY <1>4, OnePieceOfFrame
  <2> QED BY <2>1 DEF OnlyPieceAt
<1>6. p \in PiecesOf(R)
  BY DEF PiecesOf
<1>7. layout.frames \in Nat \ {0}
  BY LayoutsAssumption
<1>8. \A q \in PiecesOf(R) : /\ q.nr \in Nat /\ q.start \in Nat /\ q.end \in Nat
                             /\ q.end <= layout.frames - 1
  BY PieceBounds DEF PiecesOf
<1>9. ASSUME NEW k \in {q.nr : q \in PiecesOf(R)}
      PROVE  /\ Starts(k) \subseteq Nat /\ Ends(k) \subseteq Nat
             /\ Min(Starts(k)) \in Starts(k) /\ \A x \in Starts(k) : Min(Starts(k)) <= x
             /\ Max(Ends(k)) \in Ends(k) /\ \A x \in Ends(k) : x <= Max(Ends(k))
  <2>1. Starts(k) \subseteq Nat /\ Ends(k) \subseteq Nat /\ Starts(k) # {} /\ Ends(k) # {}
    BY <1>8
  <2>2. \A x \in Ends(k) : x <= layout.frames - 1
    BY <1>8
  <2>3. layout.frames - 1 \in Nat
    BY <1>7
  <2> HIDE DEF Starts, Ends
  <2> QED BY <2>1, <2>2, <2>3, LeastOf, GreatestOf
<1>10. Whole(p.nr) \in MergedScenes(R)
  BY <1>1, <1>6
<1>11. f \in Min(Starts(p.nr))..Max(Ends(p.nr))
  <2>1. p.start \in Starts(p.nr) /\ p.end \in Ends(p.nr)
    BY <1>6
  <2> HIDE DEF Starts, Ends
  <2>2. /\ Min(Starts(p.nr)) \in Nat /\ Min(Starts(p.nr)) <= p.start
        /\ Max(Ends(p.nr)) \in Nat /\ p.end <= Max(Ends(p.nr))
    BY <1>6, <1>9, <2>1
  <2>3. p.start \in Nat /\ p.end \in Nat
    BY <1>6, <1>8
  <2> QED BY <1>4, <1>5, <2>2, <2>3
<1>12. ASSUME NEW k \in {q.nr : q \in PiecesOf(R)}, f \in Min(Starts(k))..Max(Ends(k))
       PROVE  k = p.nr
  <2>1. PICK q \in PiecesOf(R) : q.nr = k /\ q.start = Min(Starts(k))
    BY <1>9, <1>12
  <2>2. PICK o \in PiecesOf(R) : o.nr = k /\ o.end = Max(Ends(k))
    BY <1>9, <1>12
  <2> HIDE DEF Starts, Ends
  <2>3. q.start <= f /\ f <= o.end
    BY <1>12, <2>1, <2>2
  <2>4. k < p.nr => o.end < p.start
    BY <1>6, <2>2, NumbersInOrder
  <2>5. p.nr < k => p.end < q.start
    BY <1>6, <2>1, NumbersInOrder
  <2>6. /\ o.end \in Nat /\ p.start \in Nat /\ p.end \in Nat /\ q.start \in Nat
        /\ k \in Nat /\ p.nr \in Nat
    BY <1>6, <1>8, <2>1, <2>2
  <2> QED BY <1>4, <1>5, <2>3, <2>4, <2>5, <2>6
<1>13. {s \in MergedScenes(R) : f \in s.start..s.end} = {Whole(p.nr)}
  <2>1. \A k : Whole(k).start = Min(Starts(k)) /\ Whole(k).end = Max(Ends(k))
    OBVIOUS
  <2> HIDE DEF Whole, Starts, Ends
  <2> QED BY <1>1, <1>10, <1>11, <1>12, <2>1
<1> HIDE DEF Whole
<1> QED BY <1>13, FS_Singleton

(* Two neighbouring frames, when every chunk goes on where the one before  *)
(* stopped.                                                                *)
LEMMA SameSceneUnlessEnded ==
  ASSUME layout \in Layouts, NEW R, NEW base \in [Nat -> Nat], ResultsOf(R, base),
         \A r, o \in R : o.chunk = r.chunk + 1 =>
                           base[o.chunk] = base[r.chunk] + Cardinality(r.transitions),
         NEW f \in Nat, NEW p \in PiecesOf(R), NEW q \in PiecesOf(R),
         p.start <= f, f <= p.end, q.start <= f + 1, f + 1 <= q.end
  PROVE  p.nr = q.nr <=> \A t \in MergedTransitions(R) : t.end # f
<1>1. PICK r \in R : p \in r.scenes
  BY DEF PiecesOf
<1>2. PICK o \in R : q \in o.scenes
  BY DEF PiecesOf
<1>3. \A x \in R :
        /\ x.chunk \in Chunks /\ x.chunk \in Nat /\ base[x.chunk] \in Nat
        /\ ValidStart(layout, x.chunk) \in Nat /\ ValidEnd(layout, x.chunk) \in Nat
        /\ ValidStart(layout, x.chunk) <= ValidEnd(layout, x.chunk)
        /\ IsFiniteSet(x.transitions) /\ Cardinality(x.transitions) \in Nat
        /\ \A t \in x.transitions : /\ t.end \in Nat
                                    /\ ValidStart(layout, x.chunk) - 1 <= t.end
                                    /\ t.end <= ValidEnd(layout, x.chunk)
  <2> TAKE x \in R
  <2>1. x.chunk \in Chunks /\ OwnedBy(x.chunk, x.transitions)
    BY DEF ResultsOf
  <2>2. /\ x.chunk \in Nat
        /\ ValidStart(layout, x.chunk) \in Nat /\ ValidEnd(layout, x.chunk) \in Nat
        /\ ValidStart(layout, x.chunk) <= ValidEnd(layout, x.chunk)
    BY <2>1, ChunkBounds DEF Chunks
  <2>3. Cardinality(x.transitions) \in Nat
    BY <2>1, FS_CardinalityType DEF OwnedBy
  <2> QED BY <2>1, <2>2, <2>3 DEF OwnedBy
<1>4. /\ ValidStart(layout, r.chunk) <= f /\ f <= ValidEnd(layout, r.chunk)
      /\ ValidStart(layout, o.chunk) <= f + 1 /\ f + 1 <= ValidEnd(layout, o.chunk)
  <2>1. /\ p.start \in Nat /\ p.end \in Nat
        /\ ValidStart(layout, r.chunk) <= p.start /\ p.end <= ValidEnd(layout, r.chunk)
    BY <1>1, PieceBounds
  <2>2. /\ q.start \in Nat /\ q.end \in Nat
        /\ ValidStart(layout, o.chunk) <= q.start /\ q.end <= ValidEnd(layout, o.chunk)
    BY <1>2, PieceBounds
  <2> QED BY <1>3, <2>1, <2>2
<1>5. \A x, y \in R : x.chunk < y.chunk =>
                        ValidEnd(layout, x.chunk) < ValidStart(layout, y.chunk)
  BY <1>3, ChunkOrder DEF Chunks
<1>6. p.nr = base[r.chunk] + Cardinality(Ended(r.transitions, f))
  <2>1. PICK x \in r.scenes : OnlyPieceAt(x, f, r, R, base)
    BY <1>4, OnePieceOfFrame DEF InValidRange
  <2> QED BY <2>1 DEF OnlyPieceAt
<1>7. q.nr = base[o.chunk] + Cardinality(Ended(o.transitions, f + 1))
  <2>1. f + 1 \in Nat /\ InValidRange(o.chunk, f + 1)
    BY <1>4 DEF InValidRange
  <2>2. PICK x \in o.scenes : OnlyPieceAt(x, f + 1, o, R, base)
    BY <2>1, OnePieceOfFrame
  <2> QED BY <2>2 DEF OnlyPieceAt
<1>8. \A x \in R : /\ Cardinality(Ended(x.transitions, f)) \in Nat
                   /\ Cardinality(Ended(x.transitions, f + 1)) \in Nat
                   /\ Cardinality(Ended(x.transitions, f))
                        <= Cardinality(x.transitions)
                   /\ Cardinality(Ended(x.transitions, f))
                        = Cardinality(Ended(x.transitions, f + 1))
                        <=> \A t \in x.transitions : t.end # f
                   /\ Cardinality(Ended(x.transitions, f)) = Cardinality(x.transitions)
                        <=> \A t \in x.transitions : t.end < f
                   /\ Cardinality(Ended(x.transitions, f + 1)) = 0
                        <=> \A t \in x.transitions : f < t.end
  <2> TAKE x \in R
  <2>1. IsFiniteSet(x.transitions) /\ \A t \in x.transitions : t.end \in Nat
    BY <1>3
  <2>2. /\ Cardinality(Ended(x.transitions, f)) \in Nat
        /\ Cardinality(Ended(x.transitions, f + 1)) \in Nat
        /\ Cardinality(Ended(x.transitions, f)) <= Cardinality(Ended(x.transitions, f + 1))
        /\ Cardinality(Ended(x.transitions, f + 1)) <= Cardinality(x.transitions)
        /\ Cardinality(Ended(x.transitions, f)) = Cardinality(Ended(x.transitions, f + 1))
             <=> \A t \in x.transitions : t.end < f + 1 => t.end < f
        /\ Cardinality(Ended(x.transitions, f)) = Cardinality(x.transitions)
             <=> \A t \in x.transitions : t.end < f
    BY <2>1, EndedBounds
  <2>3. Cardinality(Ended(x.transitions, f + 1)) = 0
          <=> \A t \in x.transitions : ~(t.end < f + 1)
    <3>1. f + 1 \in Nat /\ f + 1 <= f + 1
      OBVIOUS
    <3> QED BY <2>1, <3>1, EndedBounds
  <2>4. Cardinality(x.transitions) \in Nat
    BY <1>3
  <2>5. \A t \in x.transitions : /\ (t.end < f + 1 => t.end < f) <=> t.end # f
                                 /\ ~(t.end < f + 1) <=> f < t.end
    BY <2>1
  <2> QED BY <2>2, <2>3, <2>4, <2>5
<1>9. CASE r = o
  <2>1. p.nr = q.nr <=> \A t \in r.transitions : t.end # f
    BY <1>3, <1>6, <1>7, <1>8, <1>9
  <2>2. \A x \in R : \A t \in x.transitions : t.end = f => x = r
    <3> SUFFICES ASSUME NEW x \in R, NEW t \in x.transitions, t.end = f
                 PROVE  x = r
      OBVIOUS
    <3>1. ValidStart(layout, x.chunk) - 1 <= f /\ f <= ValidEnd(layout, x.chunk)
      BY <1>3
    <3>2. ~(x.chunk < r.chunk) /\ ~(r.chunk < x.chunk)
      BY <1>3, <1>4, <1>5, <1>9, <3>1
    <3>3. x.chunk = r.chunk
      BY <1>3, <3>2
    <3> QED BY <3>3 DEF ResultsOf
  <2> QED BY <2>1, <2>2 DEF MergedTransitions
<1>10. CASE r # o
  <2>1. r.chunk # o.chunk
    BY <1>10 DEF ResultsOf
  <2>2. r.chunk < o.chunk
    BY <1>3, <1>4, <1>5, <2>1
  <2>3. o.chunk = r.chunk + 1 /\ f = ValidEnd(layout, r.chunk)
        /\ f + 1 = ValidStart(layout, o.chunk)
    <3>1. ValidEnd(layout, r.chunk) < ValidStart(layout, o.chunk)
      BY <1>5, <2>2
    <3>2. f = ValidEnd(layout, r.chunk) /\ f + 1 = ValidStart(layout, o.chunk)
      BY <1>3, <1>4, <3>1
    <3>3. ~(r.chunk + 1 < o.chunk)
      <4> SUFFICES ASSUME r.chunk + 1 < o.chunk PROVE FALSE
        OBVIOUS
      <4> DEFINE d == r.chunk + 1
      <4>1. d \in 0..(TotalChunks(layout) - 1) /\ d < o.chunk /\ r.chunk < d
            /\ r.chunk \in 0..(TotalChunks(layout) - 1)
            /\ o.chunk \in 0..(TotalChunks(layout) - 1)
        <5>1. TotalChunks(layout) \in Nat
          BY <1>3, ChunkBounds DEF Chunks
        <5> QED BY <1>3, <5>1 DEF Chunks
      <4> HIDE DEF d
      <4>2. ValidEnd(layout, r.chunk) < ValidStart(layout, d)
            /\ ValidEnd(layout, d) < ValidStart(layout, o.chunk)
        BY <4>1, ChunkOrder
      <4>3. ValidStart(layout, d) \in Nat /\ ValidEnd(layout, d) \in Nat
            /\ ValidStart(layout, d) <= ValidEnd(layout, d)
        BY <4>1, ChunkBounds
      <4> QED BY <1>3, <3>2, <4>2, <4>3
    <3> QED BY <1>3, <2>2, <3>2, <3>3
  <2>4. base[o.chunk] = base[r.chunk] + Cardinality(r.transitions)
    BY <2>3
  <2>5. p.nr = q.nr <=> /\ \A t \in r.transitions : t.end < f
                        /\ \A t \in o.transitions : f < t.end
    <3>1. p.nr = q.nr <=>
            /\ Cardinality(Ended(r.transitions, f)) = Cardinality(r.transitions)
            /\ Cardinality(Ended(o.transitions, f + 1)) = 0
      BY <1>3, <1>6, <1>7, <1>8, <2>4
    <3> QED BY <1>8, <3>1
  <2>6. /\ \A t \in r.transitions : t.end < f <=> t.end # f
        /\ \A t \in o.transitions : f < t.end <=> t.end # f
    BY <1>3, <2>3
  <2>7. \A x \in R : \A t \in x.transitions : t.end = f => x = r \/ x = o
    <3> SUFFICES ASSUME NEW x \in R, NEW t \in x.transitions, t.end = f
                 PROVE  x = r \/ x = o
      OBVIOUS
    <3>1. ValidStart(layout, x.chunk) - 1 <= f /\ f <= ValidEnd(layout, x.chunk)
      BY <1>3
    <3>2. ~(x.chunk < r.chunk) /\ ~(o.chunk < x.chunk)
      BY <1>3, <1>4, <1>5, <2>3, <3>1
    <3>3. x.chunk = r.chunk \/ x.chunk = o.chunk
      BY <1>3, <2>3, <3>2
    <3> QED BY <3>3 DEF ResultsOf
  <2> QED BY <2>5, <2>6, <2>7 DEF MergedTransitions
<1> QED BY <1>9, <1>10

-----------------------------------------------------------------------------
(***************************************************************************)
(* What a chunk owns.  The detector reports frames of the context only.    *)
(***************************************************************************)
TransitionsWithin(frames) ==
  [kind : {"hard", "gradual"}, start : 0..(frames - 1), end : 0..(frames - 1)]

LEMMA FiniteTransitions ==
  ASSUME NEW n \in Nat
  PROVE  IsFiniteSet(TransitionsWithin(n))
<1> DEFINE F == 0..(n - 1)
           K == {"hard", "gradual"}
           f == [t \in TransitionsWithin(n) |-> <<<<t.kind, t.start>>, t.end>>]
<1>1. IsFiniteSet(F)
  BY FS_Interval
<1>2. IsFiniteSet(K)
  <2>1. IsFiniteSet({"hard"})
    BY FS_Singleton
  <2>2. K = {"hard"} \cup {"gradual"}
    OBVIOUS
  <2> QED BY <2>1, <2>2, FS_AddElement
<1>3. IsFiniteSet(K \X F)
  BY <1>1, <1>2, FS_Product
<1>4. IsFiniteSet((K \X F) \X F)
  BY <1>1, <1>3, FS_Product
<1>5. f \in Injection(TransitionsWithin(n), (K \X F) \X F)
  <2>1. f \in [TransitionsWithin(n) -> (K \X F) \X F]
    BY DEF TransitionsWithin
  <2>2. ASSUME NEW t \in TransitionsWithin(n), NEW u \in TransitionsWithin(n), f[t] = f[u]
        PROVE  t = u
    <3>1. t.kind = u.kind /\ t.start = u.start /\ t.end = u.end
      BY <2>2
    <3> QED BY <3>1 DEF TransitionsWithin
  <2> QED BY <2>1, <2>2 DEF Injection, IsInjective
<1> HIDE DEF f
<1> QED BY <1>4, <1>5, FS_Injection

(* What the detector reports lies in the context of the chunk.             *)
LEMMA DetectionsInContext ==
  ASSUME layout \in Layouts, NEW c \in Chunks,
         \A v \in video : v.start \in Int /\ v.end \in Int
  PROVE  \A t \in Detections(c) : /\ t \in TransitionsWithin(layout.frames)
                                  /\ t.end <= ValidEnd(layout, c)
<1>1. /\ ContextStart(layout, c) \in Nat /\ ContextEnd(layout, c) = ValidEnd(layout, c)
      /\ ValidEnd(layout, c) \in Nat /\ ValidEnd(layout, c) <= layout.frames - 1
      /\ layout.frames \in Nat
  BY ChunkBounds DEF Chunks
<1> DEFINE a == ContextStart(layout, c)
           b == ContextEnd(layout, c)
<1>2. ASSUME NEW v \in video, NEW t \in Detection(v, a, b)
      PROVE  t \in TransitionsWithin(layout.frames) /\ t.end <= ValidEnd(layout, c)
  <2> DEFINE s == Max({v.start, a})
             e == Min({v.end, b})
  <2>1. s \in Nat /\ e \in Int /\ e <= b
    BY <1>1, MaxOfPair, MinOfPair
  <2> HIDE DEF s, e
  <2>2. /\ s <= e
        /\ t = Gradual(s, e) \/ \E p \in s..e : t = HardCut(p)
    <3>1. Detection(v, a, b)
          = IF s > e
            THEN {}
            ELSE IF /\ v.kind = "gradual"
                    /\ e - s + 1 >= GradualMin
                    /\ v.peak \in s..e
                    /\ NearMiddle(s, e, v.peak)
                 THEN {Gradual(s, e)}
                 ELSE {HardCut(p) : p \in {v.peak} \cap (IF v.strong THEN s..e ELSE {})}
      BY DEF Detection, s, e
    <3> HIDE DEF a, b
    <3>2. ~(s > e)
      BY <1>2, <3>1
    <3>3. CASE t = Gradual(s, e)
      BY <2>1, <3>2, <3>3
    <3>4. CASE t # Gradual(s, e)
      <4>1. t \in {HardCut(p) : p \in {v.peak} \cap (IF v.strong THEN s..e ELSE {})}
        BY <1>2, <3>1, <3>2, <3>4
      <4> QED BY <2>1, <3>2, <4>1
    <3> QED BY <3>3, <3>4
  <2>3. ASSUME NEW p \in s..e PROVE p \in 0..(layout.frames - 1) /\ p <= ValidEnd(layout, c)
    BY <1>1, <2>1
  <2>4. s \in s..e /\ e \in s..e
    BY <2>1, <2>2
  <2> HIDE DEF a, b
  <2>5. CASE t = Gradual(s, e)
    BY <2>3, <2>4, <2>5 DEF Gradual, TransitionsWithin
  <2>6. ASSUME NEW p \in s..e, t = HardCut(p)
        PROVE  t \in TransitionsWithin(layout.frames) /\ t.end <= ValidEnd(layout, c)
    BY <2>3, <2>6 DEF HardCut, TransitionsWithin
  <2> QED BY <2>2, <2>5, <2>6
<1> QED BY <1>2 DEF Detections

(* What a chunk keeps of it ends in the chunk or on the frame before.      *)
LEMMA OwnedTransitions ==
  ASSUME layout \in Layouts, NEW c \in Chunks,
         NEW seen, \A t \in seen : /\ t \in TransitionsWithin(layout.frames)
                                   /\ t.end <= ValidEnd(layout, c),
         NEW pending, pending \subseteq 0..(layout.frames - 1), pending # {} => c > 0
  PROVE  /\ OwnedBy(c, Owned(c, seen, pending))
         /\ NextPending(c, seen, pending) \subseteq 0..(layout.frames - 1)
<1> DEFINE N == layout.frames
           F == 0..(N - 1)
           G == Resumed(c, seen, pending) \cup Others(c, seen, pending)
<1>1. /\ ValidStart(layout, c) \in Nat /\ ValidEnd(layout, c) \in Nat
      /\ ValidStart(layout, c) <= ValidEnd(layout, c)
      /\ ValidEnd(layout, c) <= N - 1 /\ N \in Nat
      /\ c > 0 => ValidStart(layout, c) > 0
  <2>1. c > 0 => ValidStart(layout, c) > ValidEnd(layout, 0) /\ ValidEnd(layout, 0) \in Nat
    <3> SUFFICES ASSUME c > 0
                 PROVE  ValidStart(layout, c) > ValidEnd(layout, 0)
                        /\ ValidEnd(layout, 0) \in Nat
      OBVIOUS
    <3>1. TotalChunks(layout) \in Nat
      BY ChunkBounds DEF Chunks
    <3>2. 0 \in 0..(TotalChunks(layout) - 1) /\ c \in 0..(TotalChunks(layout) - 1)
      BY <3>1 DEF Chunks
    <3>3. ValidEnd(layout, 0) < ValidStart(layout, c) /\ ValidEnd(layout, 0) \in Nat
          /\ ValidStart(layout, c) \in Nat
      BY <3>2, ChunkOrder, ChunkBounds
    <3> QED BY <3>3
  <2>2. /\ ValidStart(layout, c) \in Nat /\ ValidEnd(layout, c) \in Nat
        /\ ValidStart(layout, c) <= ValidEnd(layout, c)
        /\ ValidEnd(layout, c) <= N - 1 /\ N \in Nat
    BY ChunkBounds DEF Chunks
  <2> QED BY <2>1, <2>2
<1>2. pending # {} => Min(pending) \in F /\ Boundary(c) \in F
  <2>1. pending # {} => Min(pending) \in F
    <3>1. pending \subseteq Nat
      OBVIOUS
    <3> QED BY <3>1, LeastOf
  <2>2. pending # {} => Boundary(c) \in F
    BY <1>1 DEF Boundary
  <2> QED BY <2>1, <2>2
<1>3. \A t \in seen : /\ t.kind \in {"hard", "gradual"} /\ t.start \in F /\ t.end \in F
                      /\ t.end <= ValidEnd(layout, c)
                      /\ t \in TransitionsWithin(N)
  BY DEF TransitionsWithin
<1>4. \A t \in Resumed(c, seen, pending) :
        /\ t \in TransitionsWithin(N)
        /\ ValidStart(layout, c) - 1 <= t.end /\ t.end <= ValidEnd(layout, c)
  <2>1. CASE pending = {}
    BY <2>1 DEF Resumed
  <2>2. CASE pending # {} /\ Continuation(c, seen) = {}
    <3>1. Resumed(c, seen, pending) = {Gradual(Min(pending), Boundary(c))}
      BY <2>2 DEF Resumed
    <3>2. Gradual(Min(pending), Boundary(c)) \in TransitionsWithin(N)
      BY <1>2, <2>2 DEF Gradual, TransitionsWithin
    <3>3. Boundary(c) = ValidStart(layout, c) - 1
      BY DEF Boundary
    <3> QED BY <1>1, <3>1, <3>2, <3>3 DEF Gradual
  <2>3. CASE pending # {} /\ Continuation(c, seen) # {}
    <3>1. Resumed(c, seen, pending)
          = {Gradual(Min({Min(pending), t.start}), t.end) : t \in Continuation(c, seen)}
      BY <2>3 DEF Resumed
    <3>2. ASSUME NEW t \in Continuation(c, seen)
          PROVE  /\ Gradual(Min({Min(pending), t.start}), t.end) \in TransitionsWithin(N)
                 /\ Gradual(Min({Min(pending), t.start}), t.end).end = t.end
                 /\ ValidStart(layout, c) - 1 <= t.end /\ t.end <= ValidEnd(layout, c)
      <4>1. t \in seen /\ ValidStart(layout, c) - 1 <= t.end
        BY DEF Continuation, Graduals, Boundary
      <4>2. Min(pending) \in Int /\ t.start \in Int /\ Min(pending) \in F /\ t.start \in F
        BY <1>2, <1>3, <2>3, <4>1
      <4>3. Min({Min(pending), t.start}) \in F
        BY <4>2, MinOfPair
      <4> QED BY <1>3, <4>1, <4>3 DEF Gradual, TransitionsWithin
    <3> QED BY <3>1, <3>2
  <2> QED BY <2>1, <2>2, <2>3
<1>5. \A t \in Others(c, seen, pending) :
        /\ t \in TransitionsWithin(N)
        /\ ValidStart(layout, c) - 1 <= t.end /\ t.end <= ValidEnd(layout, c)
  BY <1>1, <1>3 DEF Others, Graduals
<1>6. \A t \in Owned(c, seen, pending) :
        /\ t \in TransitionsWithin(N)
        /\ ValidStart(layout, c) - 1 <= t.end /\ t.end <= ValidEnd(layout, c)
  <2> SUFFICES ASSUME NEW t \in Owned(c, seen, pending)
               PROVE  /\ t \in TransitionsWithin(N)
                      /\ ValidStart(layout, c) - 1 <= t.end /\ t.end <= ValidEnd(layout, c)
    OBVIOUS
  <2>1. t \in G \/ (t \in seen /\ InValidRange(c, t.end))
    BY DEF Owned
  <2>2. CASE t \in G
    BY <1>4, <1>5, <2>2
  <2>3. CASE t \in seen /\ InValidRange(c, t.end)
    BY <1>1, <1>3, <2>3 DEF InValidRange
  <2> QED BY <2>1, <2>2, <2>3
<1>7. OwnedBy(c, Owned(c, seen, pending))
  <2>1. Owned(c, seen, pending) \subseteq TransitionsWithin(N)
    BY <1>6
  <2>2. IsFiniteSet(TransitionsWithin(N))
    BY <1>1, FiniteTransitions
  <2>3. IsFiniteSet(Owned(c, seen, pending))
    BY <2>1, <2>2, FS_Subset
  <2>4. \A t \in TransitionsWithin(N) : t.start \in Nat /\ t.end \in Nat
    BY DEF TransitionsWithin
  <2> QED BY <1>6, <2>3, <2>4 DEF OwnedBy
<1>8. NextPending(c, seen, pending) \subseteq F
  <2> DEFINE open == {t \in G : OpenAtEnd(t, c)}
             A == {t.start : t \in open}
  <2>1. \A t \in open : t.start \in F
    BY <1>4, <1>5 DEF TransitionsWithin
  <2>2. A \subseteq F /\ (open # {} => A # {})
    BY <2>1
  <2>3. NextPending(c, seen, pending) = IF open = {} THEN {} ELSE {Min(A)}
    BY DEF NextPending
  <2>4. A # {} => Min(A) \in A
    <3>1. A \subseteq Nat
      BY <2>2
    <3> HIDE DEF A
    <3> QED BY <3>1, LeastOf
  <2> HIDE DEF open, A
  <2> QED BY <2>2, <2>3, <2>4
<1> QED BY <1>7, <1>8

-----------------------------------------------------------------------------
(***************************************************************************)
(* The invariant.  The chunks 0..n-1 have a result; the hash, and what a   *)
(* handler has loaded, is at chunk n with a scene number that no scene of  *)
(* a result exceeds - the very next one, as long as the hash was not lost. *)
(***************************************************************************)
Follows(x, n, base) ==
  \A r \in cache :
    /\ base[r.chunk] + Cardinality(r.transitions) <= x
    /\ Kept /\ n = r.chunk + 1 => base[r.chunk] + Cardinality(r.transitions) = x

StateAt(s, n, base) ==
  /\ s.next = n /\ s.scene \in Nat
  /\ s.pending \subseteq 0..(layout.frames - 1)
  /\ s.pending # {} => n > 0
  /\ Follows(s.scene, n, base)

Progress(n, base) ==
  /\ ResultsOf(cache, base)
  /\ Kept => \A r, o \in cache : o.chunk = r.chunk + 1 =>
               base[o.chunk] = base[r.chunk] + Cardinality(r.transitions)
  /\ {r.chunk : r \in cache} = 0..(n - 1)
  /\ \A s \in state : StateAt(s, n, base)
  /\ handler.at = "infer" => /\ handler.chunk = n /\ n \in Chunks
                             /\ StateAt(handler.state, n, base)
  /\ Kept /\ n > 0 => state # {}

Parameters ==
  /\ layout \in Layouts
  /\ \A v \in video : v.start \in Int /\ v.end \in Int
  /\ faults \in Seq(FaultKind)

Stored ==
  /\ recorded \subseteq cut_results /\ cut_results \subseteq cache
  /\ handler.at = "publish" => handler.result \in cache

IInv ==
  /\ Parameters /\ Stored
  /\ \E n \in Nat : \E base \in [Nat -> Nat] : Progress(n, base)

LEMMA EventBounds ==
  ASSUME NEW l \in Layouts, NEW w \in Videos(l.frames), NEW v \in w
  PROVE  v.start \in Int /\ v.end \in Int
<1>1. v \in Events(l.frames)
  BY DEF Videos, EventsWithin, ToSet
<1>2. CASE v \in {HardEvent(f) : f \in 0..(l.frames - 1)}
  BY <1>2 DEF HardEvent
<1>3. ASSUME NEW s \in 0..(l.frames - GradualMin), NEW n \in GradualMin..GradualMax,
             v \in GradualEvents(s, s + n - 1)
      PROVE  v.start \in Int /\ v.end \in Int
  <2>1. v.start = s /\ v.end = s + n - 1
    BY <1>3 DEF GradualEvents
  <2> QED BY <2>1
<1> QED BY <1>1, <1>2, <1>3 DEF Events

LEMMA InitIInv == Init => IInv
<1> SUFFICES ASSUME Init PROVE IInv
  OBVIOUS
<1>1. Parameters /\ Stored
  <2>1. \A v \in video : v.start \in Int /\ v.end \in Int
    BY EventBounds DEF Init
  <2>2. handler.at # "publish"
    BY DEF Init, Idle
  <2>3. faults \in Seq(FaultKind)
    BY DEF Init, GroupInit
  <2> QED BY <2>1, <2>2, <2>3 DEF Init, Parameters, Stored
<1>2. Progress(0, [i \in Nat |-> 0])
  <2>1. cache = {} /\ state = {} /\ handler.at # "infer"
    BY DEF Init, Idle
  <2>2. {r.chunk : r \in cache} = 0..(0 - 1)
    BY <2>1
  <2> QED BY <2>1, <2>2 DEF Progress, ResultsOf
<1>3. [i \in Nat |-> 0] \in [Nat -> Nat]
  OBVIOUS
<1> QED BY <1>1, <1>2, <1>3 DEF IInv

-----------------------------------------------------------------------------
(* What a step that leaves the video alone leaves alone.                   *)
LEMMA SameVideo ==
  ASSUME layout' = layout, NEW R, NEW base, ResultsOf(R, base)
  PROVE  ResultsOf(R, base)'
<1>1. Chunks' = Chunks
  BY DEF Chunks
<1>2. \A c, S : OwnedBy(c, S)' <=> OwnedBy(c, S)
  BY DEF OwnedBy
<1>3. \A c, E, e, st : SceneAfter(c, E, e, st)' = SceneAfter(c, E, e, st)
  BY DEF SceneAfter
<1>4. \A c, S, st : Scenes(c, S, st)' = Scenes(c, S, st)
  <2> TAKE c, S, st
  <2>1. ValidEnd(layout', c) = ValidEnd(layout, c)
    OBVIOUS
  <2> QED BY <1>3, <2>1 DEF Scenes
<1>5. \A c, S, st : Result(c, S, st)' = Result(c, S, st)
  BY <1>4 DEF Result
<1> QED BY <1>1, <1>2, <1>5 DEF ResultsOf

(* Appending an element, and where it then is.                             *)
LEMMA LastOfAppend ==
  ASSUME NEW S, NEW s \in Seq(S), NEW e, NEW r, r = Append(s, e)
  PROVE  Len(s) + 1 \in DOMAIN r /\ r[Len(s) + 1] = e
<1>1. Len(s) \in Nat /\ Len(r) = Len(s) + 1 /\ DOMAIN r = 1..Len(r)
  OBVIOUS
<1>2. r[Len(s) + 1] = e
  OBVIOUS
<1> QED BY ONLY <1>1, <1>2

(* The hash once lost stays lost.                                          *)
LEMMA OnceLost ==
  ASSUME faults \in Seq(FaultKind),
         faults' = faults \/ \E kind \in FaultKind : faults' = Append(faults, kind)
  PROVE  faults' \in Seq(FaultKind) /\ (Kept' => Kept)
<1>1. faults' \in Seq(FaultKind)
  OBVIOUS
<1>2. ToSet(faults) \subseteq ToSet(faults')
  <2>1. CASE faults' = faults
    BY <2>1
  <2>2. ASSUME NEW kind \in FaultKind, faults' = Append(faults, kind)
        PROVE  ToSet(faults) \subseteq ToSet(faults')
    <3>1. \A i \in DOMAIN faults : i \in DOMAIN faults' /\ faults'[i] = faults[i]
      BY <2>2
    <3> QED BY <3>1 DEF ToSet
  <2> QED BY <2>1, <2>2
<1> QED BY <1>1, <1>2 DEF Kept, Happened

(* What no step changes, and how the list of faults grows.                 *)
LEMMA StepFrame ==
  ASSUME [Next]_vars
  PROVE  /\ UNCHANGED videoVars
         /\ faults' = faults \/ \E kind \in FaultKind : faults' = Append(faults, kind)
<1> USE DEF videoVars, Fault, FaultKind
<1>1. CASE Poll
  BY <1>1 DEF Poll, Polls, ReplyLost
<1>2. ASSUME NEW c \in Chunks, Handle(c) PROVE UNCHANGED videoVars /\ faults' = faults
  BY <1>2 DEF Handle, Start, Refuse
<1>3. CASE Persist \/ Publish
  BY <1>3 DEF Persist, Publish
<1>4. CASE HandlerFails \/ Interrupted \/ WorkerStops \/ StateLost
  BY <1>4 DEF HandlerFails, Interrupted, WorkerStops, Stops, StateLost
<1>5. CASE \E r \in cut_results : CoordinatorRecords(r)
  BY <1>5 DEF CoordinatorRecords
<1>6. CASE UNCHANGED vars
  BY <1>6 DEF vars
<1> QED BY <1>1, <1>2, <1>3, <1>4, <1>5, <1>6 DEF Next, Work

(* The steps that are about the consumer group, or end the handler.        *)
Aside == \/ Poll \/ HandlerFails \/ Interrupted \/ WorkerStops
         \/ \E c \in Chunks : Refuse(c)

LEMMA AsideStep ==
  ASSUME Aside
  PROVE  /\ UNCHANGED <<state, resultVars>>
         /\ handler' = handler \/ handler' = Idle
BY DEF Aside, Poll, HandlerFails, Interrupted, WorkerStops, Refuse

(* The state with which the next chunk starts.                             *)
LEMMA LoadedState ==
  ASSUME IInv, NEW n \in Nat, NEW base \in [Nat -> Nat], Progress(n, base),
         NEW c \in Chunks, Cached(c) = {}, NEW s \in Loaded(c), s.next = c
  PROVE  c = n /\ StateAt(s, n, base)
<1>1. c \in Nat /\ c \notin 0..(n - 1)
  <2>1. \A r \in cache : r.chunk # c
    BY DEF Cached
  <2>2. c \notin {r.chunk : r \in cache}
    BY <2>1
  <2>3. c \in Nat
    BY DEF Chunks
  <2> QED BY <2>2, <2>3 DEF Progress
<1>2. CASE state # {}
  <2>1. s \in state
    BY <1>2 DEF Loaded
  <2>2. StateAt(s, n, base)
    BY <2>1 DEF Progress
  <2> QED BY <2>2 DEF StateAt
<1>3. CASE state = {} /\ c = 0
  <2>1. s = [next |-> 0, scene |-> 0, pending |-> {}]
    BY <1>3 DEF Loaded
  <2>2. n = 0
    BY <1>1, <1>3
  <2>3. cache = {}
    <3>1. \A r \in cache : r.chunk \in 0..(0 - 1)
      BY <2>2 DEF Progress
    <3>2. 0..(0 - 1) = {}
      OBVIOUS
    <3> QED BY <3>1, <3>2
  <2> QED BY <1>3, <2>1, <2>2, <2>3 DEF StateAt, Follows
<1>4. CASE state = {} /\ c # 0
  <2>1. PICK r \in recorded : r.chunk = c - 1 /\ s = Rebuilt(r)
    BY <1>4 DEF Loaded
  <2>2. r \in cache
    BY DEF IInv, Stored
  <2>3. c - 1 \in 0..(n - 1)
    BY <2>1, <2>2 DEF Progress
  <2>4. c = n /\ n > 0
    BY <1>1, <2>3
  <2>5. ~Kept
    BY <1>4, <2>4 DEF Progress
  <2>6. layout \in Layouts /\ ResultsOf(cache, base)
    BY DEF IInv, Parameters, Progress
  <2> DEFINE A == {p.nr : p \in r.scenes}
             k == Cardinality(r.transitions)
  <2>7. Min(A) \in Nat /\ base[r.chunk] <= Min(A) /\ k \in Nat /\ base[r.chunk] \in Nat
        /\ r.chunk \in Nat
    <3>1. r.chunk \in Chunks
      BY <2>2, <2>6 DEF ResultsOf
    <3>2. /\ ValidStart(layout, r.chunk) \in Nat
          /\ ValidStart(layout, r.chunk) <= ValidEnd(layout, r.chunk)
      BY <2>6, <3>1, ChunkBounds DEF Chunks
    <3>3. InValidRange(r.chunk, ValidStart(layout, r.chunk))
      BY <3>2 DEF InValidRange
    <3>4. r.scenes # {}
      BY <2>2, <2>6, <3>2, <3>3, OnePieceOfFrame
    <3>5. \A p \in r.scenes : p.nr \in Nat /\ base[r.chunk] <= p.nr /\ k \in Nat
                              /\ base[r.chunk] \in Nat /\ r.chunk \in Nat
      BY <2>2, <2>6, PieceBounds
    <3>6. A \subseteq Nat /\ A # {} /\ \A x \in A : base[r.chunk] <= x
      BY <3>4, <3>5
    <3> HIDE DEF A
    <3>7. Min(A) \in A
      BY <3>6, LeastOf
    <3> HIDE DEF k
    <3> QED BY <3>4, <3>5, <3>6, <3>7
  <2>8. s = [next |-> r.chunk + 1, scene |-> Min(A) + k, pending |-> {}]
    BY <2>1 DEF Rebuilt
  <2> HIDE DEF A
  <2>9. \A o \in cache : base[o.chunk] + Cardinality(o.transitions) <= Min(A) + k
    <3> SUFFICES ASSUME NEW o \in cache
                 PROVE  base[o.chunk] + Cardinality(o.transitions) <= Min(A) + k
      OBVIOUS
    <3>1. o.chunk \in Nat /\ o.chunk <= c - 1
      BY <1>1, <2>4 DEF Progress
    <3>2. CASE o.chunk = r.chunk
      <4>1. o = r
        BY <2>2, <2>6, <3>2 DEF ResultsOf
      <4> QED BY <2>7, <4>1
    <3>3. CASE o.chunk < r.chunk
      <4>1. base[o.chunk] + Cardinality(o.transitions) <= base[r.chunk]
        BY <2>2, <2>6, <3>3 DEF ResultsOf
      <4>2. base[o.chunk] \in Nat /\ Cardinality(o.transitions) \in Nat
        BY <2>6, <3>1, FS_CardinalityType DEF ResultsOf, OwnedBy
      <4> HIDE DEF k
      <4> QED BY <2>7, <4>1, <4>2
    <3> QED BY <2>1, <2>7, <3>1, <3>2, <3>3
  <2>10. Follows(s.scene, n, base)
    BY <2>5, <2>8, <2>9 DEF Follows
  <2>11. s.next = n /\ s.scene \in Nat /\ s.pending = {}
    <3> HIDE DEF k
    <3> QED BY <1>1, <2>1, <2>4, <2>7, <2>8
  <2> QED BY <2>4, <2>10, <2>11 DEF StateAt
<1> QED BY <1>2, <1>3, <1>4

(* A step that adds no result keeps the progress.                          *)
LEMMA SameResults ==
  ASSUME NEW n \in Nat, NEW base \in [Nat -> Nat], Progress(n, base),
         layout' = layout, cache' = cache, Kept' => Kept,
         state' \subseteq state, Kept' => state' = state,
         handler'.at = "infer" => /\ handler'.chunk = n /\ n \in Chunks
                                  /\ StateAt(handler'.state, n, base)
  PROVE  Progress(n, base)'
<1>1. ResultsOf(cache, base)'
  <2>1. ResultsOf(cache, base) => \A R : R = cache => ResultsOf(R, base)'
    BY SameVideo
  <2> QED BY <2>1 DEF Progress, ResultsOf
<1>2. \A s : StateAt(s, n, base) => StateAt(s, n, base)'
  BY DEF StateAt, Follows
<1>3. Chunks' = Chunks
  BY DEF Chunks
<1>4. \A s \in state' : StateAt(s, n, base)'
  BY <1>2 DEF Progress
<1>5. handler'.at = "infer" => /\ handler'.chunk = n /\ n \in Chunks'
                               /\ StateAt(handler.state, n, base)'
  BY <1>3 DEF StateAt, Follows
<1>6. Kept' => \A r, o \in cache' : o.chunk = r.chunk + 1 =>
                 base[o.chunk] = base[r.chunk] + Cardinality(r.transitions)
  BY DEF Progress
<1>7. {r.chunk : r \in cache'} = 0..(n - 1)
  BY DEF Progress
<1>8. Kept' /\ n > 0 => state' # {}
  BY DEF Progress
<1> QED BY <1>1, <1>4, <1>5, <1>6, <1>7, <1>8 DEF Progress

LEMMA StartStep ==
  ASSUME IInv, NEW c \in Chunks, Start(c)
  PROVE  IInv'
<1>1. PICK n \in Nat, base \in [Nat -> Nat] : Progress(n, base)
  BY DEF IInv
<1>2. Parameters' /\ Kept' = Kept
  BY DEF IInv, Parameters, Start, videoVars, Kept, Happened
<1>3. CASE Cached(c) # {}
  <2>1. PICK r \in Cached(c) : handler' = [at |-> "publish", result |-> r]
    BY <1>3 DEF Start
  <2>2. Stored'
    BY <2>1 DEF IInv, Stored, Start, Cached, resultVars
  <2>3. Progress(n, base)'
    <3>1. handler'.at # "infer"
      BY <2>1
    <3> QED BY <1>1, <1>2, <3>1, SameResults DEF Start, videoVars, resultVars
  <2> QED BY <1>2, <2>2, <2>3 DEF IInv
<1>4. CASE Cached(c) = {}
  <2>1. PICK s \in Loaded(c) : /\ s.next = c
                               /\ handler' = [at |-> "infer", chunk |-> c, state |-> s]
    BY <1>4 DEF Start
  <2>2. c = n /\ StateAt(s, n, base)
    BY <1>1, <1>4, <2>1, LoadedState
  <2>3. Stored'
    BY <2>1 DEF IInv, Stored, Start, resultVars
  <2>4. Progress(n, base)'
    <3>1. handler'.chunk = n /\ n \in Chunks /\ StateAt(handler'.state, n, base)
      BY <2>1, <2>2
    <3> QED BY <1>1, <1>2, <3>1, SameResults DEF Start, videoVars, resultVars
  <2> QED BY <1>2, <2>3, <2>4 DEF IInv
<1> QED BY <1>3, <1>4

LEMMA PublishStep ==
  ASSUME IInv, Publish
  PROVE  IInv'
<1>1. PICK n \in Nat, base \in [Nat -> Nat] : Progress(n, base)
  BY DEF IInv
<1>2. faults' \in Seq(FaultKind) /\ (Kept' => Kept)
  <2>1. faults' = faults \/ \E kind \in FaultKind : faults' = Append(faults, kind)
    BY DEF Publish, Fault, FaultKind
  <2> QED BY <2>1, OnceLost DEF IInv, Parameters
<1>3. Parameters'
  BY <1>2 DEF IInv, Parameters, Publish, videoVars
<1>4. Stored'
  <2>1. handler'.at # "publish"
    BY DEF Publish, Idle
  <2> QED BY <2>1 DEF IInv, Stored, Publish
<1>5. Progress(n, base)'
  <2>1. handler'.at # "infer"
    BY DEF Publish, Idle
  <2> QED BY <1>1, <1>2, <2>1, SameResults DEF Publish, videoVars
<1> QED BY <1>3, <1>4, <1>5 DEF IInv

LEMMA FailureStep ==
  ASSUME IInv, [Next]_vars, Aside \/ StateLost
  PROVE  IInv'
<1>1. PICK n \in Nat, base \in [Nat -> Nat] : Progress(n, base)
  BY DEF IInv
<1>2. faults' \in Seq(FaultKind) /\ (Kept' => Kept)
  BY StepFrame, OnceLost DEF IInv, Parameters
<1>3. Parameters'
  BY <1>2, StepFrame DEF IInv, Parameters, videoVars
<1>4. CASE Aside
  <2>1. /\ UNCHANGED <<layout, state, cache, cut_results, recorded>>
        /\ handler' = handler \/ handler'.at = "idle"
    BY <1>4, StepFrame, AsideStep DEF resultVars, videoVars, Idle
  <2>2. Stored'
    BY <2>1 DEF IInv, Stored
  <2>3. handler'.at = "infer" => /\ handler'.chunk = n /\ n \in Chunks
                                 /\ StateAt(handler'.state, n, base)
    BY <1>1, <2>1 DEF Progress
  <2>4. Progress(n, base)'
    BY <1>1, <1>2, <2>1, <2>3, SameResults
  <2> QED BY <1>3, <2>2, <2>4 DEF IInv
<1>5. CASE StateLost
  <2>1. ~Kept'
    <3>1. faults' = Append(faults, "state_lost") /\ faults \in Seq(FaultKind)
      BY <1>5 DEF StateLost, Fault, IInv, Parameters
    <3>2. Len(faults) + 1 \in DOMAIN faults' /\ faults'[Len(faults) + 1] = "state_lost"
      BY ONLY <3>1, LastOfAppend
    <3>3. "state_lost" \in ToSet(faults')
      BY <3>2 DEF ToSet
    <3> QED BY <3>3 DEF Kept, Happened
  <2>2. Stored'
    BY <1>5 DEF IInv, Stored, StateLost, resultVars
  <2>3. Progress(n, base)'
    <3>1. handler'.at = "infer" => /\ handler'.chunk = n /\ n \in Chunks
                                   /\ StateAt(handler'.state, n, base)
      BY <1>1, <1>5 DEF Progress, StateLost
    <3> QED BY <1>1, <1>5, <2>1, <3>1, SameResults DEF StateLost, videoVars, resultVars
  <2> QED BY <1>3, <2>2, <2>3 DEF IInv
<1> QED BY <1>4, <1>5

LEMMA RecordStep ==
  ASSUME IInv, NEW r \in cut_results, CoordinatorRecords(r)
  PROVE  IInv'
<1>1. PICK n \in Nat, base \in [Nat -> Nat] : Progress(n, base)
  BY DEF IInv
<1>2. Parameters' /\ Stored' /\ Kept' = Kept
  BY DEF IInv, Parameters, Stored, CoordinatorRecords, videoVars, Kept, Happened
<1>3. Progress(n, base)'
  <2>1. handler'.at = "infer" => /\ handler'.chunk = n /\ n \in Chunks
                                 /\ StateAt(handler'.state, n, base)
    BY <1>1 DEF Progress, CoordinatorRecords
  <2> QED BY <1>1, <1>2, <2>1, SameResults DEF CoordinatorRecords, videoVars
<1> QED BY <1>2, <1>3 DEF IInv

(* The result r of chunk n, which was started with scene x, joins the      *)
(* others.                                                                 *)
With(r, n, x, new) ==
  /\ new[n] = x
  /\ ResultsOf(cache \cup {r}, new)
  /\ {o.chunk : o \in cache \cup {r}} = 0..n
  /\ \A o \in cache : /\ o.chunk \in Nat /\ o.chunk < n
                      /\ new[o.chunk] + Cardinality(o.transitions) <= x
  /\ Kept => \A o, q \in cache \cup {r} : q.chunk = o.chunk + 1 =>
               new[q.chunk] = new[o.chunk] + Cardinality(o.transitions)

LEMMA OneMoreResult ==
  ASSUME NEW n \in Nat, NEW base \in [Nat -> Nat], Progress(n, base), n \in Chunks,
         NEW S, OwnedBy(n, S), NEW x \in Nat, Follows(x, n, base),
         NEW r, r = Result(n, S, [scene |-> x])
  PROVE  \E new \in [Nat -> Nat] : With(r, n, x, new)
<1> DEFINE new == [base EXCEPT ![n] = x]
<1>1. r.chunk = n /\ r.transitions = S
  BY DEF Result
<1>2. new \in [Nat -> Nat] /\ new[n] = x
  OBVIOUS
<1>3. \A o \in cache : /\ o.chunk \in Nat /\ o.chunk < n /\ new[o.chunk] = base[o.chunk]
                       /\ base[o.chunk] + Cardinality(o.transitions) <= x
  <2> TAKE o \in cache
  <2>1. o.chunk \in Nat /\ o.chunk < n
    <3>1. o.chunk \in 0..(n - 1)
      BY DEF Progress
    <3> QED BY <3>1
  <2>2. base[o.chunk] + Cardinality(o.transitions) <= x
    BY DEF Follows
  <2> QED BY <2>1, <2>2
<1>4. r = Result(r.chunk, r.transitions, [scene |-> new[r.chunk]])
  BY <1>1, <1>2
<1> HIDE DEF new
<1>5. ResultsOf(cache, base)
  BY DEF Progress
<1>6. \A o \in cache \cup {r} :
        /\ o.chunk \in Chunks /\ OwnedBy(o.chunk, o.transitions)
        /\ o = Result(o.chunk, o.transitions, [scene |-> new[o.chunk]])
  <2> TAKE o \in cache \cup {r}
  <2>1. CASE o = r
    BY <1>1, <1>4, <2>1
  <2>2. CASE o \in cache
    BY <1>3, <1>5, <2>2 DEF ResultsOf
  <2> QED BY <2>1, <2>2
<1>7. \A o, q \in cache \cup {r} :
        /\ o.chunk = q.chunk => o = q
        /\ o.chunk < q.chunk => new[o.chunk] + Cardinality(o.transitions) <= new[q.chunk]
  <2> TAKE o, q \in cache \cup {r}
  <2>1. CASE o \in cache /\ q \in cache
    BY <1>3, <1>5, <2>1 DEF ResultsOf
  <2>2. CASE o \in cache /\ q = r
    BY <1>1, <1>2, <1>3, <2>2
  <2>3. CASE o = r /\ q \in cache
    BY <1>1, <1>3, <2>3
  <2>4. CASE o = r /\ q = r
    BY <1>1, <2>4
  <2> QED BY <2>1, <2>2, <2>3, <2>4
<1>8. ResultsOf(cache \cup {r}, new)
  BY <1>6, <1>7 DEF ResultsOf
<1>9. {o.chunk : o \in cache \cup {r}} = 0..n
  <2>1. {o.chunk : o \in cache \cup {r}} = {o.chunk : o \in cache} \cup {n}
    BY <1>1
  <2>2. {o.chunk : o \in cache} = 0..(n - 1)
    BY DEF Progress
  <2>3. 0..(n - 1) \cup {n} = 0..n
    OBVIOUS
  <2> QED BY <2>1, <2>2, <2>3
<1>10. ASSUME Kept, NEW o \in cache \cup {r}, NEW q \in cache \cup {r}, q.chunk = o.chunk + 1
       PROVE  new[q.chunk] = new[o.chunk] + Cardinality(o.transitions)
  <2>1. CASE o \in cache /\ q \in cache
    BY <1>3, <1>10, <2>1 DEF Progress
  <2>2. CASE o \in cache /\ q = r
    <3>1. n = o.chunk + 1
      BY <1>1, <1>10, <2>2
    <3>2. base[o.chunk] + Cardinality(o.transitions) = x
      BY <1>10, <2>2, <3>1 DEF Follows
    <3> QED BY <1>1, <1>2, <1>3, <2>2, <3>2
  <2>3. CASE o = r
    BY <1>1, <1>3, <1>10, <2>3
  <2> QED BY <2>1, <2>2, <2>3
<1>11. \A o \in cache : /\ o.chunk \in Nat /\ o.chunk < n
                        /\ new[o.chunk] + Cardinality(o.transitions) <= x
  BY <1>3
<1>12. With(r, n, x, new)
  BY <1>2, <1>8, <1>9, <1>10, <1>11 DEF With
<1> QED BY <1>2, <1>12

(* The step that stores it, with the state after it, in one transaction.   *)
LEMMA ResultStored ==
  ASSUME NEW n \in Nat, NEW base \in [Nat -> Nat], Progress(n, base), n \in Chunks,
         NEW S, OwnedBy(n, S), NEW x \in Nat, Follows(x, n, base),
         NEW r, r = Result(n, S, [scene |-> x]),
         NEW P, P \subseteq 0..(layout.frames - 1),
         cache' = cache \cup {r}, layout' = layout, faults' = faults,
         state' = {[next |-> n + 1, scene |-> x + Cardinality(S), pending |-> P]},
         handler'.at # "infer"
  PROVE  \E new \in [Nat -> Nat] : Progress(n + 1, new)'
<1>1. PICK new \in [Nat -> Nat] : With(r, n, x, new)
  BY OneMoreResult
<1>2. r.chunk = n /\ r.transitions = S
  BY DEF Result
<1>3. \A o \in cache \cup {r} : Cardinality(o.transitions) \in Nat
  BY <1>1, FS_CardinalityType DEF With, ResultsOf, OwnedBy
<1>4. Cardinality(S) \in Nat
  BY <1>2, <1>3
<1>5. \A o \in cache \cup {r} :
        /\ new[o.chunk] + Cardinality(o.transitions) <= x + Cardinality(S)
        /\ n + 1 = o.chunk + 1 =>
             new[o.chunk] + Cardinality(o.transitions) = x + Cardinality(S)
  <2> TAKE o \in cache \cup {r}
  <2>1. CASE o = r
    BY <1>1, <1>2, <1>4, <2>1 DEF With
  <2>2. CASE o \in cache
    <3>1. new[o.chunk] \in Nat /\ Cardinality(o.transitions) \in Nat
      BY <1>1, <1>3, <2>2 DEF With
    <3> QED BY <1>1, <1>4, <2>2, <3>1 DEF With
  <2> QED BY <2>1, <2>2
<1>6. ResultsOf(cache, new)'
  <2>1. \A R : R = cache' => ResultsOf(R, new)
    BY <1>1 DEF With
  <2>2. \A R : ResultsOf(R, new) => ResultsOf(R, new)'
    BY SameVideo
  <2>3. \A R : R = cache' => ResultsOf(R, new)'
    BY <2>1, <2>2
  <2> QED BY <2>3 DEF ResultsOf
<1>7. Kept' = Kept
  BY DEF Kept, Happened
<1>8. \A s \in state' : StateAt(s, n + 1, new)'
  <2> SUFFICES ASSUME NEW s, s = [next |-> n + 1, scene |-> x + Cardinality(S), pending |-> P]
               PROVE  StateAt(s, n + 1, new)'
    OBVIOUS
  <2>1. Follows(s.scene, n + 1, new)'
    BY <1>5 DEF Follows
  <2>2. /\ s.next = n + 1 /\ s.scene \in Nat
        /\ s.pending \subseteq 0..(layout'.frames - 1)
    BY <1>4
  <2> QED BY <2>1, <2>2 DEF StateAt
<1>9. {o.chunk : o \in cache'} = 0..((n + 1) - 1)
  BY <1>1 DEF With
<1>10. Kept' => \A o, q \in cache' : q.chunk = o.chunk + 1 =>
                  new[q.chunk] = new[o.chunk] + Cardinality(o.transitions)
  BY <1>1, <1>7 DEF With
<1>11. state' # {}
  OBVIOUS
<1> QED BY <1>6, <1>8, <1>9, <1>10, <1>11 DEF Progress

LEMMA PersistStep ==
  ASSUME IInv, Persist
  PROVE  IInv'
<1>1. PICK n \in Nat, base \in [Nat -> Nat] : Progress(n, base)
  BY DEF IInv
<1>2. PICK st : st = handler.state
  OBVIOUS
<1>3. /\ handler.chunk = n /\ n \in Chunks /\ StateAt(st, n, base)
      /\ st.scene \in Nat /\ Follows(st.scene, n, base)
      /\ st.pending \subseteq 0..(layout.frames - 1) /\ (st.pending # {} => n > 0)
  BY <1>1, <1>2 DEF Progress, Persist, StateAt
<1>4. PICK x \in Nat : x = st.scene
  BY <1>3
<1>5. PICK seen : seen = Detections(n)
  OBVIOUS
<1>6. PICK S : S = Owned(n, seen, st.pending)
  OBVIOUS
<1>7. PICK P : P = NextPending(n, seen, st.pending)
  OBVIOUS
<1>8. PICK r : r = Result(n, S, [scene |-> x])
  OBVIOUS
<1>9. layout \in Layouts /\ \A v \in video : v.start \in Int /\ v.end \in Int
  BY DEF IInv, Parameters
<1>10. OwnedBy(n, S) /\ P \subseteq 0..(layout.frames - 1)
  <2>1. \A t \in seen : /\ t \in TransitionsWithin(layout.frames)
                        /\ t.end <= ValidEnd(layout, n)
    BY <1>3, <1>5, <1>9, DetectionsInContext
  <2> QED BY <1>3, <1>6, <1>7, <1>9, <2>1, OwnedTransitions
<1>11. Result(n, S, st) = r
  <2>1. \A E, e : SceneAfter(n, E, e, st) = SceneAfter(n, E, e, [scene |-> x])
    BY <1>4 DEF SceneAfter
  <2>2. Scenes(n, S, st) = Scenes(n, S, [scene |-> x])
    BY <2>1 DEF Scenes
  <2> QED BY <1>8, <2>2 DEF Result
<1>12. NextState(n, seen, S, st)
       = [next |-> n + 1, scene |-> x + Cardinality(S), pending |-> P]
  BY <1>4, <1>7 DEF NextState, NextScene
<1>13. Answer(n, st) = [seen |-> seen, owned |-> S]
  BY <1>5, <1>6 DEF Answer
<1>14. /\ cache' = cache \cup {r}
       /\ state' = {[next |-> n + 1, scene |-> x + Cardinality(S), pending |-> P]}
       /\ handler' = [at |-> "publish", result |-> r]
       /\ UNCHANGED <<layout, video, cut_results, recorded, faults>>
  <2>1. /\ cache' = cache \cup {Result(n, S, st)}
        /\ state' = {NextState(n, seen, S, st)}
        /\ handler' = [at |-> "publish", result |-> Result(n, S, st)]
        /\ UNCHANGED <<layout, video, cut_results, recorded, faults>>
    BY <1>2, <1>3, <1>13 DEF Persist, videoVars
  <2> QED BY <1>11, <1>12, <2>1
<1>15. Parameters' /\ Stored'
  BY <1>14 DEF IInv, Parameters, Stored
<1>16. \E new \in [Nat -> Nat] : Progress(n + 1, new)'
  <2>1. handler'.at # "infer"
    BY <1>14
  <2>2. Follows(x, n, base)
    BY <1>3, <1>4
  <2> QED BY <1>1, <1>3, <1>8, <1>10, <1>14, <2>1, <2>2, ResultStored
<1> QED BY <1>15, <1>16 DEF IInv

(* Every step keeps the invariant.                                         *)
LEMMA StepIInv == IInv /\ [Next]_vars => IInv'
<1> SUFFICES ASSUME IInv, [Next]_vars PROVE IInv'
  OBVIOUS
<1>1. ASSUME NEW c \in Chunks, Start(c) PROVE IInv'
  BY <1>1, StartStep
<1>2. CASE Persist
  BY <1>2, PersistStep
<1>3. CASE Publish
  BY <1>3, PublishStep
<1>4. CASE Aside \/ StateLost
  BY <1>4, FailureStep
<1>5. ASSUME NEW r \in cut_results, CoordinatorRecords(r) PROVE IInv'
  BY <1>5, RecordStep
<1>6. CASE UNCHANGED vars
  <2>1. PICK n \in Nat, base \in [Nat -> Nat] : Progress(n, base)
    BY DEF IInv
  <2>2. Parameters' /\ Stored' /\ Kept' = Kept
    BY <1>6 DEF IInv, Parameters, Stored, vars, videoVars, resultVars, Kept, Happened
  <2>3. handler'.at = "infer" => /\ handler'.chunk = n /\ n \in Chunks
                                 /\ StateAt(handler'.state, n, base)
    BY <1>6, <2>1 DEF Progress, vars
  <2>4. Progress(n, base)'
    BY <1>6, <2>1, <2>2, <2>3, SameResults DEF vars, videoVars, resultVars
  <2> QED BY <2>2, <2>4 DEF IInv
<1> QED BY <1>1, <1>2, <1>3, <1>4, <1>5, <1>6 DEF Next, Work, Handle, Aside

(* The invariant holds in every behaviour of the cut worker.               *)
THEOREM Invariance == Spec => []IInv
<1>1. Init => IInv
  BY InitIInv
<1>2. IInv /\ [Next]_vars => IInv'
  BY StepIInv
<1> QED BY <1>1, <1>2, PTL DEF Spec

-----------------------------------------------------------------------------
LEMMA FewerResults ==
  ASSUME NEW R, NEW base, ResultsOf(R, base), NEW Q, Q \subseteq R
  PROVE  ResultsOf(Q, base)
BY DEF ResultsOf

LEMMA IInvOneResult == IInv => OneResult
<1> SUFFICES ASSUME IInv PROVE OneResult
  OBVIOUS
<1>1. PICK n \in Nat, base \in [Nat -> Nat] : Progress(n, base)
  BY DEF IInv
<1>2. ResultsOf(cache, base)
  BY <1>1 DEF Progress
<1>3. cut_results \cup cache = cache
  BY DEF IInv, Stored
<1> QED BY <1>2, <1>3 DEF OneResult, ResultsOf

(* Whatever fails, is delivered again or is lost, a chunk has one result:  *)
(* the one that is cached is the one that is published.                    *)
THEOREM OneResultForEver == Spec => []OneResult
<1>1. IInv => OneResult
  BY IInvOneResult
<1> QED BY <1>1, Invariance, PTL

LEMMA IInvNumbersGrow == IInv => NumbersGrow
<1> SUFFICES ASSUME IInv PROVE NumbersGrow
  OBVIOUS
<1>1. PICK n \in Nat, base \in [Nat -> Nat] : Progress(n, base)
  BY DEF IInv
<1>2. layout \in Layouts /\ ResultsOf(cache, base)
  BY <1>1 DEF IInv, Parameters, Progress
<1>3. Pieces = PiecesOf(cache)
  BY DEF Pieces, PiecesOf
<1> QED BY <1>2, <1>3, PieceNumbers DEF NumbersGrow

(* Scene numbers grow along the video, also after the state was rebuilt    *)
(* from the record of the chunk before: no number is given to two scenes.  *)
THEOREM NumbersGrowAlong == Spec => []NumbersGrow
<1>1. IInv => NumbersGrow
  BY IInvNumbersGrow
<1> QED BY <1>1, Invariance, PTL

LEMMA OneNumberOfFrame ==
  ASSUME layout \in Layouts, NEW base \in [Nat -> Nat], ResultsOf(cache, base),
         NEW f \in Nat, SceneOf(f) # {}
  PROVE  \E p \in PiecesOf(cache) : /\ p.start <= f /\ f <= p.end
                                    /\ SceneOf(f) = {p.nr}
<1>1. Pieces = PiecesOf(cache)
  BY DEF Pieces, PiecesOf
<1>2. \A q \in PiecesOf(cache) : q.start \in Nat /\ q.end \in Nat
  BY PieceBounds DEF PiecesOf
<1>3. PICK p \in PiecesOf(cache) : f \in p.start..p.end
  BY <1>1 DEF SceneOf
<1>4. p.start <= f /\ f <= p.end
  BY <1>2, <1>3
<1>5. ASSUME NEW q \in PiecesOf(cache), f \in q.start..q.end PROVE q = p
  <2>1. q.start <= f /\ f <= q.end
    BY <1>2, <1>5
  <2>2. ~(p.end < q.start) /\ ~(q.end < p.start)
    BY <1>2, <1>4, <2>1
  <2> QED BY <2>2, PiecesApart
<1>6. {q \in Pieces : f \in q.start..q.end} = {p}
  BY <1>1, <1>3, <1>5
<1>7. SceneOf(f) = {p.nr}
  BY <1>6 DEF SceneOf
<1> QED BY <1>4, <1>7

LEMMA IInvScenesFollow == IInv => ScenesFollowTransitions
<1> SUFFICES ASSUME IInv, Kept, NEW f \in 0..(layout.frames - 2),
                    SceneOf(f) # {}, SceneOf(f + 1) # {}
             PROVE  SceneOf(f) = SceneOf(f + 1)
                      <=> \A t \in MergedTransitions(cache) : t.end # f
  BY DEF ScenesFollowTransitions
<1>1. PICK n \in Nat, base \in [Nat -> Nat] : Progress(n, base)
  BY DEF IInv
<1>2. layout \in Layouts /\ ResultsOf(cache, base)
  BY <1>1 DEF IInv, Parameters, Progress
<1>3. f \in Nat /\ f + 1 \in Nat
  OBVIOUS
<1>4. PICK p \in PiecesOf(cache) : p.start <= f /\ f <= p.end /\ SceneOf(f) = {p.nr}
  BY <1>2, <1>3, OneNumberOfFrame
<1>5. PICK q \in PiecesOf(cache) : /\ q.start <= f + 1 /\ f + 1 <= q.end
                                  /\ SceneOf(f + 1) = {q.nr}
  BY <1>2, <1>3, OneNumberOfFrame
<1>6. \A r, o \in cache : o.chunk = r.chunk + 1 =>
        base[o.chunk] = base[r.chunk] + Cardinality(r.transitions)
  BY <1>1 DEF Progress
<1>7. p.nr = q.nr <=> \A t \in MergedTransitions(cache) : t.end # f
  BY <1>2, <1>3, <1>4, <1>5, <1>6, SameSceneUnlessEnded
<1> QED BY <1>4, <1>5, <1>7

(* As long as the hash is kept, scenes change exactly where a reported     *)
(* transition ends, also across the chunks.                                *)
THEOREM ScenesFollow == Spec => []ScenesFollowTransitions
<1>1. IInv => ScenesFollowTransitions
  BY IInvScenesFollow
<1> QED BY <1>1, Invariance, PTL

LEMMA IInvFinalScenes == IInv => FinalScenesTile
<1> SUFFICES ASSUME IInv, {r.chunk : r \in recorded} = Chunks,
                    NEW f \in 0..(layout.frames - 1)
             PROVE  Cardinality({s \in MergedScenes(recorded) : f \in s.start..s.end}) = 1
  BY DEF FinalScenesTile
<1>1. PICK n \in Nat, base \in [Nat -> Nat] : Progress(n, base)
  BY DEF IInv
<1>2. layout \in Layouts /\ recorded \subseteq cache
  BY DEF IInv, Parameters, Stored
<1>3. ResultsOf(recorded, base)
  BY <1>1, <1>2, FewerResults DEF Progress
<1> QED BY <1>2, <1>3, MergedScenesTile

(* The scenes of the aggregated result cover the video: each frame is in   *)
(* exactly one of them, whatever was lost on the way.                      *)
THEOREM FinalScenesTileTheVideo == Spec => []FinalScenesTile
<1>1. IInv => FinalScenesTile
  BY IInvFinalScenes
<1> QED BY <1>1, Invariance, PTL
-----------------------------------------------------------------------------
(***************************************************************************)
(* What is reported of a transition.  The transitions of a video are       *)
(* apart; a chunk sees the part of each that lies in its context.          *)
(***************************************************************************)
Event(v) ==
  /\ v.start \in Nat /\ v.end \in Nat /\ v.start <= v.end /\ v.end < layout.frames
  /\ \/ v.kind = "hard" /\ v.end = v.start /\ v.peak = v.start /\ v.strong = TRUE
     \/ /\ v.kind = "gradual" /\ v.end - v.start + 1 >= GradualMin
        /\ v.peak \in v.start..v.end /\ NearMiddle(v.start, v.end, v.peak)

At(f, v) == v.start <= f /\ f <= v.end

VideoInv ==
  /\ layout \in Layouts
  /\ \A v \in video : Event(v)
  /\ \A v, w \in video : \A f \in Int : At(f, v) /\ At(f, w) => v = w

LEMMA InitVideo == Init => VideoInv
<1> SUFFICES ASSUME Init PROVE VideoInv
  OBVIOUS
<1>1. layout \in Layouts /\ layout.frames \in Nat \ {0}
  BY LayoutsAssumption DEF Init
<1>2. PICK k \in 0..MaxTransitions : \E s \in [1..k -> EventsWithin(layout.frames)] :
                                       Apart(s) /\ video = ToSet(s)
  <2>1. video \in Videos(layout.frames)
    BY DEF Init
  <2> QED BY <2>1 DEF Videos
<1>3. PICK s \in [1..k -> EventsWithin(layout.frames)] : Apart(s) /\ video = ToSet(s)
  BY <1>2
<1>4. ASSUME NEW v \in EventsWithin(layout.frames) PROVE Event(v)
  <2>1. v \in Events(layout.frames) /\ v.end < layout.frames
    BY DEF EventsWithin
  <2>2. ASSUME NEW f \in 0..(layout.frames - 1), v = HardEvent(f) PROVE Event(v)
    BY <2>1, <2>2 DEF HardEvent, Event
  <2>3. ASSUME NEW a \in 0..(layout.frames - GradualMin), NEW n \in GradualMin..GradualMax,
               v \in GradualEvents(a, a + n - 1)
        PROVE  Event(v)
    <3>1. /\ v.kind = "gradual" /\ v.start = a /\ v.end = a + n - 1
          /\ v.peak \in a..(a + n - 1) /\ NearMiddle(a, a + n - 1, v.peak)
      BY <2>3 DEF GradualEvents
    <3>2. a \in Nat /\ n \in Nat /\ n >= GradualMin /\ GradualMin \in Nat /\ GradualMin >= 2
      BY DetectorAssumption
    <3> QED BY <2>1, <3>1, <3>2 DEF Event
  <2> QED BY <2>1, <2>2, <2>3 DEF Events
<1>5. \A i \in 1..k : s[i] \in video /\ Event(s[i])
  BY <1>3, <1>4 DEF ToSet
<1>6. \A v \in video : \E i \in 1..k : v = s[i]
  BY <1>3 DEF ToSet
<1>7. \A i, j \in 1..k : i < j => s[i].end + 1 < s[j].start
  BY <1>3 DEF Apart
<1>8. ASSUME NEW v \in video, NEW w \in video, NEW f \in Int, At(f, v), At(f, w)
      PROVE  v = w
  <2>1. PICK i \in 1..k : v = s[i]
    BY <1>6
  <2>2. PICK j \in 1..k : w = s[j]
    BY <1>6
  <2>3. /\ v.start \in Nat /\ v.end \in Nat /\ w.start \in Nat /\ w.end \in Nat
    BY <1>5, <2>1, <2>2 DEF Event
  <2>4. ~ (i < j) /\ ~ (j < i)
    BY <1>7, <1>8, <2>1, <2>2, <2>3 DEF At
  <2>5. i = j
    BY <2>4
  <2> QED BY <2>1, <2>2, <2>5
<1>9. \A v \in video : Event(v)
  BY <1>5, <1>6
<1> QED BY <1>1, <1>8, <1>9 DEF VideoInv

(* The context of a chunk, and the chunk that owns a frame.                *)
LEMMA OwnerChunk ==
  ASSUME layout \in Layouts, NEW v, v.end \in 0..(layout.frames - 1)
  PROVE  /\ Owner(v) \in Chunks
         /\ ValidStart(layout, Owner(v)) <= v.end /\ v.end <= ValidEnd(layout, Owner(v))
<1>1. PICK c \in 0..(TotalChunks(layout) - 1) :
        ValidStart(layout, c) <= v.end /\ v.end <= ValidEnd(layout, c)
  BY ChunkOfFrame
<1>2. layout.frames \in Nat \ {0} /\ layout.size \in Nat \ {0} /\ v.end \in Nat
  BY LayoutsAssumption
<1>3. c \in Nat
  OBVIOUS
<1> DEFINE o == Owner(v)
           p == c * layout.size
           q == o * layout.size
<1>4. o \in Nat /\ q <= v.end /\ v.end < q + layout.size /\ q \in Nat
  BY <1>2 DEF Owner
<1>5. p <= v.end /\ v.end < p + layout.size /\ p \in Nat
  <2>1. p \in Nat /\ ValidStart(layout, c) = p
    BY <1>2, <1>3 DEF ValidStart
  <2> HIDE DEF p
  <2>2. ValidEnd(layout, c) = Min({p + layout.size, layout.frames}) - 1
    BY <2>1 DEF ValidEnd
  <2>3. Min({p + layout.size, layout.frames}) <= p + layout.size
        /\ Min({p + layout.size, layout.frames}) \in Int
    BY <1>2, <2>1, MinOfPair
  <2> QED BY <1>1, <1>2, <2>1, <2>2, <2>3
<1> HIDE DEF o
<1>6. o = c
  <2>1. o < c => q + layout.size <= p
    <3>1. o < c => (o + 1) * layout.size <= c * layout.size
      BY <1>2, <1>3, <1>4
    <3> QED BY <1>2, <1>4, <3>1
  <2>2. c < o => p + layout.size <= q
    <3>1. c < o => (c + 1) * layout.size <= o * layout.size
      BY <1>2, <1>3, <1>4
    <3> QED BY <1>2, <1>3, <3>1
  <2> HIDE DEF p, q
  <2> QED BY <1>2, <1>3, <1>4, <1>5, <2>1, <2>2
<1> QED BY <1>1, <1>6 DEF o, Chunks

(* The contexts of neighbours overlap, those of other chunks do not.       *)
LEMMA ContextAfter ==
  ASSUME layout \in Layouts, NEW c \in Chunks, NEW d \in Chunks, c < d
  PROVE  ContextStart(layout, d) > Boundary(c)
<1>1. layout.size \in Nat \ {0} /\ layout.overlap \in Nat /\ layout.overlap < layout.size
  BY LayoutsAssumption
<1>2. c \in Nat /\ d \in Nat
  BY DEF Chunks
<1>3. (c + 1) * layout.size <= d * layout.size
  BY <1>1, <1>2
<1> DEFINE p == c * layout.size
           q == d * layout.size
<1>4. p + layout.size <= q /\ p \in Nat /\ q \in Nat
  BY <1>1, <1>2, <1>3
<1>5. ValidStart(layout, c) = p /\ ValidStart(layout, d) = q
  BY DEF ValidStart
<1> HIDE DEF p, q
<1>6. ContextStart(layout, d) >= q - layout.overlap /\ ContextStart(layout, d) \in Int
  BY <1>1, <1>4, <1>5, MaxOfPair DEF ContextStart
<1> QED BY <1>1, <1>4, <1>5, <1>6 DEF Boundary
(* The part of a gradual transition that a chunk reports as one, and a     *)
(* transition that is seen as a whole.                                     *)
Span(t) == t = Gradual(t.start, t.end) /\ t.start \in Nat /\ t.end \in Nat /\ t.start <= t.end

PartOf(t, w, c) ==
  /\ Span(t) /\ w.start <= t.start /\ t.end <= w.end /\ t.end <= ValidEnd(layout, c)
  /\ w.start >= ContextStart(layout, c) => t.start = w.start
  /\ w.end <= ValidEnd(layout, c) => t.end = w.end
  /\ w.end > ValidEnd(layout, c) => t.end = ValidEnd(layout, c)

Shape(v) == [kind |-> v.kind, start |-> v.start, end |-> v.end]

LEMMA DetectionParts ==
  ASSUME VideoInv, NEW v \in video, NEW c \in Chunks
  PROVE  /\ \A t \in Detection(v, ContextStart(layout, c), ContextEnd(layout, c)) :
              \/ t.kind = "gradual" /\ v.kind = "gradual" /\ PartOf(t, v, c)
              \/ t = HardCut(v.peak) /\ At(v.peak, v)
         /\ ContextStart(layout, c) <= v.start /\ v.end <= ValidEnd(layout, c) =>
              Shape(v) \in Detection(v, ContextStart(layout, c), ContextEnd(layout, c))
<1>1. /\ ContextStart(layout, c) \in Nat /\ ContextEnd(layout, c) = ValidEnd(layout, c)
      /\ ValidEnd(layout, c) \in Nat
  BY ChunkBounds DEF Chunks, VideoInv
<1>2. Event(v)
  BY DEF VideoInv
<1>3. PICK a : a = ContextStart(layout, c)
  OBVIOUS
<1>4. PICK b : b = ValidEnd(layout, c)
  OBVIOUS
<1>5. a \in Nat /\ b \in Nat /\ v.start \in Nat /\ v.end \in Nat /\ v.start <= v.end
      /\ v.peak \in v.start..v.end /\ GradualMin \in Nat /\ GradualMin >= 2
  BY <1>1, <1>2, <1>3, <1>4, DetectorAssumption DEF Event
<1> DEFINE s == Max({v.start, a})
           e == Min({v.end, b})
           seenWhole == v.kind = "gradual" /\ e - s + 1 >= GradualMin /\ v.peak \in s..e
                          /\ NearMiddle(s, e, v.peak)
           parts == Detection(v, a, b)
<1>6. /\ s = IF v.start >= a THEN v.start ELSE a
      /\ e = IF v.end <= b THEN v.end ELSE b
  BY <1>5, MinOfPair, MaxOfPair
<1>7. /\ s > e => parts = {}
      /\ s <= e /\ seenWhole => parts = {Gradual(s, e)}
      /\ s <= e /\ ~seenWhole => parts = {HardCut(p) : p \in {v.peak} \cap (IF v.strong THEN s..e ELSE {})}
  <2>1. parts = IF s > e
                THEN {}
                ELSE IF seenWhole
                     THEN {Gradual(s, e)}
                     ELSE {HardCut(p) : p \in {v.peak} \cap (IF v.strong THEN s..e ELSE {})}
    BY DEF Detection
  <2>2. s \in Int /\ e \in Int
    BY <1>5, <1>6
  <2> HIDE DEF parts, seenWhole, s, e
  <2>3. s > e \/ s <= e
    BY <2>2
  <2>4. s > e => ~ (s <= e)
    BY <2>2
  <2> QED BY <2>1, <2>3, <2>4
<1> HIDE DEF parts, s, e
<1>8. ASSUME NEW t \in parts
      PROVE  \/ t.kind = "gradual" /\ v.kind = "gradual" /\ PartOf(t, v, c)
             \/ t = HardCut(v.peak) /\ At(v.peak, v)
  <2>1. s <= e
    BY <1>5, <1>6, <1>7, <1>8
  <2>2. CASE seenWhole
    <3>1. t = Gradual(s, e) /\ v.kind = "gradual"
      BY <1>7, <2>1, <2>2
    <3>2. t.kind = "gradual" /\ t.start = s /\ t.end = e /\ t = Gradual(t.start, t.end)
      BY <3>1 DEF Gradual
    <3>3. PartOf(t, v, c)
      BY <1>3, <1>4, <1>5, <1>6, <2>1, <3>2 DEF PartOf, Span
    <3> QED BY <3>1, <3>2, <3>3
  <2>3. CASE ~seenWhole
    <3>1. t \in {HardCut(p) : p \in {v.peak} \cap (IF v.strong THEN s..e ELSE {})}
      BY <1>7, <2>1, <2>3
    <3>2. t = HardCut(v.peak)
      BY <3>1
    <3> QED BY <1>5, <3>2 DEF At
  <2> QED BY <2>2, <2>3
<1>9. ASSUME a <= v.start, v.end <= b PROVE Shape(v) \in parts
  <2>1. s = v.start /\ e = v.end /\ s <= e
    BY <1>5, <1>6, <1>9
  <2>2. CASE v.kind = "gradual"
    <3>1. seenWhole
      BY <1>2, <2>1, <2>2 DEF Event
    <3> QED BY <1>7, <2>1, <2>2, <3>1 DEF Shape, Gradual
  <2>3. CASE v.kind = "hard"
    <3>1. ~seenWhole /\ v.strong = TRUE /\ v.peak = v.start /\ v.end = v.start
      BY <1>2, <2>3 DEF Event
    <3>2. v.peak \in s..e
      BY <1>5, <2>1
    <3>3. HardCut(v.peak) \in parts
      BY <1>7, <2>1, <3>1, <3>2
    <3> QED BY <2>3, <3>1, <3>3 DEF Shape, HardCut
  <2> QED BY <1>2, <2>2, <2>3 DEF Event
<1> QED BY <1>1, <1>3, <1>4, <1>8, <1>9 DEF parts

LEMMA SeenParts ==
  ASSUME VideoInv, NEW c \in Chunks
  PROVE  /\ \A t \in Detections(c) :
              \/ t.kind = "gradual" /\ \E v \in video : v.kind = "gradual" /\ PartOf(t, v, c)
              \/ \E v \in video : t = HardCut(v.peak) /\ At(v.peak, v)
         /\ \A v \in video : ContextStart(layout, c) <= v.start /\ v.end <= ValidEnd(layout, c)
                               => Shape(v) \in Detections(c)
<1>1. \A t \in Detections(c) : \E v \in video :
        t \in Detection(v, ContextStart(layout, c), ContextEnd(layout, c))
  BY DEF Detections
<1>2. \A v \in video : Detection(v, ContextStart(layout, c), ContextEnd(layout, c)) \subseteq Detections(c)
  BY DEF Detections
<1> QED BY <1>1, <1>2, DetectionParts
(* A pending start is that of a part of the gradual transition which goes  *)
(* on over the boundary; it is exact if the chunk before saw all of it.    *)
Crosses(w, c) == w.kind = "gradual" /\ At(Boundary(c), w)

PendingAt(c, P) ==
  /\ \A p \in P : /\ P = {p} /\ p \in Nat /\ c > 0
                  /\ \E w \in video : Crosses(w, c) /\ At(p, w) /\ p <= Boundary(c)
  /\ c > 0 => \A v \in video : v.kind = "gradual" /\ v.end = Boundary(c)
                                 /\ v.start >= ContextStart(layout, c - 1) => P = {v.start}

Candidates(c, P) == Resumed(c, Detections(c), P) \cup Others(c, Detections(c), P)

(* What a candidate of chunk c can be a report of: a part that is seen in  *)
(* the chunk, or a pending transition with or without one.                 *)
Found(t, w, c) == PartOf(t, w, c) /\ t.end >= ValidStart(layout, c)

Closed(t, w, c, p) ==
  /\ Crosses(w, c) /\ At(p, w) /\ p <= Boundary(c) /\ t = Gradual(p, Boundary(c))
  /\ \A u : PartOf(u, w, c) /\ At(Boundary(c), u) => u \notin Detections(c)

GoneOn(t, w, c, p) ==
  /\ Crosses(w, c) /\ At(p, w) /\ p <= Boundary(c)
  /\ \E u : /\ PartOf(u, w, c) /\ At(Boundary(c), u)
            /\ t = Gradual(IF p <= u.start THEN p ELSE u.start, u.end)

LEMMA BoundaryInt ==
  ASSUME VideoInv, NEW c \in Chunks
  PROVE  Boundary(c) \in Int /\ c \in Nat /\ (c > 0 => Boundary(c) \in Nat)
<1>1. layout.size \in Nat \ {0} /\ c \in Nat
  BY LayoutsAssumption DEF VideoInv, Chunks
<1>2. c > 0 => c * layout.size > 0
  <2>1. \A x, y \in Nat : x > 0 /\ y > 0 => x * y > 0
    OBVIOUS
  <2> QED BY <1>1, <2>1
<1>3. c * layout.size \in Nat
  BY <1>1
<1>4. Boundary(c) = c * layout.size - 1
  BY DEF Boundary, ValidStart
<1> DEFINE x == c * layout.size
<1> HIDE DEF x
<1> QED BY <1>1, <1>2, <1>3, <1>4 DEF x

LEMMA OneCrossing ==
  ASSUME VideoInv, NEW c \in Chunks, NEW v \in video, NEW w \in video,
         At(Boundary(c), v), At(Boundary(c), w)
  PROVE  v = w
BY BoundaryInt DEF VideoInv

LEMMA WhatIsCandidate ==
  ASSUME VideoInv, NEW c \in Chunks, NEW P, PendingAt(c, P), NEW t \in Candidates(c, P)
  PROVE  \E w \in video :
           /\ w.kind = "gradual"
           /\ Span(t) /\ w.start <= t.start /\ t.end <= w.end
           /\ Found(t, w, c) \/ \E p \in P : Closed(t, w, c, p) \/ GoneOn(t, w, c, p)
<1> DEFINE seen == Detections(c)
<1>1. \A u \in Graduals(seen) : \E v \in video : v.kind = "gradual" /\ PartOf(u, v, c)
  BY SeenParts DEF Graduals, HardCut
<1>2. \A u : Span(u) => u.start \in Nat /\ u.end \in Nat /\ u.start <= u.end
  BY DEF Span
<1>3. Boundary(c) \in Int /\ \A v \in video : v.start \in Nat /\ v.end \in Nat
  BY BoundaryInt DEF VideoInv, Event
<1>4. CASE t \in Others(c, seen, P)
  <2>1. t \in Graduals(seen) /\ t.end >= ValidStart(layout, c)
    BY <1>4 DEF Others
  <2>2. PICK v \in video : v.kind = "gradual" /\ PartOf(t, v, c)
    BY <1>1, <2>1
  <2> QED BY <2>1, <2>2 DEF Found, PartOf
<1>5. CASE t \in Resumed(c, seen, P)
  <2>1. PICK p \in P : P = {p} /\ p \in Nat
    BY <1>5 DEF Resumed, PendingAt
  <2>2. PICK w \in video : Crosses(w, c) /\ At(p, w) /\ p <= Boundary(c)
    BY <2>1 DEF PendingAt
  <2>3. Min(P) = p /\ P # {}
    BY <2>1 DEF Min
  <2>4. w.kind = "gradual" /\ At(Boundary(c), w)
    BY <2>2 DEF Crosses
  <2>5. CASE Continuation(c, seen) = {}
    <3>1. t = Gradual(p, Boundary(c))
      BY <1>5, <2>3, <2>5 DEF Resumed
    <3>2. \A u : PartOf(u, w, c) /\ At(Boundary(c), u) => u \notin seen
      BY <2>5 DEF Continuation, Graduals, At, PartOf, Span, Gradual
    <3>3. Closed(t, w, c, p)
      BY <2>2, <3>1, <3>2 DEF Closed
    <3>4. t.start = p /\ t.end = Boundary(c)
      BY <3>1 DEF Gradual
    <3>5. Boundary(c) \in Nat
      BY <1>3, <2>1, <2>2
    <3>6. Span(t) /\ w.start <= t.start /\ t.end <= w.end
      BY <2>1, <2>2, <2>4, <3>1, <3>4, <3>5 DEF Span, At
    <3> QED BY <2>4, <3>3, <3>6
  <2>6. CASE Continuation(c, seen) # {}
    <3>1. PICK u \in Continuation(c, seen) : t = Gradual(Min({Min(P), u.start}), u.end)
      BY <1>5, <2>3, <2>6 DEF Resumed
    <3>2. u \in Graduals(seen) /\ At(Boundary(c), u)
      BY DEF Continuation, At
    <3>3. PICK v \in video : v.kind = "gradual" /\ PartOf(u, v, c)
      BY <1>1, <3>2
    <3>4. /\ u.start \in Nat /\ u.end \in Nat /\ u.start <= u.end
          /\ v.start <= u.start /\ u.end <= v.end
      BY <1>2, <3>3 DEF PartOf
    <3>5. v = w
      <4>1. At(Boundary(c), v)
        BY <1>3, <3>2, <3>4 DEF At
      <4> QED BY <2>4, <4>1, OneCrossing
    <3>6. Min({Min(P), u.start}) = IF p <= u.start THEN p ELSE u.start
      BY <2>1, <2>3, <3>4, MinOfPair
    <3>7. GoneOn(t, w, c, p)
      BY <2>2, <3>1, <3>2, <3>3, <3>5, <3>6 DEF GoneOn
    <3> DEFINE s == IF p <= u.start THEN p ELSE u.start
    <3>8. t = Gradual(s, u.end) /\ t.start = s /\ t.end = u.end
      BY <3>1, <3>6 DEF Gradual
    <3>9. s \in Nat /\ s <= u.end /\ w.start <= s
      BY <1>3, <2>1, <2>2, <3>4, <3>5 DEF At
    <3>10. Span(t) /\ w.start <= t.start /\ t.end <= w.end
      BY <3>4, <3>5, <3>8, <3>9 DEF Span
    <3> QED BY <2>4, <3>7, <3>10
  <2> QED BY <2>5, <2>6
<1> QED BY <1>4, <1>5 DEF Candidates
(* A gradual transition that ends in the chunk and is seen as a whole is a *)
(* candidate with its exact frames.                                        *)
LEMMA WholeIsCandidate ==
  ASSUME VideoInv, NEW c \in Chunks, NEW P, PendingAt(c, P), NEW v \in video, v.kind = "gradual",
         ContextStart(layout, c) <= v.start,
         ValidStart(layout, c) <= v.end, v.end <= ValidEnd(layout, c)
  PROVE  Shape(v) \in Candidates(c, P)
<1> DEFINE seen == Detections(c)
<1>1. Shape(v) \in Graduals(seen)
  BY SeenParts DEF Graduals, Shape
<1>2. Shape(v) = Gradual(v.start, v.end) /\ Shape(v).start = v.start /\ Shape(v).end = v.end
  BY DEF Shape, Gradual
<1>3. /\ v.start \in Nat /\ v.end \in Nat /\ v.start <= v.end
      /\ Boundary(c) \in Int /\ ValidStart(layout, c) = Boundary(c) + 1
  BY BoundaryInt, ChunkBounds DEF VideoInv, Event, Boundary, Chunks
<1>4. CASE P # {} /\ v.start <= Boundary(c)
  <2>1. Shape(v) \in Continuation(c, seen)
    BY <1>1, <1>2, <1>3, <1>4 DEF Continuation
  <2>2. PICK p \in P : P = {p} /\ p \in Nat
    BY <1>4 DEF PendingAt
  <2>3. PICK w \in video : Crosses(w, c) /\ At(p, w)
    BY <2>2 DEF PendingAt
  <2>4. At(Boundary(c), v)
    BY <1>3, <1>4 DEF At
  <2>5. w = v
    BY <2>3, <2>4, OneCrossing DEF Crosses
  <2>6. Min(P) = p
    BY <2>2 DEF Min
  <2>7. Min({Min(P), v.start}) = v.start
    BY <1>3, <2>2, <2>3, <2>5, <2>6, MinOfPair DEF At
  <2>8. Resumed(c, seen, P) = {Gradual(Min({Min(P), t.start}), t.end) : t \in Continuation(c, seen)}
    BY <1>4, <2>1 DEF Resumed
  <2>9. Gradual(Min({Min(P), Shape(v).start}), Shape(v).end) \in Resumed(c, seen, P)
    BY <2>1, <2>8
  <2> QED BY <1>2, <2>7, <2>9 DEF Candidates
<1>5. CASE P = {} \/ ~ (v.start <= Boundary(c))
  <2>1. Shape(v) \in Others(c, seen, P)
    BY <1>1, <1>2, <1>5 DEF Others, Continuation
  <2> QED BY <2>1 DEF Candidates
<1> QED BY <1>4, <1>5

(* The start that is pending after a chunk is right for the next one.      *)
LEMMA PendingNext ==
  ASSUME VideoInv, NEW c \in Chunks, c + 1 \in Chunks, NEW P, PendingAt(c, P)
  PROVE  PendingAt(c + 1, NextPending(c, Detections(c), P))
<1> DEFINE d == c + 1
           open == {t \in Candidates(c, P) : OpenAtEnd(t, c)}
           A == {t.start : t \in open}
           Q == NextPending(c, Detections(c), P)
<1>1. /\ c \in Nat /\ d \in Nat /\ d > 0 /\ d - 1 = c
      /\ ContextEnd(layout, c) = Boundary(d) /\ ValidEnd(layout, c) = Boundary(d)
      /\ Boundary(d) \in Nat /\ ~IsLast(layout, c)
  <2>1. /\ c \in Nat /\ c + 1 < TotalChunks(layout) /\ c + 1 \in 0..(TotalChunks(layout) - 1)
    BY ChunkBounds DEF Chunks, VideoInv
  <2>2. /\ ValidStart(layout, c + 1) = ValidEnd(layout, c) + 1 /\ ValidEnd(layout, c) \in Nat
        /\ ContextEnd(layout, c) = ValidEnd(layout, c)
    BY <2>1, ChunkBounds DEF VideoInv, Chunks
  <2>3. /\ ValidStart(layout, c + 1) <= ValidEnd(layout, c + 1) /\ ValidEnd(layout, c + 1) \in Nat
        /\ ValidEnd(layout, c + 1) <= layout.frames - 1 /\ layout.frames \in Nat
    BY <2>1, ChunkBounds DEF VideoInv
  <2>4. ValidEnd(layout, c) < layout.frames - 1
    BY <2>2, <2>3
  <2> QED BY <2>1, <2>2, <2>3, <2>4 DEF Boundary, IsLast
<1>2. Q = IF open = {} THEN {} ELSE {Min(A)}
  BY DEF NextPending, Candidates
<1>3. \A t : OpenAtEnd(t, c) <=> t.end = Boundary(d)
  BY <1>1 DEF OpenAtEnd
<1> HIDE DEF Q, d
<1>4. ASSUME NEW t \in open
      PROVE  /\ t.start \in Nat
             /\ \E w \in video : Crosses(w, d) /\ At(t.start, w) /\ t.start <= Boundary(d)
  <2>1. PICK w \in video : w.kind = "gradual" /\ Span(t) /\ w.start <= t.start /\ t.end <= w.end
    BY WhatIsCandidate
  <2>2. /\ t.start \in Nat /\ t.end = Boundary(d) /\ t.start <= Boundary(d)
        /\ w.start \in Nat /\ w.end \in Nat
    BY <1>3, <2>1 DEF Span, VideoInv, Event
  <2> QED BY <1>1, <2>1, <2>2 DEF Crosses, At
<1>5. A \subseteq Nat /\ (open # {} => A # {})
  BY <1>4
<1>6. A # {} => Min(A) \in A /\ \A x \in A : Min(A) <= x
  <2> HIDE DEF A
  <2> QED BY <1>5, LeastOf
<1>7. ASSUME NEW p \in Q
      PROVE  /\ Q = {p} /\ p \in Nat /\ d > 0
             /\ \E w \in video : Crosses(w, d) /\ At(p, w) /\ p <= Boundary(d)
  <2>1. open # {} /\ p = Min(A) /\ Q = {p}
    <3> HIDE DEF open, A
    <3> QED BY <1>2, <1>7
  <2>2. PICK t \in open : p = t.start
    BY <1>5, <1>6, <2>1
  <2> QED BY <1>1, <1>4, <2>1, <2>2
<1>8. ASSUME NEW v \in video, v.kind = "gradual", v.end = Boundary(d),
             v.start >= ContextStart(layout, c)
      PROVE  Q = {v.start}
  <2>1. v.start \in Nat /\ v.end \in Nat /\ v.start <= v.end
    BY DEF VideoInv, Event
  <2>2. ContextStart(layout, c) \in Nat /\ ValidStart(layout, c) \in Nat
        /\ ValidStart(layout, c) <= ValidEnd(layout, c)
    BY ChunkBounds DEF Chunks, VideoInv
  <2>3. Shape(v) \in Candidates(c, P)
    BY <1>1, <1>8, <2>1, <2>2, WholeIsCandidate
  <2>4. Shape(v).start = v.start /\ Shape(v).end = v.end
    BY DEF Shape
  <2>5. Shape(v) \in open
    BY <1>3, <1>8, <2>3, <2>4
  <2>6. v.start \in A
    BY <2>4, <2>5
  <2>7. ASSUME NEW x \in A PROVE v.start <= x
    <3>1. PICK t \in open : x = t.start
      OBVIOUS
    <3>2. PICK w \in video : Crosses(w, d) /\ At(t.start, w)
      BY <1>4
    <3>3. At(Boundary(d), v) /\ At(Boundary(d), w)
      BY <1>1, <1>8, <2>1, <3>2 DEF At, Crosses
    <3>4. v = w
      BY <1>1, <3>3 DEF VideoInv
    <3> QED BY <3>1, <3>2, <3>4 DEF At
  <2>8. Min(A) = v.start
    <3> HIDE DEF A
    <3>1. Min(A) \in A /\ Min(A) <= v.start /\ v.start <= Min(A)
      BY <1>6, <2>6, <2>7
    <3>2. Min(A) \in Nat
      BY <1>5, <3>1
    <3> QED BY <2>1, <3>1, <3>2
  <2>9. open # {}
    BY <2>5
  <2> HIDE DEF open, A
  <2> QED BY <1>2, <2>8, <2>9
<1>9. PendingAt(d, Q)
  BY <1>1, <1>7, <1>8 DEF PendingAt
<1> QED BY <1>9 DEF d, Q
-----------------------------------------------------------------------------
(* What a chunk owns, from a pending start that is right: of a transition  *)
(* that its owner sees as a whole, nothing but the whole.                  *)
LEMMA OwnedAre ==
  ASSUME NEW c, NEW P, NEW t
  PROVE  t \in Owned(c, Detections(c), P) <=>
           \/ t \in Candidates(c, P) /\ ~OpenAtEnd(t, c)
           \/ /\ t \in Detections(c) /\ t.kind = "hard" /\ InValidRange(c, t.end)
              /\ \A g \in Candidates(c, P) : ~OpenAtEnd(g, c) => t.end \notin g.start..g.end
BY DEF Owned, Candidates

LEMMA OwnerSees ==
  ASSUME VideoInv, NEW v \in video
  PROVE  /\ Owner(v) \in Chunks
         /\ ValidStart(layout, Owner(v)) <= v.end /\ v.end <= ValidEnd(layout, Owner(v))
         /\ v.start \in Nat /\ v.end \in Nat /\ v.start <= v.end
         /\ Shape(v).kind = v.kind /\ Shape(v).start = v.start /\ Shape(v).end = v.end
         /\ v.kind = "gradual" => Shape(v) = Gradual(v.start, v.end)
<1>1. layout \in Layouts /\ layout.frames \in Nat
  BY LayoutsAssumption DEF VideoInv
<1>2. v.start \in Nat /\ v.end \in Nat /\ v.start <= v.end /\ v.end \in 0..(layout.frames - 1)
  BY <1>1 DEF VideoInv, Event
<1> QED BY <1>1, <1>2, OwnerChunk DEF Shape, Gradual

LEMMA OnlyWholeReported ==
  ASSUME VideoInv, NEW c \in Chunks, NEW P, PendingAt(c, P), NEW v \in video, SeenWhole(v),
         NEW t \in Owned(c, Detections(c), P),
         t.kind = v.kind, t.start <= v.end, v.start <= t.end
  PROVE  t = Shape(v)
<1> DEFINE o == Owner(v)
<1>1. /\ o \in Chunks /\ ValidStart(layout, o) <= v.end /\ v.end <= ValidEnd(layout, o)
      /\ v.start \in Nat /\ v.end \in Nat /\ v.start <= v.end
      /\ ContextStart(layout, o) <= v.start
      /\ ContextStart(layout, o) \in Nat
  BY OwnerSees, ChunkBounds DEF SeenWhole, Chunks, VideoInv
<1>2. CASE v.kind = "hard"
  <2>1. t.kind # "gradual"
    BY <1>2
  <2>2. t \in Detections(c)
    <3>1. t \notin Candidates(c, P)
      BY <2>1, WhatIsCandidate DEF Span, Gradual
    <3> QED BY <3>1, OwnedAre
  <2>3. PICK w \in video : t = HardCut(w.peak) /\ At(w.peak, w)
    BY <2>1, <2>2, SeenParts
  <2>4. v.end = v.start /\ w.peak \in Nat
    BY <1>2, <2>3 DEF VideoInv, Event
  <2>5. w.peak = v.start
    BY <1>1, <2>3, <2>4 DEF HardCut
  <2> QED BY <1>2, <2>3, <2>4, <2>5 DEF HardCut, Shape
<1>3. CASE v.kind = "gradual"
  <2>1. t \in Candidates(c, P) /\ ~OpenAtEnd(t, c)
    BY <1>3, OwnedAre
  <2>2. PICK w \in video :
          /\ w.kind = "gradual"
          /\ Span(t) /\ w.start <= t.start /\ t.end <= w.end
          /\ Found(t, w, c) \/ \E p \in P : Closed(t, w, c, p) \/ GoneOn(t, w, c, p)
    BY <2>1, WhatIsCandidate
  <2>3. w = v
    <3>1. /\ w.start \in Nat /\ w.end \in Nat /\ w.start <= v.end /\ v.start <= w.end
          /\ w.start <= w.end
      BY <1>1, <2>2 DEF Span, VideoInv, Event
    <3>2. CASE v.start <= w.start
      BY <1>1, <3>1, <3>2 DEF At, VideoInv
    <3>3. CASE w.start <= v.start
      BY <1>1, <3>1, <3>3 DEF At, VideoInv
    <3> QED BY <1>1, <3>1, <3>2, <3>3
  <2>4. /\ c \in Nat /\ o \in Nat /\ Boundary(c) \in Int /\ ValidStart(layout, c) = Boundary(c) + 1
        /\ ValidStart(layout, c) \in Nat /\ ValidEnd(layout, c) \in Nat /\ ValidEnd(layout, o) \in Nat
        /\ ValidStart(layout, o) \in Nat /\ ValidStart(layout, o) <= ValidEnd(layout, o)
        /\ ValidEnd(layout, o) <= layout.frames - 1 /\ layout.frames \in Nat
        /\ ContextEnd(layout, c) = ValidEnd(layout, c)
    BY <1>1, BoundaryInt, ChunkBounds DEF VideoInv, Chunks, Boundary
  <2>5. /\ c < o => ValidEnd(layout, c) < ValidStart(layout, o) /\ Boundary(c) < v.start
        /\ o < c => ValidEnd(layout, o) < ValidStart(layout, c)
    <3>1. c < o => ContextStart(layout, o) > Boundary(c)
      BY <1>1, ContextAfter DEF VideoInv
    <3> HIDE DEF o
    <3> QED BY <1>1, <2>4, <3>1, ChunkOrder DEF Chunks, VideoInv
  <2> HIDE DEF o
  <2>6. CASE Found(t, v, c)
    <3>1. ~ (c < o)
      <4> SUFFICES ASSUME c < o PROVE OpenAtEnd(t, c)
        BY <2>1
      <4>1. ValidEnd(layout, c) < v.end /\ ValidEnd(layout, c) < layout.frames - 1
        BY <1>1, <2>4, <2>5
      <4>2. t.end = ValidEnd(layout, c)
        BY <2>6, <4>1 DEF Found, PartOf
      <4> QED BY <2>4, <4>1, <4>2 DEF OpenAtEnd, IsLast
    <3>2. ~ (o < c)
      <4>1. t.end \in Nat /\ t.end <= v.end /\ t.end >= ValidStart(layout, c)
        BY <2>6 DEF Found, PartOf, Span
      <4> QED BY <1>1, <2>4, <2>5, <4>1
    <3>3. c = o
      BY <2>4, <3>1, <3>2
    <3>4. Span(t) /\ t.start = v.start /\ t.end = v.end
      BY <1>1, <2>6, <3>3 DEF Found, PartOf
    <3> QED BY <1>3, <3>4, OwnerSees DEF Span
  <2>7. ASSUME NEW p \in P, Closed(t, v, c, p) \/ GoneOn(t, v, c, p)
        PROVE  t = Shape(v)
    <3>1. /\ v.start <= Boundary(c) /\ Boundary(c) <= v.end /\ v.start <= p
          /\ P = {p} /\ p \in Nat /\ c > 0
      BY <2>7 DEF Closed, GoneOn, Crosses, At, PendingAt
    <3>2. ~ (c < o)
      BY <1>1, <2>4, <2>5, <3>1
    <3>3. CASE o = c
      <4>1. ~Closed(t, v, c, p)
        <5>1. PartOf(Shape(v), v, c) /\ At(Boundary(c), Shape(v)) /\ Shape(v) \in Detections(c)
          <6>1. Shape(v) \in Detections(c)
            BY <1>1, <3>3, SeenParts
          <6>2. Shape(v).start = v.start /\ Shape(v).end = v.end
                /\ Shape(v) = Gradual(v.start, v.end)
            BY <1>3, OwnerSees
          <6> QED BY <1>1, <2>4, <3>1, <3>3, <6>1, <6>2 DEF PartOf, Span, At
        <5> QED BY <5>1 DEF Closed
      <4>2. PICK u : PartOf(u, v, c) /\ t = Gradual(IF p <= u.start THEN p ELSE u.start, u.end)
        BY <2>7, <4>1 DEF GoneOn
      <4>3. u.start = v.start /\ u.end = v.end
        BY <1>1, <3>3, <4>2 DEF PartOf
      <4>4. p <= u.start => p = v.start
        BY <1>1, <3>1, <4>3
      <4>5. t = Gradual(v.start, v.end)
        BY <4>2, <4>3, <4>4
      <4> QED BY <1>3, <4>5, OwnerSees
    <3>4. CASE o < c
      <4>1. v.end = Boundary(c)
        BY <1>1, <2>4, <2>5, <3>1, <3>4
      <4>2. o = c - 1
        <5> SUFFICES ASSUME o < c - 1 PROVE FALSE
          BY <2>4, <3>4
        <5>1. c - 1 \in Chunks
          <6>1. TotalChunks(layout) \in Nat /\ c \in 0..(TotalChunks(layout) - 1)
            BY ChunkBounds DEF Chunks, VideoInv
          <6> QED BY <3>1, <6>1 DEF Chunks
        <5>2. ValidEnd(layout, o) < ValidStart(layout, c - 1)
          BY <1>1, <5>1, ChunkOrder DEF Chunks, VideoInv
        <5>3. ValidEnd(layout, c - 1) < ValidStart(layout, c)
          BY <2>4, <5>1, ChunkOrder DEF Chunks, VideoInv
        <5>4. ValidStart(layout, c - 1) <= ValidEnd(layout, c - 1)
              /\ ValidStart(layout, c - 1) \in Nat /\ ValidEnd(layout, c - 1) \in Nat
          BY <5>1, ChunkBounds DEF Chunks, VideoInv
        <5> QED BY <1>1, <2>4, <4>1, <5>2, <5>3, <5>4
      <4>3. p = v.start
        <5>1. P = {v.start}
          BY <1>1, <1>3, <3>1, <4>1, <4>2 DEF PendingAt
        <5> QED BY <5>1
      <4>4. CASE Closed(t, v, c, p)
        BY <1>3, <4>1, <4>3, <4>4, OwnerSees DEF Closed
      <4>5. CASE GoneOn(t, v, c, p)
        <5>1. PICK u : /\ PartOf(u, v, c) /\ At(Boundary(c), u)
                       /\ t = Gradual(IF p <= u.start THEN p ELSE u.start, u.end)
          BY <4>5 DEF GoneOn
        <5>2. p <= u.start /\ u.end = v.end
          <6>1. v.start <= u.start /\ u.end <= v.end /\ Boundary(c) <= u.end /\ u.end \in Nat
            BY <5>1 DEF PartOf, Span, At
          <6> QED BY <1>1, <4>1, <4>3, <6>1
        <5>3. t = Gradual(v.start, v.end)
          BY <4>3, <5>1, <5>2
        <5> QED BY <1>3, <5>3, OwnerSees
      <4> QED BY <2>7, <4>4, <4>5
    <3> QED BY <2>4, <3>2, <3>3, <3>4
  <2> QED BY <2>2, <2>3, <2>6, <2>7
<1> QED BY <1>2, <1>3 DEF VideoInv, Event
(* ... and the whole, by the owner or, when it ends with it, by the next.  *)
LEMMA WholeIsReported ==
  ASSUME VideoInv, NEW v \in video, SeenWhole(v)
  PROVE  \E c \in (Owner(v)..(Owner(v) + 1)) \cap Chunks :
           \A P : PendingAt(c, P) => Shape(v) \in Owned(c, Detections(c), P)
<1> DEFINE o == Owner(v)
<1>1. /\ o \in Chunks /\ ValidStart(layout, o) <= v.end /\ v.end <= ValidEnd(layout, o)
      /\ v.start \in Nat /\ v.end \in Nat /\ v.start <= v.end
      /\ ContextStart(layout, o) <= v.start
      /\ Shape(v).kind = v.kind /\ Shape(v).start = v.start /\ Shape(v).end = v.end
  BY OwnerSees DEF SeenWhole
<1> HIDE DEF o
<1>2. /\ o \in Nat /\ ContextEnd(layout, o) = ValidEnd(layout, o) /\ ValidEnd(layout, o) \in Nat
      /\ o \in 0..(TotalChunks(layout) - 1) /\ TotalChunks(layout) \in Nat
  BY <1>1, ChunkBounds DEF VideoInv, Chunks
<1>3. o \in (o..(o + 1)) \cap Chunks
  BY <1>1, <1>2
<1>4. CASE v.kind = "hard"
  <2>1. Shape(v) \in Detections(o)
    BY <1>1, SeenParts
  <2>2. InValidRange(o, Shape(v).end)
    BY <1>1 DEF InValidRange
  <2>3. ASSUME NEW P, PendingAt(o, P), NEW g \in Candidates(o, P)
        PROVE  v.end \notin g.start..g.end
    <3>1. PICK w \in video : /\ w.kind = "gradual" /\ Span(g)
                             /\ w.start <= g.start /\ g.end <= w.end
      BY <1>1, <2>3, WhatIsCandidate
    <3>2. SUFFICES ASSUME v.end \in g.start..g.end PROVE v = w
      BY <1>4, <3>1
    <3>3. w.start \in Nat /\ w.end \in Nat
      BY DEF VideoInv, Event
    <3>4. At(v.end, v) /\ At(v.end, w)
      BY <1>1, <3>1, <3>2, <3>3 DEF At, Span
    <3> QED BY <1>1, <3>4 DEF VideoInv
  <2>4. \A P : PendingAt(o, P) => Shape(v) \in Owned(o, Detections(o), P)
    BY <1>1, <1>4, <2>1, <2>2, <2>3, OwnedAre
  <2> QED BY <1>3, <2>4 DEF o
<1>5. CASE v.kind = "gradual" /\ ~OpenAtEnd(Shape(v), o)
  <2>1. \A P : PendingAt(o, P) => Shape(v) \in Candidates(o, P)
    BY <1>1, <1>5, WholeIsCandidate
  <2>2. \A P : PendingAt(o, P) => Shape(v) \in Owned(o, Detections(o), P)
    BY <1>5, <2>1, OwnedAre
  <2> QED BY <1>3, <2>2 DEF o
<1>6. CASE v.kind = "gradual" /\ OpenAtEnd(Shape(v), o)
  <2> DEFINE d == o + 1
  <2>1. d \in Chunks /\ d \in (o..(o + 1)) \cap Chunks
    <3>1. ~IsLast(layout, o)
      BY <1>6 DEF OpenAtEnd
    <3>2. o # TotalChunks(layout) - 1
      BY <1>2, <3>1, ChunkBounds DEF IsLast, VideoInv
    <3> QED BY <1>2, <3>2 DEF Chunks
  <2>2. v.end = Boundary(d) /\ Boundary(d) < ValidEnd(layout, d) /\ ContextEnd(layout, d) = ValidEnd(layout, d)
        /\ d > 0 /\ d - 1 = o
    <3>1. o + 1 < TotalChunks(layout) /\ d \in 0..(TotalChunks(layout) - 1)
      BY <1>2, <2>1 DEF Chunks
    <3>2. ValidStart(layout, o + 1) = ValidEnd(layout, o) + 1
      BY <1>2, <3>1, ChunkBounds DEF VideoInv
    <3>3. /\ ValidStart(layout, d) <= ValidEnd(layout, d) /\ ValidStart(layout, d) \in Nat
          /\ ValidEnd(layout, d) \in Nat /\ ContextEnd(layout, d) = ValidEnd(layout, d)
      BY <3>1, ChunkBounds DEF VideoInv
    <3>4. v.end = ValidEnd(layout, o)
      BY <1>1, <1>2, <1>6 DEF OpenAtEnd
    <3> QED BY <1>2, <3>2, <3>3, <3>4 DEF Boundary
  <2> HIDE DEF d
  <2>3. ASSUME NEW P, PendingAt(d, P) PROVE Shape(v) \in Owned(d, Detections(d), P)
    <3>1. P = {v.start} /\ Min(P) = v.start
      <4>1. P = {v.start}
        BY <1>1, <1>6, <2>2, <2>3 DEF PendingAt
      <4> QED BY <1>1, <4>1 DEF Min
    <3>2. At(Boundary(d), v)
      BY <1>1, <2>2 DEF At
    <3>3. Shape(v) = Gradual(v.start, v.end)
      BY <1>6, OwnerSees
    <3>4. Shape(v) \in Resumed(d, Detections(d), P)
      <4>1. CASE Continuation(d, Detections(d)) = {}
        BY <2>2, <3>1, <3>3, <4>1 DEF Resumed
      <4>2. CASE Continuation(d, Detections(d)) # {}
        <5>1. PICK u \in Continuation(d, Detections(d)) : TRUE
          BY <4>2
        <5>2. u \in Detections(d) /\ u.kind = "gradual" /\ At(Boundary(d), u)
          BY DEF Continuation, Graduals, At
        <5>3. PICK w \in video : PartOf(u, w, d)
          BY <2>1, <5>2, SeenParts DEF HardCut
        <5>4. /\ u.start \in Nat /\ u.end \in Nat /\ w.start <= u.start /\ u.end <= w.end
              /\ w.start \in Nat /\ w.end \in Nat
          BY <5>3 DEF PartOf, Span, VideoInv, Event
        <5>5. w = v
          <6>1. At(Boundary(d), w)
            BY <1>1, <2>2, <5>2, <5>4 DEF At
          <6> QED BY <2>1, <3>2, <6>1, OneCrossing
        <5>6. u.end = v.end /\ v.start <= u.start
          BY <1>1, <2>2, <5>2, <5>4, <5>5 DEF At
        <5>7. Min({Min(P), u.start}) = v.start
          BY <1>1, <3>1, <5>4, <5>6, MinOfPair
        <5>8. Resumed(d, Detections(d), P)
              = {Gradual(Min({Min(P), t.start}), t.end) : t \in Continuation(d, Detections(d))}
          BY <3>1, <4>2 DEF Resumed
        <5>9. Gradual(Min({Min(P), u.start}), u.end) \in Resumed(d, Detections(d), P)
          BY <5>1, <5>8
        <5> QED BY <3>3, <5>6, <5>7, <5>9
      <4> QED BY <4>1, <4>2
    <3>5. ~OpenAtEnd(Shape(v), d)
      BY <1>1, <2>2 DEF OpenAtEnd
    <3> QED BY <3>4, <3>5, OwnedAre DEF Candidates
  <2> QED BY <2>1, <2>3 DEF o
<1> QED BY <1>4, <1>5, <1>6 DEF VideoInv, Event
-----------------------------------------------------------------------------
(* As long as the hash is kept, every pending start is right, and every    *)
(* result is what its chunk owns with such a start.                        *)
OwnsRight(r) ==
  \E P : PendingAt(r.chunk, P) /\ r.transitions = Owned(r.chunk, Detections(r.chunk), P)

Right ==
  /\ \A s \in state : s.next \in Chunks => PendingAt(s.next, s.pending)
  /\ handler.at = "infer" => PendingAt(handler.chunk, handler.state.pending)
  /\ \A r \in cache : OwnsRight(r)

PendingInv == VideoInv /\ (Kept => Right)

LEMMA VideoStays ==
  ASSUME UNCHANGED videoVars
  PROVE  /\ VideoInv' <=> VideoInv
         /\ \A c, P : PendingAt(c, P)' <=> PendingAt(c, P)
         /\ \A r : OwnsRight(r)' <=> OwnsRight(r)
         /\ Chunks' = Chunks
<1> USE DEF videoVars
<1>1. Chunks' = Chunks
  BY DEF Chunks
<1>2. \A c : Boundary(c)' = Boundary(c)
  BY DEF Boundary
<1>3. VideoInv' <=> VideoInv
  <2>1. \A v : Event(v)' <=> Event(v)
    BY DEF Event
  <2> QED BY <2>1 DEF VideoInv, At
<1>4. \A w, c : Crosses(w, c)' <=> Crosses(w, c)
  BY <1>2 DEF Crosses, At
<1>5. \A c, P : PendingAt(c, P)' <=> PendingAt(c, P)
  BY <1>2, <1>4 DEF PendingAt, At
<1>6. \A c : Detections(c)' = Detections(c)
  BY DEF Detections
<1>7. \A t, c : OpenAtEnd(t, c)' <=> OpenAtEnd(t, c)
  BY DEF OpenAtEnd
<1>8. \A c, S : Continuation(c, S)' = Continuation(c, S)
  BY <1>2 DEF Continuation
<1>9. \A c, S, P : Resumed(c, S, P)' = Resumed(c, S, P)
  BY <1>2, <1>8 DEF Resumed
<1>10. \A c, S, P : Others(c, S, P)' = Others(c, S, P)
  BY <1>8 DEF Others
<1>11. \A c, f : InValidRange(c, f)' <=> InValidRange(c, f)
  BY DEF InValidRange
<1>12. \A c, S, P : Owned(c, S, P)' = Owned(c, S, P)
  BY <1>7, <1>9, <1>10, <1>11 DEF Owned
<1>13. \A r : OwnsRight(r)' <=> OwnsRight(r)
  BY <1>5, <1>6, <1>12 DEF OwnsRight
<1> QED BY <1>1, <1>3, <1>5, <1>13

LEMMA RightStep ==
  ASSUME IInv, VideoInv, Kept, Right, [Next]_vars
  PROVE  Right'
<1>0. PICK n \in Nat, base \in [Nat -> Nat] : Progress(n, base)
  BY DEF IInv
<1>v. /\ \A c, P : PendingAt(c, P)' <=> PendingAt(c, P)
      /\ \A r : OwnsRight(r)' <=> OwnsRight(r)
      /\ Chunks' = Chunks
  BY StepFrame, VideoStays
<1>s. ASSUME state' \subseteq state, cache' = cache,
             handler' = handler \/ handler'.at # "infer"
      PROVE  Right'
  BY <1>v, <1>s DEF Right
<1>1. ASSUME NEW c \in Chunks, Start(c) PROVE Right'
  <2>1. CASE Cached(c) # {}
    <3>1. handler'.at # "infer"
      BY <1>1, <2>1 DEF Start
    <3> QED BY <1>1, <1>s, <3>1 DEF Start, resultVars
  <2>2. CASE Cached(c) = {}
    <3>1. PICK s \in Loaded(c) : /\ s.next = c
                                 /\ handler' = [at |-> "infer", chunk |-> c, state |-> s]
      BY <1>1, <2>2 DEF Start
    <3>2. PendingAt(c, s.pending)
      <4>1. CASE state # {}
        BY <3>1, <4>1 DEF Loaded, Right
      <4>2. CASE state = {} /\ c = 0
        BY <3>1, <4>2 DEF Loaded, PendingAt
      <4>3. CASE state = {} /\ c # 0
        <5>1. c = n
          BY <1>0, <2>2, <3>1, LoadedState
        <5> QED BY <1>0, <4>3, <5>1 DEF Progress
      <4> QED BY <4>1, <4>2, <4>3
    <3>3. PendingAt(handler.chunk, handler.state.pending)'
      BY <1>v, <3>1, <3>2
    <3> QED BY <1>v, <1>1, <3>3 DEF Start, Right, resultVars
  <2> QED BY <2>1, <2>2
<1>2. CASE Persist
  <2>1. PICK c, st : c = handler.chunk /\ st = handler.state
    OBVIOUS
  <2>2. c \in Chunks /\ PendingAt(c, st.pending)
    BY <1>0, <1>2, <2>1 DEF Progress, Persist, Right
  <2>3. PICK S : S = Owned(c, Detections(c), st.pending)
    OBVIOUS
  <2>4. Answer(c, st) = [seen |-> Detections(c), owned |-> S]
    BY <2>3 DEF Answer
  <2>5. /\ cache' = cache \cup {Result(c, S, st)}
        /\ state' = {NextState(c, Detections(c), S, st)}
        /\ handler'.at # "infer"
    BY <1>2, <2>1, <2>4 DEF Persist
  <2>6. OwnsRight(Result(c, S, st))
    <3>1. Result(c, S, st).chunk = c /\ Result(c, S, st).transitions = S
      BY DEF Result
    <3> QED BY <2>2, <2>3, <3>1 DEF OwnsRight
  <2>7. ASSUME NEW s \in state', s.next \in Chunks PROVE PendingAt(s.next, s.pending)
    <3>1. s.next = c + 1 /\ s.pending = NextPending(c, Detections(c), st.pending)
      BY <2>5 DEF NextState
    <3> QED BY <2>2, <2>7, <3>1, PendingNext
  <2>8. \A r \in cache' : OwnsRight(r)'
    BY <1>v, <2>5, <2>6 DEF Right
  <2>9. \A s \in state' : s.next \in Chunks' => PendingAt(s.next, s.pending)'
    BY <1>v, <2>7
  <2> QED BY <2>5, <2>8, <2>9 DEF Right
<1>3. CASE Publish
  BY <1>3, <1>s DEF Publish, Idle
<1>4. CASE Aside
  BY <1>4, <1>s, AsideStep DEF resultVars, Idle
<1>5. CASE StateLost
  BY <1>5, <1>s DEF StateLost, resultVars
<1>6. ASSUME NEW r \in cut_results, CoordinatorRecords(r) PROVE Right'
  BY <1>6, <1>s DEF CoordinatorRecords
<1>7. CASE UNCHANGED vars
  BY <1>7, <1>s DEF vars, resultVars
<1> QED BY <1>1, <1>2, <1>3, <1>4, <1>5, <1>6, <1>7 DEF Next, Work, Handle, Aside

(* CutSceneState: as long as the hash is kept, the transition that a chunk *)
(* leaves open for the next one has the frame where it really began.       *)
THEOREM PendingRight == Spec => []PendingInv
<1>1. Init => PendingInv
  <2> SUFFICES ASSUME Init PROVE PendingInv
    OBVIOUS
  <2>1. Right
    BY DEF Init, Right, Idle
  <2> QED BY <2>1, InitVideo DEF PendingInv
<1>2. IInv /\ PendingInv /\ [Next]_vars => PendingInv'
  <2> SUFFICES ASSUME IInv, PendingInv, [Next]_vars PROVE PendingInv'
    OBVIOUS
  <2>1. UNCHANGED videoVars
    BY StepFrame
  <2>2. VideoInv'
    BY <2>1, VideoStays DEF PendingInv
  <2>4. Kept' => Kept
    BY StepFrame, OnceLost DEF IInv, Parameters
  <2> QED BY <2>2, <2>4, RightStep DEF PendingInv
<1> QED BY Invariance, <1>1, <1>2, PTL DEF Spec

LEMMA IInvReportedOnce == IInv /\ PendingInv => ReportedOnce
<1> SUFFICES ASSUME IInv, PendingInv, Kept, NEW v \in video, SeenWhole(v), Settled(v)
             PROVE  {t \in MergedTransitions(cache) :
                       t.kind = v.kind /\ t.start <= v.end /\ v.start <= t.end} = {Shape(v)}
  BY DEF ReportedOnce, Shape
<1>1. PICK n \in Nat, base \in [Nat -> Nat] : Progress(n, base)
  BY DEF IInv
<1>2. VideoInv /\ \A r \in cache : r.chunk \in Chunks /\ OwnsRight(r)
  BY <1>1 DEF PendingInv, Right, Progress, ResultsOf
<1>3. ASSUME NEW r \in cache, NEW t \in r.transitions,
             t.kind = v.kind, t.start <= v.end, v.start <= t.end
      PROVE  t = Shape(v)
  <2>1. PICK P : PendingAt(r.chunk, P) /\ r.transitions = Owned(r.chunk, Detections(r.chunk), P)
    BY <1>2 DEF OwnsRight
  <2> QED BY <1>2, <1>3, <2>1, OnlyWholeReported
<1>4. \E r \in cache : Shape(v) \in r.transitions
  <2>1. PICK c \in (Owner(v)..(Owner(v) + 1)) \cap Chunks :
           \A P : PendingAt(c, P) => Shape(v) \in Owned(c, Detections(c), P)
    BY <1>2, WholeIsReported
  <2>2. PICK r \in cache : r.chunk = c
    BY DEF Settled
  <2> QED BY <1>2, <2>1, <2>2 DEF OwnsRight
<1>5. /\ Shape(v).kind = v.kind /\ Shape(v).start <= v.end /\ v.start <= Shape(v).end
  BY <1>2, OwnerSees
<1> QED BY <1>3, <1>4, <1>5 DEF MergedTransitions

(* The ownership rules: whatever is retried or delivered out of order, a   *)
(* transition that its owner sees as a whole is reported once, with its    *)
(* exact frames, by the owner or by the chunk after it.                    *)
THEOREM EveryTransitionOnce == Spec => []ReportedOnce
<1>1. IInv /\ PendingInv => ReportedOnce
  BY IInvReportedOnce
<1> QED BY <1>1, Invariance, PendingRight, PTL

-----------------------------------------------------------------------------
(***************************************************************************)
(* The type of the state, with what the validators of CutResultMessage ask *)
(* of a result.  ShapeInv is what IInv does not say of it.                 *)
(***************************************************************************)
Accepted(r) ==
  \A t \in r.transitions : InValidRange(r.chunk, t.end) \/ t.kind = "gradual"

ShapeInv ==
  /\ state = {} \/ \E s : state = {s} /\ s.next # 0
  /\ GroupTypeOK(TotalChunks(layout))
  /\ handler.at \in {"idle", "infer", "publish"}
  /\ handler.at # "idle" => held # <<>>
  /\ \A r \in cache : Accepted(r)

LEMMA IsSequence ==
  ASSUME NEW S, NEW n \in Nat, NEW f \in [1..n -> S]
  PROVE  f \in Seq(S)
OBVIOUS

LEMMA BatchIsSequence ==
  ASSUME NEW C, NEW S \in SUBSET C, Cardinality(S) \in Nat,
         NEW f \in [1..Cardinality(S) -> S]
  PROVE  f \in Seq(C)
<1>1. PICK k \in Nat : k = Cardinality(S)
  OBVIOUS
<1>2. f \in [1..k -> C]
  BY <1>1
<1> QED BY <1>2, IsSequence

LEMMA RunIsSequence ==
  ASSUME NEW total \in Nat, NEW from \in Nat, NEW to \in (from + 1)..total
  PROVE  Run(from, to) \in Seq(0..(total - 1))
<1>1. to - from \in Nat
  OBVIOUS
<1>2. PICK n \in Nat : n = to - from
  BY Zenon, <1>1
<1>3. \A i \in 1..n : from + i - 1 \in 0..(total - 1)
  BY <1>2
<1>4. Run(from, to) \in [1..n -> 0..(total - 1)]
  BY <1>2, <1>3 DEF Run
<1> QED BY <1>4, IsSequence

(* What the consumer group does keeps its type.                            *)
Pass == held # <<>> /\ (Acks \/ Raises)

LEMMA GroupTypes ==
  ASSUME NEW total \in Nat, GroupTypeOK(total),
         Polls(total) \/ ReplyLost(total) \/ Pass \/ Stops \/ UNCHANGED groupVars
  PROVE  GroupTypeOK(total)'
<1> DEFINE chunks == 0..(total - 1)
<1>1. /\ delivered \in 0..total /\ held \in Seq(chunks)
      /\ acked \subseteq chunks /\ given_up \subseteq acked
      /\ attempts \in [chunks -> 0..(MaxAttempts - 1)]
  BY DEF GroupTypeOK
<1>2. CASE Polls(total)
  <2>1. UNCHANGED <<acked, attempts, given_up>>
    BY <1>2 DEF Polls
  <2>2. CASE Claims
    <3>1. PICK S \in SUBSET Orphans : held' \in [1..Cardinality(S) -> S]
      BY <2>2 DEF Claims
    <3>2. S \subseteq chunks
      BY <1>1 DEF Orphans
    <3>3. Cardinality(S) \in Nat
      <4>1. IsFiniteSet(chunks)
        BY FS_Interval
      <4>2. IsFiniteSet(S)
        BY <3>2, <4>1, FS_Subset
      <4> QED BY <4>2, FS_CardinalityType
    <3>4. held' \in Seq(chunks)
      BY <3>1, <3>2, <3>3, BatchIsSequence
    <3> QED BY <1>1, <2>1, <2>2, <3>4 DEF GroupTypeOK, Claims
  <2>3. CASE Reads(total)
    <3>1. delivered' \in (delivered + 1)..total /\ held' = Run(delivered, delivered')
      BY <2>3 DEF Reads
    <3>2. PICK from \in Nat : from = delivered
      BY <1>1
    <3>3. PICK to \in (from + 1)..total : to = delivered'
      BY <3>1, <3>2
    <3>5. held' \in Seq(chunks)
      BY <3>1, <3>2, <3>3, RunIsSequence
    <3> QED BY <1>1, <2>1, <3>1, <3>5 DEF GroupTypeOK
  <2> QED BY <1>2, <2>2, <2>3 DEF Polls
<1>3. CASE ReplyLost(total)
  BY <1>1, <1>3 DEF ReplyLost, GroupTypeOK
<1>4. CASE Pass
  <2>1. PICK c : c = Head(held)
    OBVIOUS
  <2>2. c \in chunks /\ Tail(held) \in Seq(chunks) /\ attempts[c] \in Nat
    BY <1>1, <1>4, <2>1 DEF Pass
  <2>3. CASE Acks
    <3>1. /\ acked' = acked \cup {c} /\ held' = Tail(held)
          /\ attempts' = [attempts EXCEPT ![c] = 0]
          /\ UNCHANGED <<delivered, given_up>>
      BY <2>1, <2>3 DEF Acks
    <3> QED BY <1>1, <2>2, <3>1, GroupAssumption DEF GroupTypeOK
  <2>4. CASE Raises /\ attempts[c] + 1 < MaxAttempts
    <3>1. /\ attempts' = [attempts EXCEPT ![c] = attempts[c] + 1]
          /\ UNCHANGED <<delivered, held, acked, given_up>>
      BY <2>1, <2>4 DEF Raises
    <3>2. attempts[c] + 1 \in 0..(MaxAttempts - 1)
      BY <2>2, <2>4, GroupAssumption
    <3> QED BY <1>1, <3>1, <3>2 DEF GroupTypeOK
  <2>5. CASE Raises /\ ~(attempts[c] + 1 < MaxAttempts)
    <3>1. /\ acked' = acked \cup {c} /\ held' = Tail(held)
          /\ attempts' = [attempts EXCEPT ![c] = 0]
          /\ given_up' = given_up \cup {c} /\ UNCHANGED delivered
      BY <2>1, <2>5 DEF Raises
    <3> QED BY <1>1, <2>2, <3>1, GroupAssumption DEF GroupTypeOK
  <2> QED BY <1>4, <2>3, <2>4, <2>5 DEF Pass
<1>5. CASE Stops
  BY <1>1, <1>5 DEF Stops, GroupTypeOK
<1>6. CASE UNCHANGED groupVars
  BY <1>1, <1>6 DEF groupVars, GroupTypeOK
<1> QED BY <1>2, <1>3, <1>4, <1>5, <1>6

(* Which of them a step of the worker makes, and that the worker holds the *)
(* chunk that it works on.                                                 *)
LEMMA GroupStep ==
  ASSUME [Next]_vars, handler.at # "idle" => held # <<>>
  PROVE  /\ Polls(TotalChunks(layout)) \/ ReplyLost(TotalChunks(layout)) \/ Pass \/ Stops \/ UNCHANGED groupVars
         /\ handler'.at # "idle" => held' # <<>>
<1> USE DEF Idle
<1>1. CASE Poll
  BY <1>1 DEF Poll, Polls, Claims, Reads, ReplyLost
<1>2. ASSUME NEW c \in Chunks, Start(c)
      PROVE  UNCHANGED groupVars /\ held' # <<>>
  BY <1>2 DEF Start, Handles, groupVars
<1>3. ASSUME NEW c \in Chunks, Refuse(c)
      PROVE  Pass /\ handler'.at = "idle"
  BY <1>3 DEF Refuse, Handles, Pass
<1>4. CASE Persist
  BY <1>4 DEF Persist, groupVars
<1>5. CASE Publish
  <2>1. held # <<>> /\ handler'.at = "idle"
    BY <1>5 DEF Publish
  <2>2. Acks \/ UNCHANGED groupVars
    BY <1>5 DEF Publish
  <2> QED BY <2>1, <2>2 DEF Pass
<1>6. CASE HandlerFails
  BY <1>6 DEF HandlerFails, Pass
<1>7. CASE Interrupted
  BY <1>7 DEF Interrupted
<1>8. CASE WorkerStops
  BY <1>8 DEF WorkerStops
<1>9. CASE StateLost
  BY <1>9 DEF StateLost, groupVars
<1>10. CASE \E r \in cut_results : CoordinatorRecords(r)
  BY <1>10 DEF CoordinatorRecords, groupVars
<1>11. CASE UNCHANGED vars
  BY <1>11 DEF vars, groupVars
<1> QED BY <1>1, <1>2, <1>3, <1>4, <1>5, <1>6, <1>7, <1>8, <1>9, <1>10, <1>11
        DEF Next, Work, Handle

LEMMA OwnedAccepted ==
  ASSUME NEW c, NEW seen, NEW P, NEW t \in Owned(c, seen, P)
  PROVE  InValidRange(c, t.end) \/ t.kind = "gradual"
<1>1. \A u \in Resumed(c, seen, P) : u.kind = "gradual"
  <2> DEFINE whole(u) == Gradual(Min({Min(P), u.start}), u.end)
  <2>1. \A u : whole(u).kind = "gradual" /\ Gradual(Min(P), Boundary(c)).kind = "gradual"
    BY DEF Gradual
  <2>2. Resumed(c, seen, P) = IF P = {}
                              THEN {}
                              ELSE IF Continuation(c, seen) = {}
                                   THEN {Gradual(Min(P), Boundary(c))}
                                   ELSE {whole(u) : u \in Continuation(c, seen)}
    BY DEF Resumed
  <2> HIDE DEF whole
  <2> QED BY <2>1, <2>2
<1>2. \A u \in Others(c, seen, P) : u.kind = "gradual"
  BY DEF Others, Graduals
<1> QED BY <1>1, <1>2 DEF Owned

LEMMA TotalNat ==
  ASSUME layout \in Layouts
  PROVE  TotalChunks(layout) \in Nat
BY LayoutsAssumption DEF TotalChunks

LEMMA ShapeStep ==
  ASSUME IInv, ShapeInv, [Next]_vars
  PROVE  ShapeInv'
<1>1. PICK n \in Nat, base \in [Nat -> Nat] : Progress(n, base)
  BY DEF IInv
<1>2. UNCHANGED videoVars
  BY StepFrame
<1>3. TotalChunks(layout)' = TotalChunks(layout) /\ Chunks' = Chunks /\ \A r : Accepted(r)' <=> Accepted(r)
  BY <1>2 DEF Chunks, Accepted, InValidRange, videoVars
<1>g. GroupTypeOK(TotalChunks(layout))' /\ (handler'.at # "idle" => held' # <<>>)
  <2>1. PICK t : t = TotalChunks(layout)
    OBVIOUS
  <2>2. t \in Nat /\ GroupTypeOK(t)
    BY <2>1, TotalNat DEF IInv, Parameters, ShapeInv
  <2>3. Polls(t) \/ ReplyLost(t) \/ Pass \/ Stops \/ UNCHANGED groupVars
    BY <2>1, GroupStep DEF ShapeInv
  <2>4. GroupTypeOK(t)'
    BY <2>2, <2>3, GroupTypes
  <2>5. TotalChunks(layout)' = t
    BY <1>3, <2>1
  <2> QED BY <2>4, <2>5, GroupStep DEF ShapeInv, GroupTypeOK
<1>s. ASSUME state' \subseteq state, cache' = cache,
             handler'.at \in {"idle", "infer", "publish"}
      PROVE  ShapeInv'
  BY <1>3, <1>g, <1>s DEF ShapeInv
<1>4. ASSUME NEW c \in Chunks, Start(c) PROVE ShapeInv'
  <2>1. handler'.at \in {"infer", "publish"}
    BY <1>4 DEF Start
  <2> QED BY <1>4, <1>s, <2>1 DEF Start, resultVars
<1>5. CASE Persist
  <2>1. PICK o, P, r : /\ P = handler.state.pending
                       /\ o = Owned(n, Detections(n), P)
                       /\ r = Result(n, o, handler.state)
                       /\ cache' = cache \cup {r} /\ handler'.at = "publish"
                       /\ state' = {NextState(n, Detections(n), o, handler.state)}
    BY <1>1, <1>5 DEF Persist, Answer, Progress
  <2>2. r.chunk = n /\ r.transitions = o
    BY <2>1 DEF Result
  <2>3. Accepted(r)
    BY <2>1, <2>2, OwnedAccepted DEF Accepted
  <2>4. NextState(n, Detections(n), o, handler.state).next # 0
    BY DEF NextState
  <2> QED BY <1>3, <1>g, <2>1, <2>3, <2>4 DEF ShapeInv
<1>6. CASE Publish
  BY <1>6, <1>s DEF Publish, Idle
<1>7. CASE Aside
  BY <1>7, <1>s, AsideStep DEF resultVars, ShapeInv, Idle
<1>8. CASE StateLost
  BY <1>8, <1>s DEF StateLost, resultVars, ShapeInv
<1>9. CASE \E r \in cut_results : CoordinatorRecords(r)
  BY <1>9, <1>s DEF CoordinatorRecords, ShapeInv
<1>10. CASE UNCHANGED vars
  BY <1>10, <1>s DEF ShapeInv, vars, resultVars
<1> QED BY <1>4, <1>5, <1>6, <1>7, <1>8, <1>9, <1>10 DEF Next, Work, Handle, Aside

LEMMA IInvTypeOK == IInv /\ ShapeInv => TypeOK
<1> SUFFICES ASSUME IInv, ShapeInv PROVE TypeOK
  OBVIOUS
<1>1. PICK n \in Nat, base \in [Nat -> Nat] : Progress(n, base)
  BY DEF IInv
<1>2. layout \in Layouts /\ ResultsOf(cache, base)
  BY <1>1 DEF IInv, Parameters, Progress
<1>3. state = {} \/ \E s : state = {s} /\ s.next # 0
  BY DEF ShapeInv
<1>4. Cardinality(state) <= 1
  <2>1. CASE state = {}
    BY <2>1, FS_EmptySet
  <2>2. ASSUME NEW s, state = {s} PROVE Cardinality(state) <= 1
    <3>1. Cardinality({s}) = 1
      BY FS_Singleton
    <3>2. Cardinality(state) = 1
      BY Zenon, <2>2, <3>1
    <3> QED BY ONLY <3>2
  <2> QED BY <1>3, <2>1, <2>2
<1>5. ASSUME NEW t \in state
      PROVE  /\ t.next \in 1..TotalChunks(layout) /\ t.scene \in Nat
             /\ t.pending \subseteq 0..(layout.frames - 1)
  <2>1. t.next # 0 /\ StateAt(t, n, base)
    BY <1>1, <1>3 DEF Progress
  <2>2. n # 0
    BY <2>1 DEF StateAt
  <2>3. PICK r \in cache : r.chunk = n - 1
    <3>1. {r.chunk : r \in cache} = 0..(n - 1)
      BY <1>1 DEF Progress
    <3>2. n - 1 \in 0..(n - 1)
      BY <2>2
    <3>3. n - 1 \in {r.chunk : r \in cache}
      BY <3>1, <3>2
    <3> QED BY <3>3
  <2>4. n - 1 \in 0..(TotalChunks(layout) - 1)
    BY <1>2, <2>3 DEF ResultsOf, Chunks
  <2>5. TotalChunks(layout) \in Nat
    BY <1>2, <2>4, ChunkBounds
  <2> QED BY <2>1, <2>2, <2>4, <2>5 DEF StateAt
<1>6. ASSUME NEW r \in cache
      PROVE  /\ \A p \in r.scenes : /\ InValidRange(r.chunk, p.start) /\ p.start <= p.end
                                    /\ InValidRange(r.chunk, p.end)
             /\ \A t \in r.transitions :
                  \/ InValidRange(r.chunk, t.end)
                  \/ t.kind = "gradual" /\ t.end = ValidStart(layout, r.chunk) - 1
  <2>1. ASSUME NEW p \in r.scenes
        PROVE  /\ InValidRange(r.chunk, p.start) /\ p.start <= p.end
               /\ InValidRange(r.chunk, p.end)
    <3>1. /\ p.start \in Nat /\ p.end \in Nat /\ p.start <= p.end
          /\ ValidStart(layout, r.chunk) \in Nat /\ ValidEnd(layout, r.chunk) \in Nat
          /\ ValidStart(layout, r.chunk) <= p.start /\ p.end <= ValidEnd(layout, r.chunk)
      BY <1>2, PieceBounds
    <3> QED BY <3>1 DEF InValidRange
  <2>2. ASSUME NEW t \in r.transitions, ~InValidRange(r.chunk, t.end)
        PROVE  t.kind = "gradual" /\ t.end = ValidStart(layout, r.chunk) - 1
    <3>1. r.chunk \in Chunks /\ OwnedBy(r.chunk, r.transitions)
      BY <1>2 DEF ResultsOf
    <3>2. ValidStart(layout, r.chunk) \in Nat /\ ValidEnd(layout, r.chunk) \in Nat
      BY <1>2, <3>1, ChunkBounds DEF Chunks
    <3>3. /\ t.end \in Nat
          /\ ValidStart(layout, r.chunk) - 1 <= t.end /\ t.end <= ValidEnd(layout, r.chunk)
      BY <3>1 DEF OwnedBy
    <3>4. t.end = ValidStart(layout, r.chunk) - 1
      BY <2>2, <3>2, <3>3 DEF InValidRange
    <3> QED BY <2>2, <3>4 DEF ShapeInv, Accepted
  <2> QED BY <2>1, <2>2
<1>7. recorded \subseteq cut_results /\ cut_results \subseteq cache
  BY DEF IInv, Stored
<1> QED BY <1>4, <1>5, <1>6, <1>7 DEF TypeOK, ShapeInv

(* CutWorker.TypeOK: there is at most one state, and every result that is  *)
(* published passes the validators of CutResultMessage - its scenes lie in *)
(* the valid range, and only a gradual transition may end on the frame     *)
(* before it.                                                              *)
THEOREM TypeCorrect == Spec => []TypeOK
<1>1. Init => ShapeInv
  <2> SUFFICES ASSUME Init PROVE ShapeInv
    OBVIOUS
  <2>1. TotalChunks(layout) \in Nat /\ Chunks = 0..(TotalChunks(layout) - 1)
    BY TotalNat DEF Init, Chunks
  <2>2. GroupTypeOK(TotalChunks(layout))
    <3>1. attempts \in [Chunks -> 0..(MaxAttempts - 1)]
      BY GroupAssumption DEF Init, GroupInit
    <3> QED BY <2>1, <3>1 DEF Init, GroupInit, GroupTypeOK
  <2> QED BY <2>2 DEF Init, ShapeInv, Idle
<1>2. IInv /\ ShapeInv /\ [Next]_vars => ShapeInv'
  BY ShapeStep
<1>3. IInv /\ ShapeInv => TypeOK
  BY IInvTypeOK
<1> QED BY Invariance, <1>1, <1>2, <1>3, PTL DEF Spec
====
