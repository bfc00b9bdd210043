------------------------- MODULE VideoDecoder_proofs -------------------------
(***************************************************************************)
(* Proofs about Chunking and VideoDecoder for every video, every chunk     *)
(* size and overlap and every byte limit.                                  *)
(*                                                                         *)
(* A delivery is sound until it fails or its decode times out: after that  *)
(* two threads share the decoder, and nothing is delivered any more.       *)
(* While it is sound, LinedUp says that the child and the tail agree on    *)
(* where the next chunk begins.                                            *)
(***************************************************************************)
EXTENDS VideoDecoder, TLAPS

-----------------------------------------------------------------------------
(* What CHOOSE makes of the minimum and the maximum of two numbers.        *)
LEMMA MinOfPair ==
  ASSUME NEW a \in Int, NEW b \in Int
  PROVE  Min({a, b}) = IF a <= b THEN a ELSE b
PROOF BY DEF Min

LEMMA MaxOfPair ==
  ASSUME NEW a \in Int, NEW b \in Int
  PROVE  Max({a, b}) = IF a >= b THEN a ELSE b
PROOF BY DEF Max

Layouts == {l \in [frames : Nat \ {0}, size : Nat \ {0}, overlap : Nat] :
              l.overlap < l.size}

(* _effective_chunking: whatever the settings, the effective size is       *)
(* positive and larger than the effective overlap.                         *)
LEMMA EffectiveLayout ==
  ASSUME NEW v \in Videos
  PROVE  Layout(v.frames, v.chunk, v.overlap, v.limit) \in Layouts
PROOF
<1> DEFINE q == v.limit \div 4
           o == Min({v.overlap, q})
           d == Min({v.chunk, v.limit - o})
           c == Max({1, d})
           e == Min({o, c - 1})
<1>1. /\ v.frames \in Nat \ {0} /\ v.chunk \in Nat \ {0} /\ v.overlap \in Nat
      /\ v.limit \in Nat \ {0}
  BY VideosAssumption
<1>2. q \in Nat
  BY <1>1
<1>3. o \in Nat
  <2> HIDE DEF q
  <2> QED BY <1>1, <1>2, MinOfPair
<1>4. d \in Int
  <2>1. v.limit - o \in Int
    <3> HIDE DEF o
    <3> QED BY <1>1, <1>3
  <2> HIDE DEF o
  <2> QED BY <1>1, <2>1, MinOfPair
<1>5. c \in Nat \ {0}
  <2> HIDE DEF d
  <2> QED BY <1>4, MaxOfPair
<1>6. e \in Nat /\ e < c
  <2> HIDE DEF o, c
  <2>1. c - 1 \in Int
    BY <1>5
  <2> QED BY <1>3, <1>5, <2>1, MinOfPair
<1>7. EffectiveChunk(v.chunk, v.overlap, v.limit) = IF v.limit = 1 THEN 1 ELSE c
  BY DEF EffectiveChunk
<1>8. EffectiveOverlap(v.chunk, v.overlap, v.limit) = IF v.limit = 1 THEN 0 ELSE e
  BY DEF EffectiveOverlap
<1> HIDE DEF c, e
<1> QED BY <1>1, <1>5, <1>6, <1>7, <1>8 DEF Layout, Layouts

(* The bounds of a chunk without CHOOSE.                                   *)
LEMMA Bounds ==
  ASSUME NEW l \in Layouts, NEW c \in Nat
  PROVE  /\ ValidStart(l, c) \in Nat
         /\ ValidStart(l, c + 1) = ValidStart(l, c) + l.size
         /\ ValidEnd(l, c) = IF ValidStart(l, c) + l.size <= l.frames
                             THEN ValidStart(l, c) + l.size - 1 ELSE l.frames - 1
         /\ ContextStart(l, c) = IF ValidStart(l, c) >= l.overlap
                                 THEN ValidStart(l, c) - l.overlap ELSE 0
         /\ ContextEnd(l, c) = ValidEnd(l, c)
         /\ ContextStart(l, c) \in Nat /\ ContextStart(l, c) <= ValidStart(l, c)
         /\ ValidEnd(l, c) \in Int
PROOF
<1>1. l.frames \in Nat /\ l.size \in Nat /\ l.overlap \in Nat
  BY DEF Layouts
<1>2. ValidStart(l, c) \in Nat
  BY <1>1 DEF ValidStart
<1>3. ValidStart(l, c + 1) = ValidStart(l, c) + l.size
  BY <1>1 DEF ValidStart
<1>4. ValidEnd(l, c) = IF ValidStart(l, c) + l.size <= l.frames
                       THEN ValidStart(l, c) + l.size - 1 ELSE l.frames - 1
  <2>1. ValidStart(l, c) + l.size \in Int
    BY <1>1, <1>2
  <2> QED BY <1>1, <1>2, <2>1, MinOfPair DEF ValidEnd
<1>5. ContextStart(l, c) = IF ValidStart(l, c) >= l.overlap
                           THEN ValidStart(l, c) - l.overlap ELSE 0
  <2>1. ValidStart(l, c) - l.overlap \in Int
    BY <1>1, <1>2
  <2> QED BY <1>1, <1>2, <2>1, MaxOfPair DEF ContextStart
<1> QED BY <1>1, <1>2, <1>3, <1>4, <1>5 DEF ContextEnd

(* chunk_layout: the valid ranges of the chunks tile the video.  The first *)
(* chunk begins with the first frame, a chunk that is not the last one     *)
(* ends where the next one begins, and the last one, and no other, ends    *)
(* with the last frame.                                                    *)
THEOREM ChunksTile ==
  ASSUME NEW v \in Videos,
         NEW l, l = Layout(v.frames, v.chunk, v.overlap, v.limit),
         NEW c \in 0..(TotalChunks(l) - 1)
  PROVE  /\ ValidStart(l, 0) = 0
         /\ ValidStart(l, c) <= ValidEnd(l, c)
         /\ c + 1 < TotalChunks(l) => ValidStart(l, c + 1) = ValidEnd(l, c) + 1
         /\ IsLast(l, c) <=> c = TotalChunks(l) - 1
PROOF
<1>1. l \in Layouts
  BY EffectiveLayout
<1>2. l.frames \in Nat \ {0} /\ l.size \in Nat \ {0}
  BY <1>1 DEF Layouts
<1> DEFINE n == TotalChunks(l)
<1>3. n \in Int /\ n * l.size <= l.frames + l.size - 1
      /\ l.frames + l.size - 1 < n * l.size + l.size
  BY <1>2 DEF TotalChunks
<1>4. c \in Nat /\ c <= n - 1
  BY <1>3
<1>5. ValidStart(l, 0) = 0
  BY <1>2 DEF ValidStart
<1>6. c * l.size + l.size <= n * l.size
  <2> HIDE DEF n
  <2>1. (c + 1) * l.size <= n * l.size
    BY <1>2, <1>3, <1>4
  <2> QED BY <2>1, <1>2, <1>4
<1>7. c + 1 < n => c * l.size + l.size + l.size <= n * l.size
  <2> HIDE DEF n
  <2>1. c + 2 <= n => (c + 2) * l.size <= n * l.size
    BY <1>2, <1>3, <1>4
  <2> QED BY <2>1, <1>2, <1>3, <1>4
<1>8. ValidStart(l, c) = c * l.size
  BY DEF ValidStart
<1> HIDE DEF n
<1>9. c = n - 1 => c * l.size + l.size = n * l.size
  BY <1>2, <1>3, <1>4
<1>10. /\ ValidStart(l, c + 1) = c * l.size + l.size
       /\ ValidEnd(l, c) = IF c * l.size + l.size <= l.frames
                           THEN c * l.size + l.size - 1 ELSE l.frames - 1
  BY <1>1, <1>4, <1>8, Bounds
<1>11. c * l.size \in Nat /\ n * l.size \in Int
  BY <1>2, <1>3, <1>4
<1>12. IsLast(l, c) <=> ValidEnd(l, c) = l.frames - 1
  BY DEF IsLast
<1> DEFINE p == c * l.size
           t == n * l.size
<1> HIDE DEF p, t
<1>13. /\ p \in Nat /\ t \in Int /\ t <= l.frames + l.size - 1
       /\ l.frames + l.size - 1 < t + l.size
       /\ p + l.size <= t /\ (c + 1 < n => p + l.size + l.size <= t)
       /\ (c = n - 1 => p + l.size = t)
       /\ ValidStart(l, c) = p /\ ValidStart(l, c + 1) = p + l.size
       /\ ValidEnd(l, c) = IF p + l.size <= l.frames THEN p + l.size - 1 ELSE l.frames - 1
  BY <1>3, <1>6, <1>7, <1>8, <1>9, <1>10, <1>11 DEF p, t
<1>14. ValidStart(l, c) <= ValidEnd(l, c)
  BY <1>2, <1>13
<1>15. c + 1 < n => ValidStart(l, c + 1) = ValidEnd(l, c) + 1
  BY <1>2, <1>13
<1>16. c + 1 < n => ValidEnd(l, c) # l.frames - 1
  BY <1>2, <1>13
<1>17. c = n - 1 => ValidEnd(l, c) = l.frames - 1
  BY <1>2, <1>13
<1> QED BY <1>3, <1>4, <1>5, <1>12, <1>14, <1>15, <1>16, <1>17 DEF n

-----------------------------------------------------------------------------
(* A run of frames is a sequence; it grows by the next frame, and its last *)
(* frames are a run.                                                       *)
LEMMA RunIsSeq ==
  ASSUME NEW a \in Nat, NEW b \in Int, a <= b + 1
  PROVE  /\ FrameRun(a, b) \in Seq(Nat)
         /\ Len(FrameRun(a, b)) = b - a + 1
         /\ \A i \in 1..(b - a + 1) : FrameRun(a, b)[i] = a + i - 1
PROOF BY DEF FrameRun

LEMMA RunLength ==
  ASSUME NEW a \in Nat, NEW b \in Int, a <= b + 1,
         NEW frames, frames = FrameRun(a, b)
  PROVE  Len(frames) = b - a + 1
PROOF BY RunIsSeq

LEMMA RunGrows ==
  ASSUME NEW a \in Nat, NEW b \in Int, a <= b + 1
  PROVE  Append(FrameRun(a, b), b + 1) = FrameRun(a, b + 1)
PROOF BY DEF FrameRun

LEMMA RunTail ==
  ASSUME NEW a \in Nat, NEW b \in Int, NEW k \in Nat, a <= b + 1, k <= b - a + 1,
         NEW frames, frames = FrameRun(a, b)
  PROVE  SubSeq(frames, Len(frames) - k + 1, Len(frames)) = FrameRun(b + 1 - k, b)
PROOF
<1>1. frames \in Seq(Nat) /\ Len(frames) = b - a + 1
  BY RunIsSeq
<1> QED BY <1>1 DEF FrameRun

-----------------------------------------------------------------------------
LayoutOK == layout \in Layouts

(* The tail and what the child writes next, after it, are chunk c.         *)
LinedUp(c) ==
  /\ c \in Nat
  /\ previous_tail = FrameRun(ContextStart(layout, c), ffmpeg[process].next - 1)
  /\ Len(previous_tail) = ffmpeg[process].next - ContextStart(layout, c)

Ready == process # None => LinedUp(next_chunk_index)

Sound == ~failed /\ pc # "close_timed_out"

ChunkRead == thread.frames = FrameRun(ContextStart(layout, thread.chunk),
                                      ContextEnd(layout, thread.chunk))

ThreadInv ==
  /\ thread.at \in {"check", "returned"} => Ready
  /\ thread.at = "begin" => process # None /\ next_chunk_index = thread.chunk /\ Ready
  /\ thread.at = "reading" =>
       /\ thread.child = process /\ process # None
       /\ thread.frames = FrameRun(ContextStart(layout, thread.chunk),
                                   ffmpeg[process].next - 1)
       /\ Len(thread.frames) = ffmpeg[process].next - ContextStart(layout, thread.chunk)
  /\ thread.at \in {"finish", "end", "returned"} => ChunkRead
  /\ thread.at = "end" => Ready

StreamInv ==
  /\ pc \in {"open", "loop", "await", "publish"} => ~failed
  /\ Sound => /\ pc # "await" => thread.at = "none"
              /\ pc \in {"open", "loop", "publish"} => Ready
              /\ pc = "await" => ThreadInv

BatchInv ==
  \A c \in DOMAIN batches :
    c \in Nat /\ batches[c] = FrameRun(ContextStart(layout, c), ContextEnd(layout, c))

(* Whoever uses a child has one.                                           *)
Pointers == /\ thread.at \in {"reading", "end"} => thread.child # None
            /\ closer.at # "take" => closer.child # None

TypeInv == TypeOK /\ LayoutOK /\ Pointers

IndInv == TypeInv /\ StreamInv /\ BatchInv

(* Every child that is alive has somebody who will stop it.                *)
ChildInv ==
  /\ closer.at # "take" => Closing /\ (process = None \/ ffmpeg[process].late)
  /\ thread.at = "popen" => process = None
  /\ \A child \in DOMAIN ffmpeg :
       Alive(child) /\ ~ffmpeg[child].late =>
         \/ InHand(child)
         \/ /\ pc # "idle"
            /\ child = process \/ (closer.at # "take" /\ child = closer.child)

-----------------------------------------------------------------------------
Child == [next : Nat, state : {"running", "hung", "exited"}, late : BOOLEAN]

(* A child that is stopped keeps its place in the video.                   *)
LEMMA StoppedChild ==
  ASSUME TypeOK, NEW child \in DOMAIN ffmpeg, NEW s \in {"running", "hung", "exited"}
  PROVE  LET f == [ffmpeg EXCEPT ![child].state = s]
         IN  /\ f \in Seq(Child) /\ Len(f) = Len(ffmpeg) /\ DOMAIN f = DOMAIN ffmpeg
             /\ \A i \in DOMAIN ffmpeg :
                  /\ f[i].next = ffmpeg[i].next /\ f[i].late = ffmpeg[i].late
                  /\ f[i].state = IF i = child THEN s ELSE ffmpeg[i].state
PROOF
<1>1. ffmpeg \in Seq(Child)
  BY DEF TypeOK, Child
<1> DEFINE r == [ffmpeg[child] EXCEPT !.state = s]
<1>2. ffmpeg[child] \in Child
  BY <1>1
<1>3. r \in Child /\ r.next = ffmpeg[child].next /\ r.late = ffmpeg[child].late
      /\ r.state = s
  BY <1>2 DEF Child
<1>4. [ffmpeg EXCEPT ![child].state = s] = [ffmpeg EXCEPT ![child] = r]
  OBVIOUS
<1> HIDE DEF r
<1> QED BY <1>1, <1>3, <1>4

Threads == [at : ThreadPc, chunk : Nat, child : 0..Len(ffmpeg), frames : Seq(Nat)]

LEMMA FaultCounted ==
  ASSUME TypeOK, NEW kind \in FaultKind, Fault(kind)
  PROVE  faults' \in Seq(FaultKind) /\ Len(faults') <= MaxFaults
PROOF BY FaultsAssumption DEF TypeOK, Fault

LEMMA ThreadMoves ==
  ASSUME TypeOK, NEW at \in ThreadPc
  PROVE  /\ thread \in Threads /\ NoThread \in Threads
         /\ [thread EXCEPT !.at = at] \in Threads
         /\ [thread EXCEPT !.at = at].at = at
         /\ [thread EXCEPT !.at = at].chunk = thread.chunk
         /\ [thread EXCEPT !.at = at].child = thread.child
         /\ [thread EXCEPT !.at = at].frames = thread.frames
PROOF
<1>1. thread \in Threads
  BY DEF TypeOK, Threads
<1>2. Len(ffmpeg) \in Nat
  BY DEF TypeOK
<1>3. <<>> \in Seq(Nat) /\ 0 \in 0..Len(ffmpeg)
  BY <1>2
<1>4. NoThread \in Threads
  BY <1>3 DEF Threads, NoThread, ThreadPc, None
<1> QED BY <1>1, <1>4 DEF Threads

LEMMA TypeStep == TypeInv /\ [Next]_vars => TypeInv'
PROOF
<1> SUFFICES ASSUME TypeInv, [Next]_vars PROVE TypeInv'
  OBVIOUS
<1> USE DEF TypeInv
<1>t. thread \in Threads
  BY DEF TypeOK, Threads
<1>f. ffmpeg \in Seq(Child) /\ DOMAIN ffmpeg = 1..Len(ffmpeg) /\ Len(ffmpeg) \in Nat
  BY DEF TypeOK, Child
<1>l. layout' = layout
  BY DEF Next, vars, taskVars, Handler, Decode, Deliver, Open, Request, Leave, Receive,
         DecodeFails, Publish, CloseTakes, CloseShuts, CloseStops, TimeOut, Check, Popen,
         PopenFails, Begin, ReadFrame, ShortRead, ReadDone, FinishTakes, FinishEnds, Drop, Misbehave
<1>2. CASE Deliver
  BY <1>2 DEF Deliver, TypeOK, Pc, Forget, LayoutOK, Pointers, taskVars, None, NoChunk
<1>3. CASE Open
  <2>1. faults' \in Seq(FaultKind) /\ Len(faults') <= MaxFaults
    <3>1. "no_metadata" \in FaultKind
      BY DEF FaultKind
    <3> QED BY <1>3, <3>1, FaultCounted DEF Open, TypeOK
  <2> QED BY <1>3, <2>1 DEF Open, TypeOK, Pc, LayoutOK, Pointers, taskVars, decoderVars
<1>4. CASE Request
  <2>1. published \in Nat /\ "check" \in ThreadPc /\ NoThread \in Threads
    BY ThreadMoves DEF TypeOK, ThreadPc
  <2>2. [NoThread EXCEPT !.at = "check", !.chunk = published] \in Threads
    BY <2>1, <1>f DEF Threads, NoThread
  <2>3. thread' \in Threads /\ thread'.at = "check"
    BY <1>4, <2>2 DEF Request, NoThread
  <2> QED BY <1>4, <2>3 DEF Request, TypeOK, Pc, LayoutOK, Pointers, taskVars, decoderVars,
             Threads
<1>5. CASE Leave
  <2>1. faults' \in Seq(FaultKind) /\ Len(faults') <= MaxFaults
    <3>1. "leave" \in FaultKind
      BY DEF FaultKind
    <3> QED BY <1>5, <3>1, FaultCounted DEF Leave, TypeOK
  <2> QED BY <1>5, <2>1 DEF Leave, TypeOK, Pc, LayoutOK, Pointers, taskVars, decoderVars
<1>6. CASE Receive
  BY <1>6 DEF Receive, TypeOK, Pc, LayoutOK, Pointers, taskVars, decoderVars, NoThread,
              ThreadPc, None
<1>7. CASE DecodeFails
  BY <1>7 DEF DecodeFails, TypeOK, Pc, LayoutOK, Pointers, taskVars, decoderVars, NoThread,
              ThreadPc, None
<1>8. CASE Publish
  BY <1>8 DEF Publish, TypeOK, Pc, LayoutOK, Pointers, taskVars, decoderVars
<1>9. CASE TimeOut
  BY <1>9 DEF TimeOut, TypeOK, Pc, LayoutOK, Pointers, taskVars, decoderVars
<1>10. CASE CloseTakes
  <2>1. /\ closer' \in [at : {"take", "shut", "stop"}, child : 0..Len(ffmpeg)]
        /\ closer'.at # "take" => closer'.child # None
    <3>1. process \in 0..Len(ffmpeg)
      BY DEF TypeOK
    <3> QED BY <1>10, <3>1, <1>f DEF CloseTakes, Return, NoCloser, None
  <2>2. failed' \in BOOLEAN /\ pc' \in Pc
    BY <1>10 DEF CloseTakes, Return, TypeOK, Pc
  <2> QED BY <1>10, <2>1, <2>2 DEF CloseTakes, TypeOK, LayoutOK, Pointers, Forget, None,
             NoChunk
<1>11. CASE CloseShuts
  BY <1>11 DEF CloseShuts, TypeOK, Pc, LayoutOK, Pointers, taskVars, decoderVars
<1>12. CASE CloseStops
  <2>1. closer.child \in DOMAIN ffmpeg
    BY <1>12, <1>f DEF CloseStops, TypeOK, Pointers, None
  <2>2. ffmpeg' \in Seq(Child) /\ Len(ffmpeg') = Len(ffmpeg)
    BY <1>12, <2>1, StoppedChild DEF CloseStops, Closed, Stopped
  <2>3. /\ closer' \in [at : {"take", "shut", "stop"}, child : 0..Len(ffmpeg')]
        /\ closer'.at = "take"
    BY <1>12, <2>2, <1>f DEF CloseStops, Return, NoCloser, None
  <2>4. failed' \in BOOLEAN /\ pc' \in Pc
    BY <1>12 DEF CloseStops, Return, TypeOK, Pc
  <2> QED BY <1>12, <2>2, <2>3, <2>4 DEF CloseStops, TypeOK, LayoutOK, Pointers,
             decoderVars, Child
<1>13. CASE Check
  <2>1. ffmpeg' \in Seq(Child) /\ Len(ffmpeg') = Len(ffmpeg)
    <3>1. process # None => process \in DOMAIN ffmpeg
      BY <1>f DEF TypeOK, None
    <3>2. CASE ffmpeg' = ffmpeg
      BY <3>2, <1>f
    <3>3. CASE process # None /\ ffmpeg' = Stopped(process)
      BY <3>1, <3>3, StoppedChild DEF Stopped
    <3> QED BY <1>13, <3>2, <3>3 DEF Check
  <2>2. thread' \in Threads /\ thread'.at \notin {"reading", "end"}
    <3>1. "popen" \in ThreadPc /\ "begin" \in ThreadPc
      BY DEF ThreadPc
    <3> QED BY <1>13, <3>1, ThreadMoves DEF Check, Goto
  <2>3. /\ process' \in 0..Len(ffmpeg) /\ next_chunk_index' \in Nat \cup {NoChunk}
        /\ previous_tail' \in Seq(Nat)
    <3>1. CASE Forget
      BY <3>1, <1>f DEF Forget, None
    <3>2. CASE UNCHANGED decoderVars
      BY <3>2 DEF TypeOK, decoderVars
    <3> QED BY <1>13, <3>1, <3>2 DEF Check
  <2>4. UNCHANGED <<layout, published, failed, batches, pc, closer, faults>>
    BY <1>13 DEF Check, taskVars
  <2> QED BY <2>1, <2>2, <2>3, <2>4 DEF TypeOK, LayoutOK, Pointers, Child, Threads
<1>14. CASE Popen
  <2> DEFINE r == [next |-> TrimStart(thread.chunk), state |-> "running",
                   late |-> pc # "await"]
  <2>1. r \in Child
    <3>1. TrimStart(thread.chunk) \in Nat
      BY <1>t, Bounds DEF LayoutOK, TrimStart, Threads
    <3> QED BY <3>1 DEF Child
  <2>2. ffmpeg' \in Seq(Child) /\ Len(ffmpeg') = Len(ffmpeg) + 1
    <3>1. ffmpeg' = Append(ffmpeg, r)
      BY <1>14 DEF Popen
    <3> HIDE DEF r
    <3> QED BY <1>f, <2>1, <3>1
  <2>3. thread' = [thread EXCEPT !.at = "begin"]
    BY <1>14 DEF Popen, Goto
  <2>4. /\ thread' \in [at : ThreadPc, chunk : Nat, child : 0..Len(ffmpeg'), frames : Seq(Nat)]
        /\ thread'.at \notin {"reading", "end"}
    <3>1. "begin" \in ThreadPc
      BY DEF ThreadPc
    <3>2. thread' \in Threads /\ thread'.at = "begin"
      BY <2>3, <3>1, ThreadMoves
    <3>3. 0..Len(ffmpeg) \subseteq 0..Len(ffmpeg')
      BY <1>f, <2>2
    <3> QED BY <3>2, <3>3 DEF Threads
  <2>5. process' \in 0..Len(ffmpeg') /\ next_chunk_index' \in Nat /\ previous_tail' \in Seq(Nat)
    BY <1>14, <1>t, <1>f, <2>2 DEF Popen, Threads
  <2>6. closer' \in [at : {"take", "shut", "stop"}, child : 0..Len(ffmpeg')]
    BY <1>14, <1>f, <2>2 DEF Popen, TypeOK
  <2> HIDE DEF r
  <2> QED BY <1>14, <2>2, <2>4, <2>5, <2>6 DEF Popen, TypeOK, LayoutOK, Pointers, taskVars,
             Child
<1>15. CASE PopenFails
  <2>1. thread' \in Threads /\ thread'.at \notin {"reading", "end"}
    <3>1. "raised" \in ThreadPc
      BY DEF ThreadPc
    <3> QED BY <1>15, <3>1, ThreadMoves DEF PopenFails, Goto
  <2>2. faults' \in Seq(FaultKind) /\ Len(faults') <= MaxFaults
    <3>1. "no_child" \in FaultKind
      BY DEF FaultKind
    <3> QED BY <1>15, <3>1, FaultCounted DEF PopenFails
  <2> QED BY <1>15, <2>1, <2>2 DEF PopenFails, TypeOK, LayoutOK, Pointers, taskVars,
             decoderVars, Threads
<1>16. CASE Begin
  <2>1. thread' \in Threads /\ (thread'.at = "reading" => thread'.child # None)
    <3>1. process \in 0..Len(ffmpeg) /\ previous_tail \in Seq(Nat)
      BY DEF TypeOK
    <3> QED BY <1>16, <1>t, <3>1 DEF Begin, Threads, ThreadPc
  <2> QED BY <1>16, <2>1 DEF Begin, TypeOK, LayoutOK, Pointers, taskVars, decoderVars,
             Threads
<1>17. CASE ReadFrame
  <2>1. thread.child \in DOMAIN ffmpeg
    BY <1>17, <1>f, <1>t DEF ReadFrame, Pointers, None, Threads
  <2> DEFINE r == [ffmpeg[thread.child] EXCEPT !.next = @ + 1]
  <2>2. ffmpeg[thread.child] \in Child
    BY <2>1, <1>f
  <2>3. r \in Child
    BY <2>2 DEF Child
  <2>4. ffmpeg' = [ffmpeg EXCEPT ![thread.child] = r]
    BY <1>17 DEF ReadFrame
  <2>5. ffmpeg' \in Seq(Child) /\ Len(ffmpeg') = Len(ffmpeg)
    <3> HIDE DEF r
    <3> QED BY <1>f, <2>1, <2>3, <2>4
  <2>6. ffmpeg[thread.child].next \in Nat
    BY <2>2 DEF Child
  <2>7. Append(thread.frames, ffmpeg[thread.child].next) \in Seq(Nat)
    BY <2>6, <1>t DEF Threads
  <2>8. thread' \in Threads /\ thread'.child = thread.child
    BY <1>17, <1>t, <2>7 DEF ReadFrame, Threads
  <2> QED BY <1>17, <2>5, <2>8 DEF ReadFrame, TypeOK, LayoutOK, Pointers, taskVars,
             decoderVars, Threads, Child
<1>18. CASE ShortRead
  <2>1. thread.child \in DOMAIN ffmpeg
    BY <1>18, <1>f, <1>t DEF ShortRead, Pointers, None, Threads
  <2>2. ffmpeg' \in Seq(Child) /\ Len(ffmpeg') = Len(ffmpeg)
    BY <1>18, <2>1, StoppedChild DEF ShortRead, Stopped
  <2>3. thread' \in Threads /\ thread'.at \notin {"reading", "end"}
    BY <1>18, <1>t DEF ShortRead, Goto, Threads, ThreadPc
  <2> QED BY <1>18, <2>2, <2>3 DEF ShortRead, TypeOK, LayoutOK, Pointers, taskVars,
             decoderVars, Threads, Child
<1>19. CASE ReadDone
  <2>1. thread' \in Threads /\ thread'.at \notin {"reading", "end"}
    BY <1>19, <1>t DEF ReadDone, Goto, Threads, ThreadPc
  <2>2. LastFrames(thread.frames) \in Seq(Nat)
    <3> DEFINE k == Min({layout.overlap, Len(thread.frames)})
    <3>1. thread.frames \in Seq(Nat) /\ Len(thread.frames) \in Nat
      BY <1>t DEF Threads
    <3>2. k \in Nat /\ k <= Len(thread.frames)
      BY <3>1, MinOfPair DEF LayoutOK, Layouts
    <3>3. LastFrames(thread.frames)
            = SubSeq(thread.frames, Len(thread.frames) - k + 1, Len(thread.frames))
      BY DEF LastFrames
    <3> HIDE DEF k
    <3> QED BY <3>1, <3>2, <3>3
  <2>3. next_chunk_index' \in Nat
    BY <1>19, <1>t DEF ReadDone, Threads
  <2> QED BY <1>19, <2>1, <2>2, <2>3 DEF ReadDone, TypeOK, LayoutOK, Pointers, taskVars,
             Threads
<1>20. CASE FinishTakes
  <2>1. thread' \in Threads /\ (thread'.at \in {"reading", "end"} => thread'.child # None)
    <3>1. process \in 0..Len(ffmpeg)
      BY DEF TypeOK
    <3> QED BY <1>20, <1>t, <3>1 DEF FinishTakes, Threads, ThreadPc, None
  <2> QED BY <1>20, <2>1 DEF FinishTakes, TypeOK, LayoutOK, Pointers, taskVars,
             Forget, None, NoChunk, Threads
<1>23. CASE FinishEnds
  <2>1. ffmpeg' \in Seq(Child) /\ Len(ffmpeg') = Len(ffmpeg)
    <3>1. thread.child \in DOMAIN ffmpeg
      BY <1>23, <1>f, <1>t DEF FinishEnds, Pointers, TypeOK, None
    <3> QED BY <1>23, <1>f, <3>1, StoppedChild DEF FinishEnds, Ended, Stopped
  <2>2. thread' \in Threads /\ thread'.at \notin {"reading", "end"}
    BY <1>23, <1>t DEF FinishEnds, Goto, Threads, ThreadPc
  <2>3. faults' \in Seq(FaultKind) /\ Len(faults') <= MaxFaults
    <3>1. "bad_exit" \in FaultKind
      BY DEF FaultKind
    <3> QED BY <1>23, <3>1, FaultCounted DEF FinishEnds, TypeOK
  <2> QED BY <1>23, <2>1, <2>2, <2>3 DEF FinishEnds, TypeOK, LayoutOK, Pointers, taskVars,
             decoderVars, Child, Threads
<1>21. CASE Drop
  BY <1>21 DEF Drop, TypeOK, LayoutOK, Pointers, taskVars, decoderVars, NoThread, ThreadPc,
              None
<1>22. CASE \E child \in DOMAIN ffmpeg : Misbehave(child)
  <2> PICK child \in DOMAIN ffmpeg : Misbehave(child)
    BY <1>22
  <2>1. ffmpeg' \in Seq(Child) /\ Len(ffmpeg') = Len(ffmpeg)
    <3>1. CASE ffmpeg' = [ffmpeg EXCEPT ![child].state = "hung"]
      BY <3>1, StoppedChild
    <3>2. CASE ffmpeg' = [ffmpeg EXCEPT ![child].state = "exited"]
      BY <3>2, StoppedChild
    <3> QED BY <3>1, <3>2 DEF Misbehave, Stopped
  <2>2. faults' \in Seq(FaultKind) /\ Len(faults') <= MaxFaults
    <3>1. "hang" \in FaultKind /\ "ends_early" \in FaultKind
      BY DEF FaultKind
    <3> QED BY <3>1, FaultCounted DEF Misbehave
  <2> QED BY <2>1, <2>2 DEF Misbehave, TypeOK, LayoutOK, Pointers, taskVars, decoderVars,
             Child
<1>24. CASE UNCHANGED vars
  BY <1>24 DEF vars, taskVars, decoderVars, TypeOK, LayoutOK, Pointers
<1> QED BY <1>2, <1>3, <1>4, <1>5, <1>6, <1>7, <1>8, <1>9, <1>10, <1>11, <1>12, <1>13,
           <1>14, <1>15, <1>16, <1>17, <1>18, <1>19, <1>20, <1>21, <1>22, <1>23, <1>24
        DEF Next, Handler, Decode

LEMMA TypeInit == Init => TypeInv
PROOF
<1> SUFFICES ASSUME Init PROVE TypeInv
  OBVIOUS
<1>1. layout \in Layouts
  BY EffectiveLayout DEF Init
<1>2. ffmpeg = <<>> /\ Len(ffmpeg) = 0 /\ faults = <<>> /\ previous_tail = <<>>
  BY DEF Init
<1>3. /\ thread \in [at : ThreadPc, chunk : Nat, child : 0..Len(ffmpeg), frames : Seq(Nat)]
      /\ thread.at = "none"
  BY <1>2 DEF Init, NoThread, ThreadPc, None
<1>4. /\ closer \in [at : {"take", "shut", "stop"}, child : 0..Len(ffmpeg)]
      /\ closer.at = "take"
  BY <1>2 DEF Init, NoCloser, None
<1>5. faults \in Seq(FaultKind) /\ Len(faults) <= MaxFaults
  BY <1>2, FaultsAssumption
<1>6. /\ ffmpeg \in Seq([next : Nat, state : {"running", "hung", "exited"}, late : BOOLEAN])
      /\ previous_tail \in Seq(Nat)
  BY <1>2
<1>7. process \in 0..Len(ffmpeg) /\ next_chunk_index \in Nat \cup {NoChunk}
  BY <1>2 DEF Init, None, NoChunk
<1>8. published \in Nat /\ failed \in BOOLEAN /\ pc \in Pc
  BY DEF Init, Pc
<1> HIDE DEF Init
<1> QED BY <1>1, <1>3, <1>4, <1>5, <1>6, <1>7, <1>8
        DEF TypeInv, TypeOK, LayoutOK, Pointers

(* VideoDecoder.TypeOK for every set of videos and any number of faults.   *)
THEOREM TypeCorrect == Spec => []TypeOK
PROOF
<1>1. Spec => []TypeInv
  BY TypeInit, TypeStep, PTL DEF Spec
<1>2. TypeInv => TypeOK
  BY DEF TypeInv
<1> QED BY <1>1, <1>2, PTL

-----------------------------------------------------------------------------
(* What the child writes next, the tail and the chunk that is asked for.   *)
LEMMA LayoutFixed == [Next]_vars => layout' = layout
PROOF BY DEF Next, vars, taskVars, Handler, Decode, Deliver, Open, Request, Leave, Receive,
         DecodeFails, Publish, CloseTakes, CloseShuts, CloseStops, TimeOut, Check, Popen,
         PopenFails, Begin, ReadFrame, ShortRead, ReadDone, FinishTakes, FinishEnds, Drop, Misbehave

LEMMA ReadyKept ==
  ASSUME Ready, layout' = layout, UNCHANGED decoderVars,
         process # None => ffmpeg'[process].next = ffmpeg[process].next
  PROVE  Ready'
PROOF BY DEF Ready, LinedUp, decoderVars, ContextStart, ValidStart

(* A chunk that was read to its end, with the tail it leaves, makes the    *)
(* decoder ready for the next one.                                         *)
LEMMA TailIsContext ==
  ASSUME NEW l \in Layouts, NEW c \in Nat, ~IsLast(l, c),
         NEW frames, frames = FrameRun(ContextStart(l, c), ContextEnd(l, c)),
         NEW k, k = Min({l.overlap, Len(frames)})
  PROVE  /\ SubSeq(frames, Len(frames) - k + 1, Len(frames))
              = FrameRun(ContextStart(l, c + 1), ContextEnd(l, c))
         /\ k = ContextEnd(l, c) + 1 - ContextStart(l, c + 1)
PROOF
<1> DEFINE a == ContextStart(l, c)
           b == ContextEnd(l, c)
           v == ValidStart(l, c)
           w == ContextStart(l, c + 1)
           s == l.size
           o == l.overlap
<1>1. s \in Nat /\ o \in Nat /\ o < s
  BY DEF Layouts
<1>2. a \in Nat /\ v \in Nat /\ a <= v /\ b = v + s - 1
  BY Bounds DEF IsLast
<1>3. w = IF v + s >= o THEN v + s - o ELSE 0
  <2> DEFINE u == ValidStart(l, c + 1)
  <2>1. c + 1 \in Nat
    OBVIOUS
  <2>2. u = v + s
    BY Bounds
  <2>3. w = IF u >= o THEN u - o ELSE 0
    BY <2>1, Bounds
  <2> HIDE DEF u, v, w, s, o, a, b
  <2> QED BY <1>1, <1>2, <2>2, <2>3
<1>4. frames = FrameRun(a, b) /\ k = Min({o, Len(frames)})
  OBVIOUS
<1> HIDE DEF a, b, v, w, s, o
<1>5. w = v + s - o
  BY <1>1, <1>2, <1>3
<1>6. Len(frames) = b - a + 1
  <2>1. a <= b + 1 /\ b \in Int
    BY <1>1, <1>2
  <2> QED BY <1>2, <1>4, <2>1, RunIsSeq
<1>7. k = o
  <2>1. Len(frames) \in Int /\ o <= Len(frames) /\ o \in Int
    BY <1>1, <1>2, <1>6
  <2> QED BY <2>1, <1>4, MinOfPair
<1>8. /\ b \in Int /\ k \in Nat /\ a <= b + 1 /\ k <= b - a + 1
      /\ b + 1 - k = w /\ k = b + 1 - w
  BY <1>1, <1>2, <1>5, <1>7
<1>9. SubSeq(frames, Len(frames) - k + 1, Len(frames)) = FrameRun(b + 1 - k, b)
  <2>1. a \in Nat /\ b \in Int /\ k \in Nat /\ a <= b + 1 /\ k <= b - a + 1
    BY <1>2, <1>8
  <2>2. frames = FrameRun(a, b)
    BY <1>4
  <2> QED BY ONLY ZenonT(30), <2>1, <2>2, RunTail
<1>10. SubSeq(frames, Len(frames) - k + 1, Len(frames)) = FrameRun(w, b)
  BY <1>8, <1>9
<1> QED BY <1>8, <1>10 DEF b, w

(* A delivery that has failed or timed out stays so.                       *)
LEMMA StaysUnsound ==
  ASSUME TypeInv, StreamInv, [Next]_vars, Sound'
  PROVE  Sound
PROOF BY DEF Next, vars, taskVars, Handler, Decode, Deliver, Open, Request, Leave, Receive,
         DecodeFails, Publish, CloseTakes, CloseShuts, CloseStops, TimeOut, Check, Popen,
         PopenFails, Begin, ReadFrame, ShortRead, ReadDone, FinishTakes, FinishEnds, Drop, Misbehave, Return,
         Sound, TypeInv, TypeOK, StreamInv

(* The handler's steps.                                                    *)
LEMMA HandlerStep ==
  ASSUME IndInv, TypeInv', Handler \/ TimeOut \/ UNCHANGED vars
  PROVE  StreamInv'
PROOF
<1>u. Handler \/ TimeOut \/ UNCHANGED vars => [Next]_vars
  BY DEF Next
<1>l. layout' = layout
  BY <1>u, LayoutFixed
<1>s. Sound' => Sound
  BY <1>u, StaysUnsound DEF IndInv
<1>i. StreamInv
  BY DEF IndInv
<1>1. pc' \in {"open", "loop", "await", "publish"} => ~failed'
  BY <1>i DEF StreamInv, Handler, TimeOut, vars, taskVars, Deliver, Open, Request, Leave,
     Receive, DecodeFails, Publish, CloseTakes, CloseShuts, CloseStops, Return, Closing
<1>2. ASSUME Sound' PROVE pc' # "await" => thread'.at = "none"
  <2>1. Sound /\ (pc # "await" => thread.at = "none")
    BY <1>2, <1>s, <1>i DEF StreamInv
  <2>2. CASE Receive \/ DecodeFails
    BY <2>2 DEF Receive, DecodeFails, NoThread
  <2>3. CASE TimeOut
    BY <2>3, <1>2 DEF TimeOut, Sound
  <2>4. CASE Request
    BY <2>4 DEF Request
  <2>5. CASE Deliver \/ Open \/ Leave \/ Publish \/ UNCHANGED vars
    BY <2>1, <2>5 DEF Deliver, Open, Leave, Publish, vars
  <2>6. CASE CloseTakes \/ CloseShuts \/ CloseStops
    BY <2>1, <2>6 DEF CloseTakes, CloseShuts, CloseStops, Closing
  <2> QED BY <1>u, <2>2, <2>3, <2>4, <2>5, <2>6 DEF Handler
<1>3. ASSUME Sound', pc' \in {"open", "loop", "publish"} PROVE Ready'
  <2>1. CASE Deliver
    BY <2>1 DEF Deliver, Ready, Forget
  <2>2. CASE ~Deliver
    <3>1. UNCHANGED <<ffmpeg, decoderVars>> /\ (pc = "await" => thread.at = "returned")
          /\ pc \in {"open", "loop", "await", "publish"}
      BY <1>3, <2>2 DEF Handler, TimeOut, vars, taskVars, Open, Request, Leave,
         Receive, DecodeFails, Publish, CloseTakes, CloseShuts, CloseStops, Return, Closing
    <3>2. Ready
      BY <3>1, <1>3, <1>s, <1>i DEF StreamInv, ThreadInv
    <3> QED BY <3>1, <3>2, <1>l, ReadyKept
  <2> QED BY <2>1, <2>2
<1>4. ASSUME Sound', pc' = "await" PROVE ThreadInv'
  <2>1. CASE Request
    <3>1. thread'.at = "check"
      BY <2>1 DEF Request, NoThread
    <3>2. Ready
      BY <2>1, <1>4, <1>s, <1>i DEF StreamInv, Request
    <3>3. Ready'
      BY <2>1, <3>2, <1>l, ReadyKept DEF Request
    <3> QED BY <3>1, <3>3 DEF ThreadInv
  <2>2. CASE UNCHANGED vars
    <3>1. ThreadInv
      BY <2>2, <1>4, <1>s, <1>i DEF StreamInv, vars
    <3> QED BY <3>1, <2>2 DEF ThreadInv, ChunkRead, Ready, LinedUp, vars, taskVars,
               decoderVars, ContextStart, ContextEnd, ValidStart, ValidEnd
  <2> QED BY <1>4, <2>1, <2>2 DEF Handler, TimeOut, Deliver, Open, Leave, Receive,
             DecodeFails, Publish, CloseTakes, CloseShuts, CloseStops, Return, Closing
<1> QED BY <1>1, <1>2, <1>3, <1>4 DEF StreamInv

(* The thread's steps, and the child's.                                    *)
LEMMA DecodeStep ==
  ASSUME IndInv, TypeInv', Decode \/ \E child \in DOMAIN ffmpeg : Misbehave(child)
  PROVE  StreamInv'
PROOF
<1>u. [Next]_vars
  BY DEF Next
<1>l. layout' = layout
  BY <1>u, LayoutFixed
<1>s. Sound' => Sound
  BY <1>u, StaysUnsound DEF IndInv
<1>i. StreamInv /\ TypeInv /\ layout \in Layouts
  BY DEF IndInv, TypeInv, LayoutOK
<1>t. TypeOK /\ Pointers
  BY DEF IndInv, TypeInv
<1>p. UNCHANGED <<pc, failed>>
  BY DEF Decode, taskVars, Check, Popen, PopenFails, Begin, ReadFrame, ShortRead, ReadDone,
     FinishTakes, FinishEnds, Drop, Misbehave
<1>1. pc' \in {"open", "loop", "await", "publish"} => ~failed'
  BY <1>p, <1>i DEF StreamInv
<1> SUFFICES ASSUME Sound'
             PROVE  /\ pc' # "await" => thread'.at = "none"
                    /\ pc' \in {"open", "loop", "publish"} => Ready'
                    /\ pc' = "await" => ThreadInv'
  BY <1>1 DEF StreamInv
<1>f. /\ ffmpeg \in Seq(Child) /\ DOMAIN ffmpeg = 1..Len(ffmpeg) /\ Len(ffmpeg) \in Nat
      /\ process \in 0..Len(ffmpeg) /\ thread.chunk \in Nat /\ thread.frames \in Seq(Nat)
      /\ (process # None => process \in DOMAIN ffmpeg)
  BY <1>t DEF TypeOK, Child, None
<1> DEFINE c == thread.chunk
           a == ContextStart(layout, c)
<1>a. a \in Nat
  BY <1>i, <1>f, Bounds
<1>2. CASE \E child \in DOMAIN ffmpeg : Misbehave(child)
  <2> PICK child \in DOMAIN ffmpeg : Misbehave(child)
    BY <1>2
  <2>1. \A i \in DOMAIN ffmpeg : ffmpeg'[i].next = ffmpeg[i].next
    <3>1. CASE ffmpeg' = [ffmpeg EXCEPT ![child].state = "hung"]
      BY <3>1, <1>t, StoppedChild
    <3>2. CASE ffmpeg' = Stopped(child)
      BY <3>2, <1>t, StoppedChild DEF Stopped
    <3> QED BY <3>1, <3>2 DEF Misbehave
  <2>2. UNCHANGED <<thread, decoderVars>>
    BY DEF Misbehave
  <2>3. Ready => Ready'
    BY <2>1, <2>2, <1>l, <1>f, ReadyKept
  <2>4. process # None => ffmpeg'[process].next = ffmpeg[process].next
    BY <2>1, <1>f
  <2>5. ThreadInv => ThreadInv'
    BY <2>2, <2>3, <2>4, <1>l
       DEF ThreadInv, ChunkRead, decoderVars, ContextStart, ContextEnd, ValidStart, ValidEnd
  <2> QED BY <1>p, <1>s, <1>i, <2>2, <2>3, <2>5 DEF StreamInv
<1>3. ASSUME Decode PROVE pc = "await" /\ ThreadInv
  BY <1>3, <1>i, <1>s DEF StreamInv, Decode, Check, Popen, PopenFails, Begin, ReadFrame,
     ShortRead, ReadDone, FinishTakes, FinishEnds, Drop
<1>4. CASE Check
  <2>1. Ready /\ pc = "await"
    BY <1>3, <1>4 DEF ThreadInv, Check, Decode
  <2>2. CASE Goto("popen")
    <3>1. thread'.at = "popen"
      BY <2>2, <1>t, ThreadMoves DEF Goto, ThreadPc
    <3> QED BY <3>1, <2>1, <1>p DEF ThreadInv
  <2>3. CASE Goto("begin") /\ UNCHANGED <<ffmpeg, decoderVars>>
    <3>1. thread'.at = "begin" /\ thread'.chunk = thread.chunk
      BY <2>3, <1>t, ThreadMoves DEF Goto, ThreadPc
    <3>2. process # None /\ next_chunk_index = thread.chunk
      BY <1>4, <2>3, <3>1, <1>t, ThreadMoves DEF Check, Goto, ThreadPc
    <3>3. Ready'
      BY <2>1, <2>3, <1>l, ReadyKept
    <3> QED BY <3>1, <3>2, <3>3, <2>1, <2>3, <1>p DEF ThreadInv, decoderVars
  <2> QED BY <1>4, <2>2, <2>3 DEF Check
<1>5. CASE Popen
  <2> DEFINE r == [next |-> TrimStart(c), state |-> "running", late |-> pc # "await"]
  <2>1. /\ ffmpeg' = Append(ffmpeg, r) /\ process' = Len(ffmpeg) + 1
        /\ next_chunk_index' = c /\ previous_tail' = <<>>
        /\ thread' = [thread EXCEPT !.at = "begin"]
    BY <1>5 DEF Popen, Goto
  <2>2. thread'.at = "begin" /\ thread'.chunk = c
    BY <2>1, <1>t, ThreadMoves DEF ThreadPc
  <2>3. r.next = a
    BY DEF TrimStart
  <2> HIDE DEF r
  <2>4. ffmpeg'[process'] = r
    BY <2>1, <1>f
  <2>5. FrameRun(a, a - 1) = <<>> /\ Len(<<>>) = a - a
    BY <1>a DEF FrameRun
  <2>6. ContextStart(layout, c)' = a
    BY <1>l, <2>2 DEF ContextStart, ValidStart
  <2>7. process' # None
    BY <2>1, <1>f DEF None
  <2>8. LinedUp(next_chunk_index)'
    <3>1. ContextStart(layout', next_chunk_index') = a
      BY <1>l, <2>1
    <3> HIDE DEF a, c
    <3>2. ffmpeg'[process'].next = a
      BY <2>3, <2>4
    <3>3. next_chunk_index' \in Nat
      BY <2>1, <1>f DEF c
    <3> QED BY <2>1, <2>5, <3>1, <3>2, <3>3 DEF LinedUp
  <2> QED BY <2>1, <2>2, <2>7, <2>8, <1>p, <1>3, <1>5 DEF ThreadInv, Ready, Decode
<1>6. CASE PopenFails
  <2>1. thread'.at = "raised"
    BY <1>6, <1>t, ThreadMoves DEF PopenFails, Goto, ThreadPc
  <2> QED BY <2>1, <1>p, <1>3, <1>6 DEF ThreadInv, Decode
<1>7. CASE Begin
  <2>1. process # None /\ LinedUp(c) /\ pc = "await"
    BY <1>3, <1>7 DEF ThreadInv, Begin, Decode, Ready
  <2>2. UNCHANGED <<ffmpeg, decoderVars>>
    BY <1>7 DEF Begin
  <2>3. CASE thread' = [thread EXCEPT !.at = "reading", !.child = process,
                                     !.frames = previous_tail]
    <3>1. /\ thread'.at = "reading" /\ thread'.child = process /\ thread'.chunk = c
          /\ thread'.frames = previous_tail
      BY <2>3, <1>t DEF TypeOK
    <3>2. ContextStart(layout', thread'.chunk) = a
      BY <3>1, <1>l
    <3>3. /\ previous_tail = FrameRun(a, ffmpeg[process].next - 1)
          /\ Len(previous_tail) = ffmpeg[process].next - a
      BY <2>1 DEF LinedUp
    <3> HIDE DEF a, c
    <3> QED BY <2>1, <2>2, <3>1, <3>2, <3>3, <1>p DEF ThreadInv, decoderVars
  <2>4. CASE thread'.at = "raised"
    BY <2>1, <2>4, <1>p DEF ThreadInv
  <2>5. [thread EXCEPT !.at = "raised"].at = "raised"
    BY <1>t DEF TypeOK
  <2> QED BY <1>7, <2>3, <2>4, <2>5 DEF Begin
<1>8. CASE ReadFrame
  <2> DEFINE n == ffmpeg[process].next
  <2>1. /\ pc = "await" /\ thread.at = "reading" /\ thread.child = process /\ process # None
        /\ thread.frames = FrameRun(a, n - 1) /\ Len(thread.frames) = n - a
    BY <1>3, <1>8 DEF ThreadInv, ReadFrame, Decode
  <2>2. /\ thread' = [thread EXCEPT !.frames = Append(@, n)]
        /\ ffmpeg' = [ffmpeg EXCEPT ![process].next = @ + 1]
        /\ UNCHANGED decoderVars
    BY <1>8, <2>1 DEF ReadFrame
  <2>3. ffmpeg[process] \in Child /\ n \in Nat
    <3>1. ffmpeg[process] \in Child
      BY <2>1, <1>f
    <3> QED BY <3>1 DEF Child
  <2>4. ffmpeg'[process].next = n + 1
    BY <2>1, <2>2, <2>3, <1>f DEF Child
  <2>5. /\ thread'.at = "reading" /\ thread'.child = process /\ thread'.chunk = c
        /\ thread'.frames = Append(thread.frames, n)
    BY <2>1, <2>2, <1>t DEF TypeOK
  <2>6. ContextStart(layout', thread'.chunk) = a
    BY <2>5, <1>l
  <2> HIDE DEF a, n, c
  <2>7. a <= n
    BY <2>1, <2>3, <1>a, <1>f
  <2>8. /\ Append(FrameRun(a, n - 1), n) = FrameRun(a, n)
        /\ Len(FrameRun(a, n)) = n + 1 - a
    <3>1. n - 1 \in Int /\ a <= n - 1 + 1 /\ n - 1 + 1 = n
      BY <2>3, <2>7, <1>a
    <3>2. Append(FrameRun(a, n - 1), n) = FrameRun(a, n)
      BY <3>1, <1>a, RunGrows
    <3>3. Len(FrameRun(a, n)) = n - a + 1
      BY <2>3, <2>7, <1>a, RunIsSeq
    <3> QED BY <3>2, <3>3, <2>3, <1>a
  <2>9. UNCHANGED process
    BY <2>2 DEF decoderVars
  <2>10. thread'.frames = FrameRun(a, n) /\ Len(thread'.frames) = n + 1 - a
    <3>1. thread'.frames = Append(FrameRun(a, n - 1), n)
      BY <2>1, <2>5
    <3>2. thread'.frames = FrameRun(a, n)
      BY <2>8, <3>1
    <3>3. n \in Int /\ a <= n + 1
      BY <2>3, <2>7, <1>a
    <3>4. Len(thread'.frames) = n - a + 1
      BY <3>2, <3>3, <1>a, RunLength, Zenon
    <3>5. n - a + 1 = n + 1 - a
      BY <2>3, <1>a
    <3> QED BY <3>2, <3>4, <3>5, Zenon
  <2>11. /\ pc' = "await" /\ thread'.at = "reading" /\ thread'.child = process'
         /\ process' # None
    BY <2>1, <2>5, <2>9, <1>p
  <2>12. ffmpeg'[process'].next = n + 1
    BY <2>4, <2>9
  <2>13. /\ thread'.frames = FrameRun(ContextStart(layout', thread'.chunk),
                                     ffmpeg'[process'].next - 1)
         /\ Len(thread'.frames) = ffmpeg'[process'].next
                                     - ContextStart(layout', thread'.chunk)
    <3>1. ffmpeg'[process'].next - 1 = n
      BY <2>3, <2>12
    <3>2. thread'.frames = FrameRun(a, n)
      BY <2>10
    <3>3. Len(thread'.frames) = n + 1 - a
      BY <2>10
    <3>4. thread'.frames = FrameRun(ContextStart(layout', thread'.chunk),
                                    ffmpeg'[process'].next - 1)
      BY <2>6, <3>1, <3>2
    <3>5. Len(thread'.frames) = ffmpeg'[process'].next - ContextStart(layout', thread'.chunk)
      BY <2>3, <2>6, <2>12, <3>3, <1>a
    <3> QED BY <3>4, <3>5
  <2>14. ThreadInv'
    BY <2>11, <2>13 DEF ThreadInv
  <2> QED BY <2>11, <2>14
<1>9. CASE ShortRead
  <2>1. thread'.at = "raised"
    BY <1>9, <1>t, ThreadMoves DEF ShortRead, Goto, ThreadPc
  <2> QED BY <2>1, <1>p, <1>3, <1>9 DEF ThreadInv, Decode
<1>10. CASE ReadDone
  <2> DEFINE n == ffmpeg[process].next
             b == ContextEnd(layout, c)
  <2>1. /\ pc = "await" /\ thread.child = process /\ process # None
        /\ thread.frames = FrameRun(a, n - 1) /\ Len(thread.frames) = n - a
        /\ Len(thread.frames) = b - a + 1
    BY <1>3, <1>10 DEF ThreadInv, ReadDone, Decode, Wanted
  <2>2. b \in Int /\ n \in Nat
    <3>1. b \in Int
      BY <1>i, <1>f, Bounds
    <3>2. ffmpeg[process] \in Child
      BY <2>1, <1>f
    <3> QED BY <3>1, <3>2 DEF Child
  <2>3. n = b + 1 /\ n - 1 = b
    <3> HIDE DEF n, b, a, c
    <3> QED BY <2>1, <2>2, <1>a
  <2>4. thread.frames = FrameRun(a, b)
    BY <2>1, <2>3
  <2>5. /\ thread'.chunk = c /\ thread'.frames = thread.frames
        /\ thread'.at = IF IsLast(layout, c) THEN "finish" ELSE "returned"
    <3>1. "finish" \in ThreadPc /\ "returned" \in ThreadPc
      BY DEF ThreadPc
    <3> QED BY <1>10, <3>1, <1>t, ThreadMoves DEF ReadDone, Goto
  <2>6. ChunkRead'
    <3>1. ContextStart(layout', thread'.chunk) = a /\ ContextEnd(layout', thread'.chunk) = b
      BY <2>5, <1>l
    <3> HIDE DEF a, b, c, n
    <3> QED BY <2>4, <2>5, <3>1 DEF ChunkRead
  <2>7. ASSUME ~IsLast(layout, c) PROVE Ready'
    <3> DEFINE k == Min({layout.overlap, Len(thread.frames)})
    <3>1. /\ SubSeq(thread.frames, Len(thread.frames) - k + 1, Len(thread.frames))
               = FrameRun(ContextStart(layout, c + 1), b)
          /\ k = b + 1 - ContextStart(layout, c + 1)
      BY <2>4, <2>7, <1>i, <1>f, TailIsContext
    <3>2. /\ previous_tail' = FrameRun(ContextStart(layout, c + 1), b)
          /\ next_chunk_index' = c + 1 /\ UNCHANGED <<process, ffmpeg>>
      BY <1>10, <3>1 DEF ReadDone, LastFrames
    <3>3. k \in Nat /\ c + 1 \in Nat /\ ContextStart(layout, c + 1) \in Nat
      <4>1. c + 1 \in Nat
        BY <1>f
      <4>2. ContextStart(layout, c + 1) \in Nat
        BY <4>1, <1>i, Bounds
      <4>3. layout.overlap \in Nat /\ Len(thread.frames) \in Nat
        BY <1>i, <1>f DEF Layouts
      <4> HIDE DEF c
      <4> QED BY <4>1, <4>2, <4>3, MinOfPair
    <3> DEFINE a1 == ContextStart(layout, c + 1)
    <3>4. Len(FrameRun(a1, b)) = b - a1 + 1
      <4> HIDE DEF a1, b, k
      <4>1. a1 <= b + 1
        BY <2>2, <3>1, <3>3 DEF a1
      <4> QED BY <2>2, <3>3, <4>1, RunIsSeq DEF a1
    <3>5. ContextStart(layout', next_chunk_index') = a1
      BY <3>2, <1>l
    <3>6. ffmpeg'[process'].next = n
      BY <3>2
    <3>7. previous_tail' = FrameRun(a1, b) /\ next_chunk_index' \in Nat
      BY <3>2, <3>3
    <3>8. b - a1 + 1 = n - a1
      <4>1. a1 \in Nat
        BY <3>3
      <4> HIDE DEF a1, b, n
      <4> QED BY <2>2, <2>3, <4>1
    <3> HIDE DEF a, b, c, n, k, a1
    <3> QED BY <2>3, <3>4, <3>5, <3>6, <3>7, <3>8 DEF Ready, LinedUp
  <2> HIDE DEF a, b, n
  <2> QED BY <2>1, <2>5, <2>6, <2>7, <1>p DEF ThreadInv
<1>11. CASE FinishTakes
  <2>1. pc = "await" /\ ChunkRead
    BY <1>3, <1>11 DEF ThreadInv, FinishTakes, Decode
  <2>2. Ready'
    BY <1>11 DEF FinishTakes, Forget, Ready
  <2>3. /\ thread'.at \in {"end", "returned"} /\ thread'.chunk = thread.chunk
        /\ thread'.frames = thread.frames
    BY <1>11, <1>t DEF FinishTakes, TypeOK
  <2>4. ChunkRead'
    BY <2>1, <2>3, <1>l DEF ChunkRead
  <2> QED BY <2>1, <2>2, <2>3, <2>4, <1>p DEF ThreadInv
<1>13. CASE FinishEnds
  <2>1. pc = "await" /\ ChunkRead /\ Ready
    BY <1>3, <1>13 DEF ThreadInv, FinishEnds, Decode
  <2>3. /\ thread'.at \in {"raised", "returned"} /\ thread'.chunk = thread.chunk
        /\ thread'.frames = thread.frames
    <3>1. "raised" \in ThreadPc /\ "returned" \in ThreadPc
      BY DEF ThreadPc
    <3> QED BY <1>13, <3>1, <1>t, ThreadMoves DEF FinishEnds, Goto
  <2>4. ChunkRead'
    BY <2>1, <2>3, <1>l DEF ChunkRead
  <2>5. Ready'
    <3>1. thread.child \in DOMAIN ffmpeg /\ UNCHANGED decoderVars
          /\ ffmpeg' = [ffmpeg EXCEPT ![thread.child].state = "exited"]
      BY <1>13, <1>t, <1>f DEF FinishEnds, Ended, Stopped, Pointers, None, TypeOK
    <3>2. process # None => ffmpeg'[process].next = ffmpeg[process].next
      BY <3>1, <1>t, <1>f, StoppedChild DEF None, TypeOK
    <3> QED BY <2>1, <3>1, <3>2, <1>l, ReadyKept
  <2> QED BY <2>1, <2>3, <2>4, <2>5, <1>p DEF ThreadInv
<1>12. CASE Drop
  BY <1>3, <1>12 DEF Drop, Decode
<1> QED BY <1>2, <1>4, <1>5, <1>6, <1>7, <1>8, <1>9, <1>10, <1>11, <1>12, <1>13
        DEF Decode

LEMMA BatchStep == IndInv /\ [Next]_vars => BatchInv'
PROOF
<1> SUFFICES ASSUME IndInv, [Next]_vars PROVE BatchInv'
  OBVIOUS
<1>l. layout' = layout
  BY LayoutFixed
<1>1. CASE Receive
  <2>1. Sound /\ thread.chunk \in Nat
    BY <1>1 DEF Receive, IndInv, StreamInv, Sound, TypeInv, TypeOK
  <2>2. ChunkRead
    BY <1>1, <2>1 DEF Receive, IndInv, StreamInv, ThreadInv
  <2> QED BY <1>1, <1>l, <2>1, <2>2 DEF Receive, IndInv, BatchInv, ChunkRead
<1>2. CASE ~Receive
  <2>1. batches' = batches
    BY <1>2 DEF Next, vars, taskVars, Handler, Decode, Deliver, Open, Request, Leave,
       DecodeFails, Publish, CloseTakes, CloseShuts, CloseStops, TimeOut, Check, Popen,
       PopenFails, Begin, ReadFrame, ShortRead, ReadDone, FinishTakes, FinishEnds, Drop, Misbehave
  <2> QED BY <2>1, <1>l DEF IndInv, BatchInv
<1> QED BY <1>1, <1>2

LEMMA Invariance == Spec => []IndInv
PROOF
<1>1. Init => IndInv
  <2>1. Init => StreamInv /\ BatchInv
    BY DEF Init, StreamInv, BatchInv, NoThread, Sound
  <2> QED BY <2>1, TypeInit DEF IndInv
<1>2. IndInv /\ [Next]_vars => IndInv'
  <2> SUFFICES ASSUME IndInv, [Next]_vars PROVE IndInv'
    OBVIOUS
  <2>1. TypeInv'
    BY TypeStep DEF IndInv
  <2>2. StreamInv'
    BY <2>1, HandlerStep, DecodeStep DEF Next
  <2> QED BY <2>1, <2>2, BatchStep DEF IndInv
<1> QED BY <1>1, <1>2, PTL DEF Spec

(* VideoDecoder.FramesExact: for every video and layout, every chunk that  *)
(* is handed over has exactly its own frames, however many streams were    *)
(* started and wherever they began.                                        *)
THEOREM FramesDelivered == Spec => []FramesExact
PROOF
<1>1. IndInv => FramesExact
  BY DEF IndInv, BatchInv, FramesExact
<1> QED BY <1>1, Invariance, PTL

-----------------------------------------------------------------------------
(* Who looks after a child.                                                *)
LEMMA ChildInit == Init => ChildInv
PROOF BY DEF Init, ChildInv, NoThread, NoCloser, None, Alive

Guarded(child) ==
  Alive(child) /\ ~ffmpeg[child].late =>
    \/ InHand(child)
    \/ /\ pc # "idle"
       /\ child = process \/ (closer.at # "take" /\ child = closer.child)

LEMMA ChildStep == IndInv /\ IndInv' /\ ChildInv /\ [Next]_vars => ChildInv'
PROOF
<1> SUFFICES ASSUME IndInv, IndInv', ChildInv, [Next]_vars PROVE ChildInv'
  OBVIOUS
<1>t. TypeOK /\ Pointers
  BY DEF IndInv, TypeInv
<1>h. /\ thread.at # "end" => \A child : ~InHand(child)
      /\ thread' = thread => \A child : InHand(child)' = InHand(child)
      /\ pc = "loop" => thread.at = "none"
  BY DEF InHand, IndInv, StreamInv, Sound
<1>f. DOMAIN ffmpeg = 1..Len(ffmpeg) /\ Len(ffmpeg) \in Nat
      /\ process \in 0..Len(ffmpeg) /\ thread.child \in 0..Len(ffmpeg)
  BY <1>t DEF TypeOK
<1>m. /\ closer.at # "take" => Closing /\ (process = None \/ ffmpeg[process].late)
      /\ thread.at = "popen" => process = None
      /\ \A child \in DOMAIN ffmpeg : Guarded(child)
  BY DEF ChildInv, Guarded
<1>g. ASSUME closer'.at # "take" => Closing' /\ (process' = None \/ ffmpeg'[process'].late),
             thread'.at = "popen" => process' = None,
             \A child \in DOMAIN ffmpeg' : Guarded(child)'
      PROVE  ChildInv'
  BY <1>g DEF ChildInv, Guarded
(* Whatever stops a child, or changes none, leaves the others as they are. *)
<1>s. ASSUME NEW child \in DOMAIN ffmpeg, ffmpeg' = Stopped(child)
      PROVE  /\ DOMAIN ffmpeg' = DOMAIN ffmpeg
             /\ ~Alive(child)'
             /\ \A i \in DOMAIN ffmpeg : /\ ffmpeg'[i].late = ffmpeg[i].late
                                         /\ i # child => Alive(i)' = Alive(i)
  BY ZenonT(30), <1>s, <1>t, StoppedChild DEF Stopped, Alive
<1>1. CASE Deliver
  BY <1>1, <1>h, <1>m, <1>g DEF Deliver, Forget, Guarded, Alive, Closing, taskVars, None
<1>2. CASE Open \/ Receive \/ DecodeFails \/ Request \/ Leave \/ Publish
  <2>1. UNCHANGED <<ffmpeg, process, closer>> /\ pc' # "idle"
    BY <1>2 DEF Open, Receive, DecodeFails, Request, Leave, Publish, decoderVars, taskVars
  <2>2. closer.at = "take"
    BY <1>2, <1>m DEF Open, Receive, DecodeFails, Request, Leave, Publish, Closing
  <2>3. thread' = thread \/ thread'.at = "none" \/ thread'.at = "check"
    <3>1. CASE Request
      <4>1. thread' = [NoThread EXCEPT !.at = "check", !.chunk = published]
        BY <3>1 DEF Request
      <4> QED BY <4>1 DEF NoThread
    <3>2. CASE Receive \/ DecodeFails
      BY <3>2 DEF Receive, DecodeFails, NoThread
    <3>3. CASE Open \/ Leave \/ Publish
      BY <3>3 DEF Open, Leave, Publish
    <3> QED BY <1>2, <3>1, <3>2, <3>3
  <2>4. thread' = thread \/ thread.at # "end"
    BY <1>2, <1>h DEF Open, Receive, DecodeFails, Request, Leave, Publish
  <2> QED BY <2>1, <2>2, <2>3, <2>4, <1>h, <1>m, <1>g DEF Guarded, Alive
<1>3. CASE TimeOut \/ CloseShuts
  <2>1. /\ UNCHANGED <<ffmpeg, process, thread>> /\ pc' # "idle" /\ Closing'
        /\ closer'.at = "take" <=> closer.at = "take"
        /\ closer'.child = closer.child
    BY <1>3, <1>t DEF TimeOut, CloseShuts, decoderVars, taskVars, Closing, TypeOK
  <2> QED BY <2>1, <1>h, <1>m, <1>g DEF Guarded, Alive
<1>4. CASE CloseTakes
  <2>1. UNCHANGED <<ffmpeg, thread>> /\ process' = None /\ closer.at = "take"
    BY <1>4 DEF CloseTakes, Forget
  <2>2. CASE process = None
    <3>1. closer'.at = "take"
      BY <1>4, <2>2 DEF CloseTakes, Return, NoCloser
    <3>2. \A child \in DOMAIN ffmpeg :
            Alive(child) => ffmpeg[child].late \/ InHand(child)
      BY <2>1, <2>2, <1>m, <1>f DEF Guarded, None
    <3> QED BY <2>1, <3>1, <3>2, <1>h, <1>m, <1>g DEF Guarded, Alive
  <2>3. CASE process # None
    <3>1. closer' = [at |-> "shut", child |-> process] /\ pc' = pc /\ Closing
      BY <1>4, <2>3 DEF CloseTakes
    <3>2. pc # "idle"
      BY <3>1 DEF Closing
    <3> QED BY <2>1, <3>1, <3>2, <1>h, <1>m, <1>g DEF Guarded, Alive, Closing
  <2> QED BY <2>2, <2>3
<1>5. CASE CloseStops
  <2>1. closer.at # "take" /\ closer'.at = "take" /\ UNCHANGED <<process, thread>>
        /\ ffmpeg' = Stopped(closer.child)
    BY <1>5 DEF CloseStops, Return, NoCloser, decoderVars, Closed
  <2>2. closer.child \in DOMAIN ffmpeg
    BY <2>1, <1>t DEF Pointers, TypeOK, None
  <2>3. \A child \in DOMAIN ffmpeg' :
          Alive(child)' => ffmpeg'[child].late \/ InHand(child)'
    BY <2>1, <2>2, <1>s, <1>h, <1>m, <1>f DEF Guarded, None
  <2> QED BY <2>1, <2>3, <1>m, <1>g DEF Guarded
<1>6. CASE Check
  <2>h. thread.at # "end"
    BY <1>6 DEF Check
  <2>1. UNCHANGED <<pc, closer>>
    BY <1>6 DEF Check
  <2>2. CASE UNCHANGED <<ffmpeg, process>> /\ thread'.at # "popen"
    BY <2>1, <2>2, <1>h, <2>h, <1>m, <1>g DEF Guarded, Alive, Closing
  <2>3. CASE process' = None /\ process = None /\ ffmpeg' = ffmpeg
    BY <2>1, <2>3, <1>h, <2>h, <1>m, <1>g DEF Guarded, Alive, Closing
  <2>4. CASE process' = None /\ process # None /\ ffmpeg' = Stopped(process)
    <3>1. process \in DOMAIN ffmpeg
      BY <2>4, <1>f DEF None
    <3> QED BY <2>1, <2>4, <3>1, <1>s, <1>h, <2>h, <1>m, <1>g DEF Guarded, Closing
  <2>5. \/ UNCHANGED <<ffmpeg, process>> /\ thread' = [thread EXCEPT !.at = "begin"]
        \/ process' = None /\ process = None /\ ffmpeg' = ffmpeg
        \/ process' = None /\ process # None /\ ffmpeg' = Stopped(process)
    BY <1>6 DEF Check, Goto, Forget, decoderVars
  <2>6. "begin" \in ThreadPc
    BY DEF ThreadPc
  <2> QED BY <2>2, <2>3, <2>4, <2>5, <2>6, <1>t, ThreadMoves
<1>7. CASE Popen
  <2>h. thread.at # "end"
    BY <1>7 DEF Popen
  <2> DEFINE r == [next |-> TrimStart(thread.chunk), state |-> "running",
                   late |-> pc # "await"]
  <2> PICK n : n = Len(ffmpeg) + 1
    OBVIOUS
  <2>1. ffmpeg' = Append(ffmpeg, r) /\ process' = n /\ UNCHANGED <<pc, closer>>
        /\ thread' = [thread EXCEPT !.at = "begin"]
    BY <1>7 DEF Popen, Goto
  <2>2. thread'.at = "begin"
    BY <2>1, <1>t, ThreadMoves DEF ThreadPc
  <2>3. /\ DOMAIN ffmpeg' = 1..n /\ ffmpeg'[n] = r
        /\ \A i \in DOMAIN ffmpeg : i \in 1..n /\ ffmpeg'[i] = ffmpeg[i]
        /\ \A i \in 1..n : i \in DOMAIN ffmpeg \/ i = n
    <3> HIDE DEF r
    <3> QED BY SMTT(30), <2>1, <1>f, <1>t DEF TypeOK
  <2>4. pc # "await" => r.late
    OBVIOUS
  <2>5. process = None
    BY <1>7, <1>m DEF Popen
  <2> HIDE DEF r
  <2>6. \A i \in DOMAIN ffmpeg : Guarded(i)'
    BY <2>1, <2>3, <2>5, <1>h, <2>h, <1>m, <1>f DEF Guarded, Alive, None
  <2>7. Guarded(n)'
    <3>1. CASE pc = "await"
      <4>1. pc' # "idle" /\ process' = n
        BY <2>1, <3>1
      <4> QED BY <4>1, Zenon DEF Guarded
    <3>2. CASE pc # "await"
      <4>1. ffmpeg'[n].late
        BY <2>3, <2>4, <3>2, Zenon
      <4> QED BY <4>1, Zenon DEF Guarded
    <3> QED BY <3>1, <3>2
  <2>8. closer'.at # "take" => Closing' /\ ffmpeg'[process'].late
    <3>1. closer'.at # "take" => Closing' /\ pc # "await"
      BY <2>1, <1>m DEF Closing
    <3>2. pc # "await" => ffmpeg'[process'].late
      BY <2>1, <2>3, <2>4, Zenon
    <3> QED BY <3>1, <3>2, Zenon
  <2> QED BY <2>2, <2>3, <2>6, <2>7, <2>8, <1>g
<1>8. CASE PopenFails \/ Begin \/ ReadDone \/ Drop
  <2>h. thread.at # "end"
    BY <1>8 DEF PopenFails, Begin, ReadDone, Drop
  <2>1. UNCHANGED <<ffmpeg, process, closer, pc>>
    BY <1>8 DEF PopenFails, Begin, ReadDone, Drop, decoderVars
  <2>2. thread'.at # "popen"
    <3>1. {"raised", "reading", "finish", "returned"} \subseteq ThreadPc
      BY DEF ThreadPc
    <3>2. CASE Begin
      BY <3>2, <1>t DEF Begin, TypeOK
    <3>3. CASE Drop
      BY <3>3 DEF Drop, NoThread
    <3> QED BY <1>8, <3>1, <3>2, <3>3, <1>t, ThreadMoves DEF PopenFails, ReadDone, Goto
  <2> QED BY <2>1, <2>2, <1>h, <2>h, <1>m, <1>g DEF Guarded, Alive, Closing
<1>9. CASE ReadFrame
  <2>h. thread.at # "end"
    BY <1>9 DEF ReadFrame
  <2>1. thread.child \in DOMAIN ffmpeg
    BY <1>9, <1>f, <1>t DEF ReadFrame, Pointers, None
  <2>2. UNCHANGED <<process, closer, pc>> /\ thread'.at = thread.at
    BY <1>9, <1>t DEF ReadFrame, decoderVars, TypeOK
  <2>3. /\ DOMAIN ffmpeg' = DOMAIN ffmpeg
        /\ \A i \in DOMAIN ffmpeg :
             ffmpeg'[i].late = ffmpeg[i].late /\ ffmpeg'[i].state = ffmpeg[i].state
    BY <1>9, <2>1, <1>t DEF ReadFrame, TypeOK
  <2> QED BY <2>2, <2>3, <1>h, <2>h, <1>m, <1>g, <1>f DEF Guarded, Alive, Closing, None
<1>10. CASE ShortRead
  <2>h. thread.at # "end"
    BY <1>10 DEF ShortRead
  <2>1. thread.child \in DOMAIN ffmpeg
    BY <1>10, <1>f, <1>t DEF ShortRead, Pointers, None
  <2>2. UNCHANGED <<process, closer, pc>> /\ ffmpeg' = Stopped(thread.child)
    BY <1>10 DEF ShortRead, decoderVars
  <2>3. thread'.at # "popen"
    BY <1>10, <1>t, ThreadMoves DEF ShortRead, Goto, ThreadPc
  <2> QED BY <2>1, <2>2, <2>3, <1>s, <1>h, <2>h, <1>m, <1>g, <1>f DEF Guarded, Closing, None
<1>11. CASE FinishTakes
  <2>1. process' = None /\ UNCHANGED <<pc, closer, ffmpeg>>
    BY <1>11 DEF FinishTakes, Forget
  <2>2. thread'.at \in {"end", "returned"} /\ thread.at = "finish"
    BY <1>11, <1>t DEF FinishTakes, TypeOK
  <2>3. process # None => thread'.at = "end" /\ thread'.child = process
    BY <1>11, <1>t DEF FinishTakes, TypeOK
  <2>4. \A child \in DOMAIN ffmpeg : child = process => InHand(child)'
    BY <2>1, <2>3, <1>f DEF InHand, None
  <2> QED BY <2>1, <2>2, <2>4, <1>h, <1>m, <1>g, <1>f DEF Guarded, Alive, Closing, None
<1>14. CASE FinishEnds
  <2>1. thread.child \in DOMAIN ffmpeg
    BY <1>14, <1>f, <1>t DEF FinishEnds, Pointers, None
  <2>2. UNCHANGED <<process, closer, pc>> /\ ffmpeg' = Stopped(thread.child)
        /\ thread.at = "end"
    BY <1>14 DEF FinishEnds, decoderVars, Ended
  <2>3. thread'.at # "popen"
    BY <1>14, <1>t, ThreadMoves DEF FinishEnds, Goto, ThreadPc
  <2>4. \A child : InHand(child) => child = thread.child
    BY DEF InHand
  <2> QED BY <2>1, <2>2, <2>3, <2>4, <1>s, <1>m, <1>g, <1>f DEF Guarded, Closing, None
<1>12. CASE \E child \in DOMAIN ffmpeg : Misbehave(child)
  <2> PICK child \in DOMAIN ffmpeg : Misbehave(child)
    BY <1>12
  <2>1. UNCHANGED <<pc, process, thread, closer>> /\ Alive(child)
    BY DEF Misbehave, decoderVars, Alive
  <2>2. /\ DOMAIN ffmpeg' = DOMAIN ffmpeg
        /\ \A i \in DOMAIN ffmpeg : ffmpeg'[i].late = ffmpeg[i].late
                                    /\ (Alive(i)' => Alive(i))
    <3>1. CASE ffmpeg' = [ffmpeg EXCEPT ![child].state = "hung"]
      BY <2>1, <3>1, <1>t, StoppedChild DEF Alive
    <3>2. CASE ffmpeg' = Stopped(child)
      BY <3>2, <1>s
    <3> QED BY <3>1, <3>2 DEF Misbehave
  <2> QED BY <2>1, <2>2, <1>h, <1>m, <1>g, <1>f DEF Guarded, Closing, None
<1>13. CASE UNCHANGED vars
  BY <1>13, <1>m, <1>g DEF vars, taskVars, decoderVars, Guarded, Alive, Closing, InHand
<1> QED BY <1>1, <1>2, <1>3, <1>4, <1>5, <1>6, <1>7, <1>8, <1>9, <1>10, <1>11, <1>12, <1>13,
           <1>14
        DEF Next, Handler, Decode

(* VideoDecoder.NoChildLeft: whatever the child does and however the       *)
(* delivery ends, close leaves only a child that was started late and one  *)
(* that the thread is about to stop.                                       *)
THEOREM ChildrenStopped == Spec => []NoChildLeft
PROOF
<1>1. Spec => []ChildInv
  BY Invariance, ChildInit, ChildStep, PTL DEF Spec
<1>2. ChildInv => NoChildLeft
  BY DEF ChildInv, NoChildLeft
<1> QED BY <1>1, <1>2, PTL

=============================================================================
