------------------------------ MODULE Chunking ------------------------------
(***************************************************************************)
(* How FFmpegVideoDecoder (services/video_decoder.py) cuts a video into    *)
(* chunks.  A layout has the video's number of frames and the effective    *)
(* chunk size and overlap; frames and chunks count from 0.                 *)
(***************************************************************************)
EXTENDS Integers, FiniteSetsExt

(* _effective_chunking: limit is the number of frames that                 *)
(* max_decoded_chunk_bytes holds, at least 1.                              *)
EffectiveOverlap(chunk, overlap, limit) ==
  LET o == Min({overlap, limit \div 4})
      c == Max({1, Min({chunk, limit - o})})
  IN  IF limit = 1 THEN 0 ELSE Min({o, c - 1})

EffectiveChunk(chunk, overlap, limit) ==
  IF limit = 1
  THEN 1
  ELSE Max({1, Min({chunk, limit - Min({overlap, limit \div 4})})})

Layout(frames, chunk, overlap, limit) ==
  [frames  |-> frames,
   size    |-> EffectiveChunk(chunk, overlap, limit),
   overlap |-> EffectiveOverlap(chunk, overlap, limit)]

(* The valid range is owned by the chunk; the context before it is shared  *)
(* with the chunk before.                                                  *)
TotalChunks(l) == (l.frames + l.size - 1) \div l.size

ValidStart(l, c)   == c * l.size
ValidEnd(l, c)     == Min({ValidStart(l, c) + l.size, l.frames}) - 1
ContextStart(l, c) == Max({0, ValidStart(l, c) - l.overlap})
ContextEnd(l, c)   == ValidEnd(l, c)
IsLast(l, c)       == ValidEnd(l, c) = l.frames - 1

(* The frames from a to b in order.                                        *)
FrameRun(a, b) == [i \in 1..(b - a + 1) |-> a + i - 1]
=============================================================================
