--------------------------- MODULE MCVideoDecoder ---------------------------
(* Small videos for VideoDecoder: a long overlap and a short last chunk,   *)
(* chunks that are limited by bytes, no overlap, and a single chunk.       *)
EXTENDS VideoDecoder

Video(frames, chunk, overlap, limit) ==
  [frames |-> frames, chunk |-> chunk, overlap |-> overlap, limit |-> limit]

MCVideos == {Video(7, 3, 2, 8), Video(7, 3, 2, 4), Video(4, 2, 0, 9), Video(2, 3, 1, 4)}
=============================================================================
