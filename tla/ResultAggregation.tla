-------------------------- MODULE ResultAggregation --------------------------
(***************************************************************************)
(* aggregate_result (services/result_aggregation.py): the cut results of   *)
(* all chunks become the scenes and transitions of the video.  A result    *)
(* has a set of scenes, each with its number and range, and a set of       *)
(* transitions.  (The tracks are concatenated; the timings are sums.)      *)
(***************************************************************************)
EXTENDS Integers, FiniteSetsExt

(* Pieces with the same number are one scene.                              *)
MutantFirstPiece(results) ==
  {CHOOSE p \in UNION {r.scenes : r \in results} : p.nr = n :
     n \in {s.nr : s \in UNION {r.scenes : r \in results}}}

MergedScenes(results) ==
  LET pieces    == UNION {r.scenes : r \in results}
      Scene(nr) == {p \in pieces : p.nr = nr}
  IN  {[nr    |-> n,
        start |-> Min({p.start : p \in Scene(n)}),
        end   |-> Max({p.end : p \in Scene(n)})] : n \in {p.nr : p \in pieces}}

(* Equal transitions of two chunks are one.                                *)
MergedTransitions(results) == UNION {r.transitions : r \in results}
=============================================================================
