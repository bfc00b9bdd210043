---------------------------- MODULE MCCutWorker ----------------------------
(* Small layouts for CutWorker: two chunks with a long context, three      *)
(* chunks whose last has one frame, and chunks limited by their bytes.     *)
EXTENDS CutWorker

MCLayouts == {Layout(7, 4, 3, 99), Layout(5, 2, 1, 99), Layout(6, 8, 2, 4)}

MCOneLayout == {Layout(10, 5, 4, 99)}
=============================================================================
