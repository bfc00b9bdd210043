---------------------------- MODULE MCSubmission ----------------------------
(* Bodies for Submission: videos, an address, and archives that are sound, *)
(* hold a damaged video after a sound one, hold no video, or are refused.  *)
EXTENDS Submission

Body(kind, size, valid, members) ==
  [kind |-> kind, size |-> size, valid |-> valid, members |-> members]

Entry(class, size) == [class |-> class, size |-> size]

MCBodies ==
  { Body("video", 3, TRUE, <<>>), Body("video", 5, TRUE, <<>>),
    Body("url", 2, TRUE, <<>>), Body("url", 2, FALSE, <<>>),
    Body("archive", 1, TRUE, <<Entry("video", 1), Entry("skipped", 1), Entry("video", 2)>>),
    Body("archive", 1, TRUE, <<Entry("video", 1), Entry("damaged", 1)>>),
    Body("archive", 3, TRUE, <<Entry("skipped", 1)>>), Body("archive", 5, TRUE, <<>>),
    Body("archive", 1, TRUE, <<Entry("video", 1), Entry("refused", 1)>>) }
=============================================================================
