--------------------------- MODULE MCStreamWorker ---------------------------
(* Small deployments for StreamWorker: one process that runs two lanes of  *)
(* three entries, and two processes that read one entry at a time.         *)
EXTENDS StreamWorker

CONSTANTS v1, v2, w1, w2

OneWithLanes == [task_of |-> <<v1, v2, v1>>, workers |-> {w1},
                 batch |-> 3, concurrency |-> 2]

TwoProcesses == [task_of |-> <<v1, v1>>, workers |-> {w1, w2},
                 batch |-> 1, concurrency |-> 1]

MCDeployments == {OneWithLanes, TwoProcesses}
=============================================================================
