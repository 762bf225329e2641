-------------------------- MODULE MCRetrainPipeline --------------------------
(* Data that trains a good model, one below the accuracy minimum and one   *)
(* that fails validation; the fallback's labels are random, so its model   *)
(* finds none of the failures.  A PSI that rounds down to the threshold    *)
(* and one beyond it; a SUBPRIME score and a GOOD one.                     *)
EXTENDS RetrainPipeline

CONSTANTS r1, r2

MCRuns == {r1, r2}

Data(in_range, rows, accuracy, f1) ==
    [in_range |-> in_range, rows |-> rows, accuracy |-> accuracy, f1 |-> f1]

MCFeastData ==
    {Data(TRUE, 500, 90000, 80000), Data(TRUE, 500, 69000, 65000), Data(FALSE, 500, 90000, 80000)}
MCFallback == Data(TRUE, 5000, 92000, 0)
MCPsi == {5000, 10003, 12000}
MCScores == {540, 720}
=============================================================================
