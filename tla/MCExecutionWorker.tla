------------------------- MODULE MCExecutionWorker -------------------------
(***************************************************************************)
(* Small instances of the workers for TLC: one vendor, which every mandate *)
(* approves, and amounts such that two payments fit a mandate one after    *)
(* the other.  What vendors report is the subject of MCMandateLedger: here *)
(* it only matters that the worker carries it from its answer to the books.*)
(***************************************************************************)
EXTENDS ExecutionWorker, TLC

CONSTANTS v1

MCTerms == {[cap |-> 4, approved |-> {v1}, receipt |-> TRUE]}

MCReports == {NoReport, 1}   \* less than claimed
MCNoReports == {NoReport}

\* Workers of a kind are interchangeable, and so are attempts.
WorkerSymmetry ==
    Permutations(ExecutionWorkers) \cup Permutations(ReconciliationWorkers)
      \cup Permutations(Attempts)
=============================================================================
