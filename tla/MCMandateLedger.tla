-------------------------- MODULE MCMandateLedger --------------------------
(***************************************************************************)
(* A small store for TLC: every transaction in every order.                *)
(***************************************************************************)
EXTENDS MandateLedger, TLC

CONSTANTS v1, v2

\* Two caps: one that two payments of 2 overrun, and one that is too small.
MCTerms ==
    {[cap |-> 3, approved |-> {v1}, receipt |-> FALSE],
     [cap |-> 1, approved |-> {v1, v2}, receipt |-> TRUE]}

\* No report, less than claimed, more than claimed.
MCReports == {NoReport, 1, 5}

LedgerSymmetry == Permutations(Attempts) \cup Permutations(Mandates)
=============================================================================
