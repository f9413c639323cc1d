----------------------------- MODULE MCViewChange -----------------------------
(* A hash for the runs of ViewChange *)
EXTENDS ViewChange

\* Depends on the block, the counter and the attempt; for the first view change
\* it hits the present leader at first.
MCHash(block, k, i) ==
    (IF block.kind = "vc" THEN block.leader ELSE 1) + (k - 2) + 2 * i
==============================================================================
