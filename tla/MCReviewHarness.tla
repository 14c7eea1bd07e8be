--------------------------- MODULE MCReviewHarness ---------------------------
(* ReviewHarness with the constants of its runs. *)
EXTENDS ReviewHarness, TLC

CONSTANTS t1, t2, r1, r2

RunnerSymmetry == Permutations({r1, r2})

=============================================================================
