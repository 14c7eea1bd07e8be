---------------------------- MODULE MCBenchmark ----------------------------
(* Benchmark with the constants of its runs. *)
EXTENDS Benchmark, ScoringChecks

CONSTANTS p1, p2

\* One route after the other on one case or both, and the team on one case.
OneByOne == <<"local-rules", "single-deepseek">>
MCInvocations == {<<<<"a">>, OneByOne>>, <<<<"a", "b">>, OneByOne>>, <<<<"a">>, <<"multi-agent">>>>}

Alike == Permutations(Runners)

=============================================================================
