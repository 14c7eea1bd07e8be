------------------------------- MODULE MCRollout -------------------------------
EXTENDS Rollout

CONSTANTS r1, r2, v1, v2, v3

TwoReviews  == {r1, r2}
Recorded    == {v1, v2}
Numbers     == {v1, v2, v3}

Request(v, percent) ==
    [version |-> v, status |-> "running", canary |-> percent, shadow |-> percent, auto |-> TRUE]

\* A candidate for half of the reviews, one in their shadow, one that is only
\* named and has no skill version.
Canary == Request(v1, 50)
Shadow == [Request(v2, 50) EXCEPT !.canary = 0]
Absent == Request(v3, 0)

CanaryOrShadow == {Canary, Shadow, Absent}

\* Two states differ only if a step or a property can tell them apart: what a
\* finished review was, and a local variable that is not read any more, cannot.
Over(r) == pc[r] \in {"done", "dead"}
Relevant ==
    <<rowVars, configs, mishaps, promoted, raised, agreements, mute, missed,
      [r \in Reviews |->
         IF Over(r) THEN <<>>
         ELSE <<pc[r], lane[r], shadowed[r], attempts[r], report[r], r \in torn,
                IF pc[r] \in Working THEN using[r] ELSE NoReviewer,
                IF pc[r] \in {"shadowRecord", "promotionAlert", "shadowAudit"} THEN outcome[r] ELSE "none">>],
      TypeOK>>
=============================================================================
