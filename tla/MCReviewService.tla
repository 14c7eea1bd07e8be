--------------------------- MODULE MCReviewService ---------------------------
(* ReviewService with the constants of its runs. *)
EXTENDS ReviewService

CONSTANTS t1, w1, w2

\* Without the step numbers of the trace and the queue's counters of failures,
\* on which nothing but other such numbers depends; they count as far as TypeOK
\* tells them apart.
Unnumbered ==
    <<TypeOK, entries, read, pel, stale, dlq, wpc, hand, rest, src, owed, completed, submits, mishaps,
      state, report, cancelled, ckpt, cases, [w \in Workers |-> [run[w] EXCEPT !.step = 0]],
      stage, payload, svc, comments, page, unseen, alerts>>

=============================================================================
