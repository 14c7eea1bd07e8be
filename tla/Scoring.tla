------------------------------ MODULE Scoring ------------------------------
(***************************************************************************)
(* How a reviewer's findings are scored against the labelled ones, and     *)
(* when a candidate may replace a baseline (evaluation_harness.py,         *)
(* evaluation_policy.py, the tables of benchmark_runner.py).               *)
(*                                                                         *)
(* A labelled finding is [path, start, end, cwe, severity], a predicted    *)
(* one [path, line, cwe, severity, confidence]: its rule stands for the    *)
(* CWE it is mapped to.  Severities are 0 to 3.  A ratio is a pair         *)
(* <<n, d>> and is not rounded; latencies are left out.                    *)
(***************************************************************************)
EXTENDS Integers, SequencesExt

High(x) == x.severity >= 2

-----------------------------------------------------------------------------
(* Which prediction counts as which label. *)

Distance(truth, line) ==
    IF line < truth.start THEN truth.start - line ELSE IF line > truth.end THEN line - truth.end ELSE 0

\* _candidate_edges: the predictions that may stand for a label, nearest first.
\* Only the CWE counts where a case is scored on its target CWEs.
Candidates(truth, predicted, tolerance, scope) ==
    LET far(j) == IF scope = "target-cwe" THEN 0 ELSE Distance(truth, predicted[j].line)
        may == {j \in DOMAIN predicted :
                    /\ predicted[j].cwe = truth.cwe
                    /\ scope # "target-cwe" => predicted[j].path = truth.path /\ far(j) <= tolerance}
    IN SetToSortSeq(may, LAMBDA i, j : far(i) < far(j) \/ (far(i) = far(j) /\ i < j))

Unowned == 0

\* assign: label t takes the first prediction from its k-th on that is free or
\* whose owner finds another one; s says who owns what and what was visited.
RECURSIVE Assign(_, _, _, _)
Assign(edges, t, k, s) ==
    IF k > Len(edges[t]) THEN [s EXCEPT !.found = FALSE]
    ELSE LET p == edges[t][k]
             visited == [s EXCEPT !.visited = @ \cup {p}]
             r == IF s.owner[p] = Unowned THEN [visited EXCEPT !.found = TRUE]
                  ELSE Assign(edges, s.owner[p], 1, visited)
         IN IF p \notin s.visited /\ r.found THEN [r EXCEPT !.owner[p] = t]
            ELSE Assign(edges, t, k + 1, IF p \in s.visited THEN s ELSE r)

\* one_to_one_match: labels with few candidates go first; the pairs
\* <<label, prediction>> at the end.
Matches(expected, predicted, tolerance, scope) ==
    LET edges == [t \in DOMAIN expected |-> Candidates(expected[t], predicted, tolerance, scope)]
        order == SetToSortSeq(DOMAIN expected, LAMBDA t, u :
                     Len(edges[t]) < Len(edges[u]) \/ (Len(edges[t]) = Len(edges[u]) /\ t < u))
        owner == FoldLeft(LAMBDA o, t : Assign(edges, t, 1, [owner |-> o, visited |-> {}, found |-> FALSE]).owner,
                          [p \in DOMAIN predicted |-> Unowned], order)
    IN {<<owner[p], p>> : p \in {q \in DOMAIN predicted : owner[q] # Unowned}}

\* CweDeduplicatingReviewer: of the findings of one place and CWE the most
\* confident, then the most severe, then the first.
Deduplicated(findings) ==
    LET identity(f) == <<f.path, f.line, f.cwe>>
        beats(i, j) == LET f == findings[i] g == findings[j]
                       IN \/ f.confidence > g.confidence
                          \/ f.confidence = g.confidence /\ f.severity > g.severity
                          \/ f.confidence = g.confidence /\ f.severity = g.severity /\ i < j
    IN {findings[i] : i \in {k \in DOMAIN findings : \A j \in (DOMAIN findings) \ {k} :
            identity(findings[j]) = identity(findings[k]) => beats(k, j)}}

-----------------------------------------------------------------------------
(* Scores. *)

Count(S) == Cardinality(S)

NoRepairer == {0}

\* run_case.  Findings outside the target CWEs of a case are ignored; fixable
\* are the labels whose repair passes all checks, or there is no repairer.
CaseScore(case, findings, tolerance, fixable) ==
    LET predicted == IF case.scope = "finding" THEN findings
                     ELSE SelectSeq(findings, LAMBDA f : f.cwe \in case.targets)
        m == Matches(case.expected, predicted, tolerance, case.scope)
    IN [split |-> case.split, expected |-> case.expected, predicted |-> predicted, matches |-> m,
        targets |-> case.targets,
        tp |-> Count(m), fp |-> Len(predicted) - Count(m), fn |-> Len(case.expected) - Count(m),
        high_total |-> Count({t \in DOMAIN case.expected : High(case.expected[t])}),
        high_hits |-> Count({x \in m : High(case.expected[x[1]])}),
        clean |-> case.expected = <<>>, clean_hit |-> case.expected = <<>> /\ predicted = <<>>,
        success |-> TRUE,
        attempted |-> IF fixable = NoRepairer THEN 0 ELSE Count(m),
        repaired |-> Count({x \in m : x[1] \in fixable}),
        e2e |-> /\ case.expected # <<>>
                /\ \A t \in DOMAIN case.expected : t \in fixable /\ \E x \in m : x[1] = t]

\* run_case when the review raises: everything is missed.
CaseFailed(case) ==
    [CaseScore(case, <<>>, 0, NoRepairer) EXCEPT !.clean_hit = FALSE, !.success = FALSE]

Added(f(_), results) == FoldLeft(LAMBDA n, r : n + f(r), 0, results)
Tally(P(_), results) == Len(SelectSeq(results, P))
Ratio(n, d, empty) == IF d = 0 THEN <<empty, 1>> ELSE <<n, d>>

\* metrics_for.  f1 is 0 where nothing is found, also where nothing is there.
Metrics(results) ==
    LET tp == Added(LAMBDA r : r.tp, results)
        fp == Added(LAMBDA r : r.fp, results)
        fn == Added(LAMBDA r : r.fn, results)
    IN [precision |-> Ratio(tp, tp + fp, 0), recall |-> Ratio(tp, tp + fn, 1),
        f1 |-> Ratio(2 * tp, 2 * tp + fp + fn, 0),
        high_risk_recall |-> Ratio(Added(LAMBDA r : r.high_hits, results), Added(LAMBDA r : r.high_total, results), 1),
        clean_accuracy |-> Ratio(Tally(LAMBDA r : r.clean_hit, results), Tally(LAMBDA r : r.clean, results), 1),
        success |-> Ratio(Tally(LAMBDA r : r.success, results), Len(results), 0),
        safe_fix |-> Ratio(Added(LAMBDA r : r.repaired, results), Added(LAMBDA r : r.attempted, results), 0),
        e2e_fix |-> Ratio(Tally(LAMBDA r : r.e2e, results), Tally(LAMBDA r : ~r.clean, results), 0)]

\* _cwe_dimensions: the part of a result that concerns one CWE.
OfCwe(r, cwe) ==
    LET m == {x \in r.matches : r.predicted[x[2]].cwe = cwe}
        e == {t \in DOMAIN r.expected : r.expected[t].cwe = cwe}
        p == {q \in DOMAIN r.predicted : r.predicted[q].cwe = cwe}
    IN [relevant |-> e # {} \/ p # {} \/ cwe \in r.targets, tp |-> Count(m),
        fp |-> IF Count(p) > Count(m) THEN Count(p) - Count(m) ELSE 0,
        fn |-> IF Count(e) > Count(m) THEN Count(e) - Count(m) ELSE 0,
        high_total |-> Count({t \in e : High(r.expected[t])}),
        high_hits |-> Count({x \in m : High(r.expected[x[1]])})]

\* _severity_dimensions
OfSeverity(r, severity) ==
    LET found == {x \in r.matches : r.expected[x[1]].severity = severity}
    IN [expected |-> Count({t \in DOMAIN r.expected : r.expected[t].severity = severity}),
        predicted |-> Count({q \in DOMAIN r.predicted : r.predicted[q].severity = severity}),
        detected |-> Count(found),
        correct |-> Count({x \in found : r.predicted[x[2]].severity = severity})]

-----------------------------------------------------------------------------
(* Gates. *)

AtLeast(x, y) == x[1] * y[2] >= y[1] * x[2]

\* x is at least y and percent hundredths more.
AtLeastBy(x, y, percent) == 100 * x[1] * y[2] >= (100 * y[1] + percent * y[2]) * x[2]

Unavailable == -1

\* _growth_gate: what nobody measured does not stop a candidate.
GrowthAllowed(baseline, candidate, percent, minimum) ==
    LET from == IF baseline <= minimum THEN minimum ELSE baseline
    IN \/ Unavailable \in {baseline, candidate}
       \/ 100 * candidate <= (100 + percent) * from

InSplit(results, split) == SelectSeq(results, LAMBDA r : r.split = split)

\* comparison_summary, on results of the same cases.  tokens are those of the
\* baseline and of the candidate; costs have the same gate.
ReleaseGate(baseline, candidate, tokens) ==
    LET b == Metrics(baseline)
        c == Metrics(candidate)
        f1(results, split) == Metrics(InSplit(results, split)).f1
    IN /\ AtLeastBy(f1(candidate, "validation"), f1(baseline, "validation"), 2)
       /\ AtLeast(c.high_risk_recall, b.high_risk_recall)
       /\ AtLeast(c.clean_accuracy, b.clean_accuracy)
       /\ AtLeast(f1(candidate, "holdout"), f1(baseline, "holdout"))
       /\ AtLeastBy(c.success, <<0, 1>>, 98)
       /\ AtLeastBy(c.safe_fix, <<0, 1>>, 75)
       /\ AtLeastBy(c.e2e_fix, <<0, 1>>, 60)
       /\ GrowthAllowed(tokens[1], tokens[2], 20, 0)

\* comparison_summary of the benchmark: a ranks before b.
RanksBefore(a, b) ==
    \/ ~AtLeast(b.f1, a.f1)
    \/ AtLeast(a.f1, b.f1) /\ ~AtLeast(b.high_risk_recall, a.high_risk_recall)

=============================================================================
