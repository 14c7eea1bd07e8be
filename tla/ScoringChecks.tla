--------------------------- MODULE ScoringChecks ---------------------------
(* What Scoring promises, over small inputs. *)
EXTENDS Scoring

Label(from, to, cwe, severity) ==
    [path |-> "f", start |-> from, end |-> to, cwe |-> cwe, severity |-> severity]
Found(line, cwe, severity) ==
    [path |-> "f", line |-> line, cwe |-> cwe, severity |-> severity, confidence |-> 1]
UpTo(S, n) == UNION {[1..k -> S] : k \in 0..n}

\* Reference: the most pairs no two of which share a label or a prediction.
OneToOne(pairs) == \A x, y \in pairs : x[1] = y[1] <=> x[2] = y[2]
MostPairs(expected, predicted) ==
    LET may == {x \in (DOMAIN expected) \X (DOMAIN predicted) :
                    Distance(expected[x[1]], predicted[x[2]].line) <= 1}
        sizes == {Cardinality(m) : m \in {q \in SUBSET may : OneToOne(q)}}
    IN CHOOSE n \in sizes : \A k \in sizes : k <= n

Spans == {Label(1, 1, "A", 2), Label(2, 4, "A", 2), Label(4, 5, "A", 2)}
Lines == {Found(line, "A", 2) : line \in {1, 3, 4, 6}}

\* one_to_one_match pairs as many labels with predictions as can be paired, each
\* once, though labels overlap and predictions are near several of them.
ASSUME MatchingIsMaximum ==
    \A expected \in UpTo(Spans, 3), predicted \in UpTo(Lines, 3) :
        LET m == Matches(expected, predicted, 1, "finding")
        IN OneToOne(m) /\ Cardinality(m) = MostPairs(expected, predicted)

Mixed == {Label(1, 2, "A", 3), Label(2, 2, "B", 1)}
Guesses == {Found(line, cwe, severity) : line \in {1, 5}, cwe \in {"A", "B"}, severity \in {1, 3}}

\* The tables by CWE add up to the score of the case, whatever was found, and no
\* severity is right more often than it is there or was guessed.
ASSUME TablesAddUp ==
    \A expected \in UpTo(Mixed, 2), findings \in UpTo(Guesses, 2), scope \in {"finding", "target-cwe"} :
        LET r == CaseScore([split |-> "validation", expected |-> expected, scope |-> scope,
                            targets |-> {"A", "B"}], findings, 2, NoRepairer)
            a == OfCwe(r, "A")
            b == OfCwe(r, "B")
        IN /\ a.tp + b.tp = r.tp /\ a.fp + b.fp = r.fp /\ a.fn + b.fn = r.fn
           /\ a.high_total + b.high_total = r.high_total /\ a.high_hits + b.high_hits = r.high_hits
           /\ \A s \in 0..3 : LET v == OfSeverity(r, s)
                              IN v.correct <= v.predicted /\ v.correct <= v.detected /\ v.detected <= v.expected

\* What CweDeduplicatingReviewer leaves has every place and CWE once, and no
\* more false alarms than before.
ASSUME DeduplicationIsSafe ==
    \A expected \in UpTo(Spans, 2), findings \in UpTo({Found(line, "A", s) : line \in {1, 3}, s \in {1, 2}}, 3) :
        LET kept == SetToSeq(Deduplicated(findings))
        IN /\ \A i, j \in DOMAIN kept : i # j => kept[i].line # kept[j].line
           /\ {kept[i].line : i \in DOMAIN kept} = {findings[i].line : i \in DOMAIN findings}
           /\ Len(kept) - Cardinality(Matches(expected, kept, 1, "finding"))
                <= Len(findings) - Cardinality(Matches(expected, findings, 1, "finding"))

-----------------------------------------------------------------------------

Case(split, expected) == [split |-> split, expected |-> expected, scope |-> "finding", targets |-> {}]
Risk == <<Label(1, 1, "A", 3)>>
Outcomes(case) ==
    {CaseFailed(case)} \cup {CaseScore(case, findings, 1, {1}) :
                               findings \in {<<>>, <<Found(1, "A", 3)>>, <<Found(9, "B", 1)>>}}
ResultSets ==
    Outcomes(Case("validation", Risk)) \X Outcomes(Case("validation", <<>>)) \X Outcomes(Case("holdout", Risk))
Hits(results) == {i \in DOMAIN results : results[i].high_hits = 1}

\* A candidate that passes the release gate reviewed every case (of fewer than 50:
\* 98 of 100 are enough), lost no high risk and no clean case that the baseline
\* had right, and did better on the validation cases; and some candidate passes.
ASSUME GateProtects ==
    LET passing == {x \in ResultSets \X ResultSets : ReleaseGate(x[1], x[2], <<0, 0>>)}
    IN /\ passing # {}
       /\ \A x \in passing :
             /\ \A i \in DOMAIN x[2] : x[2][i].success
             /\ Cardinality(Hits(x[1])) <= Cardinality(Hits(x[2]))
             /\ x[1][2].clean_hit => x[2][2].clean_hit
             /\ x[1][3].tp <= x[2][3].tp
             /\ x[1][1] # x[2][1] \/ x[1][2] # x[2][2]

\* The growth of a resource is bounded by the gate wherever both sides were
\* measured, and what is used for nothing may not grow at all.
ASSUME GrowthBounded ==
    \A b, c \in 0..12 :
        GrowthAllowed(b, c, 20, 0) => 5 * c <= 6 * b

\* The ranking of routes is a strict order of their metrics.
ASSUME RankingIsOrder ==
    LET all == {Metrics(x) : x \in ResultSets}
    IN \A a, b, c \in all :
          /\ ~RanksBefore(a, a)
          /\ RanksBefore(a, b) /\ RanksBefore(b, c) => RanksBefore(a, c)

=============================================================================
