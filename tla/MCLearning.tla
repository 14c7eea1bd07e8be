----------------------------- MODULE MCLearning -----------------------------
(* Learning with the constants of its runs. *)
EXTENDS Learning, TLC

CONSTANTS r1, r2

\* A confirmed miss and a false alarm of one rule, a miss that names it in lower
\* case, and one that names none.
MCRuleOf == [name \in {"R", "S", "r", ""} |->
                CASE name = "" -> NoRule [] name = "r" -> "R" [] OTHER -> name]
MCReports == {[kind |-> "missed_issue", rule |-> "R"], [kind |-> "false_positive", rule |-> "R"],
              [kind |-> "missed_issue", rule |-> "r"], [kind |-> "missed_issue", rule |-> ""]}
MCManual == [c \in Chains |-> IF c = "prompt" THEN {{"bad_fix"}} ELSE {{"S"}}]
MCRules == {"R", "S"}
\* Any lesson helps, so a larger content beats a smaller one.
MCScore == [S \in SUBSET Lessons |-> Cardinality(S)]
\* The requests differ in nothing but their names.
Alike == Permutations(Requests)

=============================================================================
