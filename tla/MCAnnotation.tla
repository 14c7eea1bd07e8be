---------------------------- MODULE MCAnnotation ----------------------------
(* Annotation with the constants of its runs. *)
EXTENDS Annotation, TLC

CONSTANTS r1, r2, ann, bob, mgr, risk, clean, old, new

\* A case and its twin under another spelling of the repository, and a case of
\* the holdout split.
MCPull == [c \in Cases |-> IF c = "holdout#1" THEN "holdout" ELSE "train"]
\* The twins' pull request may be pushed to between their imports.
MCDiffs == [c \in Cases |-> IF MCPull[c] = "holdout" THEN {"other"} ELSE {old, new}]
\* A database without cases, or with twins that two overlapping imports left,
\* one of them approved and the other with its first answer.
MCEarlier == {<<>>} \cup
    {[c \in {"o/n#1", "O/N#1"} |->
         IF c = "o/n#1" THEN <<[by |-> both[1], label |-> l], [by |-> both[2], label |-> l]>>
         ELSE <<[by |-> both[1], label |-> m]>>]
      : both \in {<<ann, bob>>, <<bob, ann>>}, l \in Labels, m \in Labels}
Alike == Permutations(Requests) \cup Permutations({ann, bob}) \cup Permutations(Labels)
             \cup Permutations({old, new})

=============================================================================
