------------------------------ MODULE MCFixes ------------------------------
(* Fixes with the constants of its run. *)
EXTENDS Fixes, TLC

CONSTANTS p1, p2

\* A file of two lines, and one of one.
MCLines == {<<p1, 1>>, <<p1, 2>>, <<p2, 1>>}

\* An insertion at the top of the first file, and a change of both files.
MCChanges == {{<<p1, 1>>, <<p1, 2>>}, {<<p1, 2>>, <<p2, 1>>}}

\* A finding in each file; what stands there may not be eligible by then.
MCFindings == {{<<p1, 1>>, <<p2, 1>>}}

Symmetric == Permutations(Handlers) \cup Permutations(Fixers) \cup Permutations(Branches)
=============================================================================
