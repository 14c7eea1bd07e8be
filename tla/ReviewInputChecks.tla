------------------------- MODULE ReviewInputChecks -------------------------
(* What the operators of ReviewInput promise, over bounded inputs. *)
EXTENDS ReviewInput

LOCAL SeqsUpTo(set, n) == UNION {[1..k -> set] : k \in 0..n}

-----------------------------------------------------------------------------

DiffLine == [kind : {"file"}, at : {1}] \cup [kind : {"hunk"}, at : {3, 7}]
                \cup [kind : {"added", "plus", "removed", "context", "no newline"}, at : {0}]

\* The number of an added line, from the hunk it is in: the lines of the new
\* file between its header and it.
NewLine(lines, i) ==
    LET header == CHOOSE h \in 1..i : lines[h].kind = "hunk" /\ \A k \in h + 1..i : lines[k].kind # "hunk"
    IN lines[header].at + Cardinality({k \in header + 1..i - 1 : lines[k].kind \in {"added", "plus", "context"}})

InHunk(lines, i) ==
    \E h \in 1..i : lines[h].kind = "hunk" /\ \A k \in h..i : lines[k].kind # "file"

\* Every added line is found, with the number it has in the new file, except one
\* whose text starts with "++": that is counted only, or, if a blank follows, taken
\* for the head of a file, which ends the hunk.  Removed lines that start with two
\* dashes ("old" inside a hunk) are not among these inputs: the parser counts them
\* as lines of the new file.
LinesNumbered ==
    \A lines \in SeqsUpTo(DiffLine, 4) :
        LET added == SelectSeq([i \in DOMAIN lines |-> i],
                               LAMBDA i : lines[i].kind = "added" /\ InHunk(lines, i))
        IN [i \in DOMAIN ParseDiff(lines) |-> ParseDiff(lines)[i].line]
              = [i \in DOMAIN added |-> NewLine(lines, added[i])]

ASSUME LinesNumbered

-----------------------------------------------------------------------------

HunkLine == {l \in [bytes : {30, 100}, risky : BOOLEAN, added : BOOLEAN] : l.risky => l.added}

\* A compacted hunk keeps to its budget and to the order of its lines, and it
\* loses no risky line and no neighbour of one unless the budget is too small for
\* what was chosen, markers included.
HunkFits ==
    \A lines \in SeqsUpTo(HunkLine, 4), budget \in {127, 128, 160, 240} :
        LET compact == CompactHunk(lines, budget)
            chosen == WithOptional(lines, budget)
        IN /\ compact.used <= budget
           /\ compact.kept \subseteq DOMAIN lines
           /\ lines # <<>> /\ budget >= 128 /\ Cost(lines, chosen) + Marker * (Cardinality(chosen) - 1) <= budget
                 => \A i \in DOMAIN lines : i = 1 \/ (\E j \in DOMAIN lines : lines[j].risky /\ i - j \in -1..1)
                       => i \in compact.kept

ASSUME HunkFits

Hunk == [lines : {<<[bytes |-> b, risky |-> r, added |-> TRUE], [bytes |-> 300, risky |-> r, added |-> TRUE]>> :
                      b \in {90, 700, 2500}, r \in BOOLEAN},
         header : {40}, path : {1, 2}]

\* What build selects keeps to the share of the window that belongs to the diff,
\* or to 1024 bytes.  Only where no hunk fits with its header does it exceed them, by the
\* header and the characters that are longer than a byte.
DiffFits ==
    \A hunks \in SeqsUpTo(Hunk, 3), reserved \in {0, 128, 384}, width \in {1, 4} :
        LET built == BuildDiff(hunks, 512, reserved, width)
            budget == IF reserved > 256 THEN 1024 ELSE 4 * (512 - reserved)
        IN \/ built.bytes <= budget
           \/ /\ \A i \in DOMAIN hunks : hunks[i].header + hunks[i].lines[1].bytes > budget
              /\ built.hunks = 1 /\ built.bytes <= hunks[1].header + width * budget + 1

ASSUME DiffFits

-----------------------------------------------------------------------------

\* A step's context never exceeds the window; the assignment is always there;
\* and an observation is not dropped while an older one of its size is kept.
ContextFits ==
    \A records \in SeqsUpTo({20, 60, 130}, 4) \ {<<>>}, reserved \in {0, 32, 60}, clip \in 0..3 :
        LET runtime == Runtime(records, reserved, clip)
        IN /\ \A diff \in {0, 900, 1024, 2048, 2500} : Tokens(Compose(records, diff, 512, reserved, clip)) <= 512
           /\ runtime.kept[1]
           /\ \A i, j \in 2..Len(records) : i < j /\ records[i] <= records[j] /\ runtime.kept[j] => runtime.kept[i]

ASSUME ContextFits

\* A read shows existing lines only, 200 at most; a context shows its line if
\* the file has it.
ReadsBounded ==
    /\ \A from, to \in -1..5, length \in 0..4 :
          LET r == ReadRange(from, to, length)
          IN r.to - r.from < 200 /\ (r.from <= r.to => 1 <= r.from /\ r.to <= length)
    /\ \A line \in 1..5, radius \in -1..3, length \in 0..4 :
          LET r == ReadContext(line, radius, length)
          IN (r.from <= line /\ line <= r.to) <=> line <= length
    /\ ReadRange(1, 200, 300).to = 200 /\ ReadRange(1, 201, 300) = Refused

ASSUME ReadsBounded

=============================================================================
