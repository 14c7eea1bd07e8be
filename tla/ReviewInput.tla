---------------------------- MODULE ReviewInput ----------------------------
(***************************************************************************)
(* What an agent is given: the diff parsed into added lines                *)
(* (diff_parser.py), the diff cut to its budget and the context of a step  *)
(* composed within the model's window (context_manager.py), and the ranges *)
(* of a repository file (workspace.py).  Pure operators; ReviewInputChecks *)
(* says what they promise.  Text is its length in bytes.                   *)
(***************************************************************************)
EXTENDS Integers, Sequences, FiniteSets, SequencesExt

LOCAL AtMost(a, b) == IF a <= b THEN a ELSE b
LOCAL AtLeast(a, b) == IF a >= b THEN a ELSE b
Total(sizes) == FoldLeft(+, 0, sizes)

-----------------------------------------------------------------------------
(* parse_unified_diff.  A line is [kind, at]: "file" is "+++ ", whether it   *)
(* heads a file or is an added line that starts with "++ "; "hunk" is "@@"   *)
(* whose new side starts at `at`; "old" is "--- ", whether it heads a file   *)
(* or is a removed line that starts with two dashes; "plus" is any other     *)
(* added line that starts with "++", which is counted and not recorded.      *)

NoPath == 0

ParseLine(state, line) ==
    CASE line.kind = "file" -> [state EXCEPT !.path = line.at, !.inHunk = FALSE]
      [] line.kind = "hunk" -> [state EXCEPT !.next = line.at, !.inHunk = TRUE]
      [] ~state.inHunk -> state
      [] line.kind = "added" ->
            [state EXCEPT !.added = Append(@, [path |-> state.path, line |-> state.next]), !.next = @ + 1]
      [] line.kind \in {"removed", "no newline"} -> state
      [] OTHER -> [state EXCEPT !.next = @ + 1]

ParseDiff(lines) ==
    FoldLeft(ParseLine, [path |-> NoPath, next |-> 0, inHunk |-> FALSE, added |-> <<>>], lines).added

-----------------------------------------------------------------------------
(* _compact_hunk.  A line of a hunk is [bytes, risky, added].               *)

Marker == 47

\* The first line, and risky lines with their neighbours.
Priority(lines) ==
    {1} \cup UNION {{AtLeast(1, i - 1), i, AtMost(Len(lines), i + 1)} :
                        i \in {j \in DOMAIN lines : lines[j].risky}}

Cost(lines, chosen) == FoldLeft(LAMBDA sum, i : sum + lines[i].bytes, 0, SetToSortSeq(chosen, <))

\* Added lines that are not risky, as long as they leave a margin.
WithOptional(lines, budget) ==
    LET optional == SetToSortSeq({i \in DOMAIN lines : lines[i].added /\ ~lines[i].risky}, <)
        limit == AtLeast(128, (budget * 85) \div 100)
        start == [chosen |-> Priority(lines), used |-> Cost(lines, Priority(lines)), open |-> TRUE]
        Take(s, i) ==
            IF s.open /\ s.used + lines[i].bytes <= limit
            THEN [s EXCEPT !.chosen = @ \cup {i}, !.used = @ + lines[i].bytes]
            ELSE [s EXCEPT !.open = FALSE]
    IN FoldLeft(Take, start, optional).chosen

\* The chosen lines in order, a marker where some are left out, until one does
\* not fit.
CompactHunk(lines, budget) ==
    LET empty == [kept |-> {}, used |-> 0, previous |-> -1, open |-> TRUE]
        Put(s, i) ==
            LET gap == i - s.previous > 1 /\ s.kept # {} /\ s.used + Marker <= budget
                used == s.used + (IF gap THEN Marker ELSE 0)
            IN IF ~s.open \/ used + lines[i].bytes > budget THEN [s EXCEPT !.open = FALSE, !.used = IF s.open THEN used ELSE @]
               ELSE [s EXCEPT !.kept = @ \cup {i}, !.used = used + lines[i].bytes, !.previous = i]
    IN IF budget < 128 \/ lines = <<>> THEN empty
       ELSE FoldLeft(Put, empty, SetToSortSeq(WithOptional(lines, budget), <))

-----------------------------------------------------------------------------
(* build.  Hunks are in the order of their score: [lines, header, path];    *)
(* the diff is the headers of its files and its hunks.  A hunk that is      *)
(* alone too large is cut by characters, of `width' bytes each, and its     *)
(* header is not counted.                                                   *)

Tokens(bytes) == AtLeast(1, (bytes + 3) \div 4)

HunkBytes(hunk) == Total([i \in DOMAIN hunk.lines |-> hunk.lines[i].bytes])

\* The first hunk of each file brings the header.
DiffBytes(hunks) ==
    LET heads == {i \in DOMAIN hunks : \A j \in 1..i - 1 : hunks[j].path # hunks[i].path}
    IN Total([i \in DOMAIN hunks |-> HunkBytes(hunks[i]) + IF i \in heads THEN hunks[i].header ELSE 0])

\* Nothing fits beside its header: the best hunk compacted to the whole budget, or
\* cut, and a newline where it is cut.
CutHunk(hunk, budget, width) ==
    LET compact == CompactHunk(hunk.lines, budget).used
    IN IF compact > 0 THEN compact
       ELSE IF HunkBytes(hunk) <= budget * width THEN HunkBytes(hunk) ELSE budget * width + 1

BuildDiff(hunks, maxTokens, reserved, width) ==
    LET original == DiffBytes(hunks)
        budget == AtLeast(1024, (maxTokens - reserved) * 4)
        start == [bytes |-> 0, paths |-> {}, hunks |-> 0, open |-> TRUE]
        Select(s, hunk) ==
            LET header == IF hunk.path \in s.paths THEN 0 ELSE hunk.header
                compact == CompactHunk(hunk.lines, budget - s.bytes - header).used
                With(bytes) == [s EXCEPT !.bytes = @ + header + bytes, !.paths = @ \cup {hunk.path}, !.hunks = @ + 1,
                                         !.open = s.bytes + header + bytes < budget]
            IN IF ~s.open THEN s
               ELSE IF s.bytes + header + HunkBytes(hunk) <= budget THEN [With(HunkBytes(hunk)) EXCEPT !.open = TRUE]
               ELSE IF compact > 0 THEN With(compact)
               ELSE [s EXCEPT !.open = s.bytes < budget]
        selected == FoldLeft(Select, start, hunks)
    IN IF Tokens(original) <= maxTokens - reserved
       THEN [start EXCEPT !.bytes = original, !.hunks = Len(hunks)]
       ELSE IF selected.hunks > 0 \/ hunks = <<>> THEN selected
       ELSE [start EXCEPT !.bytes = hunks[1].header + CutHunk(hunks[1], budget, width), !.paths = {hunks[1].path}, !.hunks = 1]

-----------------------------------------------------------------------------
(* compose.  The first record is the assignment, the only one that is       *)
(* clipped; clip is what the boundary of a character costs.                 *)

AppendRecord(s, record, budget, clip) ==
    LET remaining == budget - s.used
    IN IF record <= remaining THEN [s EXCEPT !.used = @ + record, !.kept = Append(@, TRUE)]
       ELSE IF s.kept # <<>> \/ remaining < 48 THEN [s EXCEPT !.kept = Append(@, FALSE)]
       ELSE [s EXCEPT !.used = @ + remaining - clip + 1, !.kept = Append(@, TRUE)]

Runtime(records, reserved, clip) ==
    FoldLeft(LAMBDA s, record : AppendRecord(s, record, AtLeast(128, reserved * 4), clip),
             [used |-> 0, kept |-> <<>>], records)

Label == 14

\* With the guard that cuts the text at the window.
Compose(records, diffBytes, maxTokens, reserved, clip) ==
    LET text == Runtime(records, reserved, clip).used + Label + diffBytes
    IN IF text > maxTokens * 4 THEN maxTokens * 4 - clip ELSE text

-----------------------------------------------------------------------------
(* read_file and read_context of a file of so many lines.                   *)

Refused == [from |-> 0, to |-> -1]

ReadRange(from, to, length) ==
    LET start == AtLeast(1, from)
        last == AtMost(to, length)
    IN IF to < start \/ to - start + 1 > 200 THEN Refused
       ELSE [from |-> start, to |-> IF last < start THEN start - 1 ELSE last]

ReadContext(line, radius, length) ==
    LET target == AtLeast(1, line)
    IN ReadRange(AtLeast(1, target - AtLeast(0, radius)), target + AtLeast(0, radius), length)

=============================================================================
