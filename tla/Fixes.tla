------------------------------- MODULE Fixes -------------------------------
(***************************************************************************)
(* Repairs (create_fix in service.py, create_fix_commits in fixer.py) of   *)
(* the reviewed pull requests of Webhooks.  A request reads the head of    *)
(* the pull request, then each file, by the branch's name and one after    *)
(* the other, verifies what it has repaired in an archive of the head it   *)
(* read, and publishes a commit on that head, a branch for it and a draft. *)
(* The author may push between any two of these.                           *)
(*                                                                         *)
(* What stands at a line is known by the push that put it there, and a     *)
(* line that a repair has edited by `Edited'.  The lines are those that    *)
(* carry code: of a Python file that is repaired by its syntax tree,       *)
(* comments and layout are lost.  A test command is configured.            *)
(***************************************************************************)
EXTENDS Webhooks

CONSTANTS
    Fixers,         \* requests to /v1/tasks/{id}/fix that may be under way together
    Findings,       \* sets of lines a report may name
    Branches,       \* codeevo/fix-pr-<number>-<second>
    NoBranch        \* no branch

ASSUME FixesAssumption == NoBranch \notin Branches /\ Findings \subseteq SUBSET Lines

VARIABLES
    fixer,          \* where each request stands and what it has read
    branches,       \* refs: from branch to commit
    drafts          \* draft pull requests, by branch

fixVars == <<fixer, branches, drafts>>
pullVars == <<intakeVars, faults, fixVars>>

Paths == {l[1] : l \in Lines}
Of(path) == {l \in Lines : l[1] = path}
Edited == 0
NoFiles == [l \in {} |-> Edited]
NoCommit == [parent |-> 0, files |-> NoFiles]
\* passed is history: what verification has seen, read by the properties only.
Resting == [pc |-> "idle", task |-> NoTask, sha |-> 0, branch |-> NoBranch, found |-> {}, todo |-> {}, files |-> NoFiles, passed |-> NoCommit]

PullInit ==
    /\ IntakeInit
    /\ fixer = [f \in Fixers |-> Resting]
    /\ branches = <<>> /\ drafts = {}

Standing(f, stage) == fixer[f].pc = stage
Move(f, next) == fixer' = [fixer EXCEPT ![f] = next]
github == <<branches, drafts>>

-----------------------------------------------------------------------------

\* create_fix, for a completed task; get_pull_request.  The branch is named
\* for the second.  The report has findings at some lines, numbered as they
\* were in the diff that was reviewed.
StartFix(f, t, branch, found) ==
    /\ Standing(f, "idle") /\ t \in reports
    /\ Move(f, [Resting EXCEPT !.pc = "read", !.task = t, !.sha = HeadVersion, !.branch = branch,
                                   !.found = found, !.todo = {l[1] : l \in found}])
    /\ UNCHANGED <<intakeVars, faults, github>>

\* Wrong: the file as it was reviewed.
ReadAsReviewed(f, line) == versions[tasks[fixer[f].task].diff][line]

\* get_file(source_repository, path, source_ref)
ReadNow(f, line) == versions[HeadVersion][line]

\* apply: what now stands at the number of a finding is edited if it looks like
\* what the rule repairs, and a file without an edit is left out of the plan.
ReadFile(f, path, edits) ==
    LET files == fixer[f].files
    IN /\ Standing(f, "read") /\ path \in fixer[f].todo /\ edits \subseteq fixer[f].found \cap Of(path)
       /\ Move(f, [fixer[f] EXCEPT
             !.todo = @ \ {path},
             !.files = IF edits = {} THEN files
                       ELSE [l \in DOMAIN files \cup Of(path) |->
                                IF l \in edits THEN Edited ELSE IF l \in Of(path) THEN ReadNow(f, l) ELSE files[l]]])
       /\ UNCHANGED <<intakeVars, faults, github>>

\* Wrong: the archive of the branch, not of the commit.
ArchivedByBranch(f) == HeadVersion

\* download_archive(source_repository, source_sha)
Archived(f) == fixer[f].sha

Commit(f) == [parent |-> fixer[f].sha, files |-> fixer[f].files]

\* An empty plan ends the request, and so does a repair that fails to compile or
\* a test that fails; nothing has been written yet.
Verify(f, good) ==
    /\ Standing(f, "read") /\ fixer[f].todo = {}
    /\ IF fixer[f].files # NoFiles /\ good
       THEN Move(f, [fixer[f] EXCEPT !.pc = "branch",
                        !.passed = [parent |-> Archived(f), files |-> fixer[f].files]])
       ELSE Move(f, Resting)
    /\ UNCHANGED <<intakeVars, faults, github>>

\* create_atomic_commit: a commit on source_sha, and a branch for it.  A name
\* that is taken is refused.
Publish(f) ==
    LET b == fixer[f].branch
    IN /\ Standing(f, "branch")
       /\ IF b \in DOMAIN branches THEN Move(f, Resting) /\ UNCHANGED branches
          ELSE /\ branches' = [c \in DOMAIN branches \cup {b} |-> IF c = b THEN [commit |-> Commit(f), passed |-> fixer[f].passed, found |-> fixer[f].found] ELSE branches[c]]
               /\ Move(f, [fixer[f] EXCEPT !.pc = "draft"])
       /\ UNCHANGED <<intakeVars, faults, drafts>>

\* create_draft_pull_request
Draft(f) ==
    /\ Standing(f, "draft")
    /\ drafts' = drafts \cup {fixer[f].branch}
    /\ Move(f, Resting)
    /\ UNCHANGED <<intakeVars, faults, branches>>

\* A call fails or the process dies.  A POST that was done but whose reply was
\* lost is sent again and refused, which fails too: Publish or Draft, and then
\* this.
Abort(f) ==
    /\ ~Standing(f, "idle") /\ Fault
    /\ Move(f, Resting)
    /\ UNCHANGED <<intakeVars, github>>

Fix ==
    \E f \in Fixers :
        \/ \E t \in reports, b \in Branches, found \in Findings : StartFix(f, t, b, found)
        \/ \E path \in Paths : \E edits \in SUBSET Of(path) : ReadFile(f, path, edits)
        \/ \E good \in BOOLEAN : Verify(f, good)
        \/ Publish(f) \/ Draft(f) \/ Abort(f)

PullNext ==
    \/ Intake /\ UNCHANGED fixVars
    \/ Fix

PullSpec == PullInit /\ [][PullNext]_pullVars

-----------------------------------------------------------------------------
(* Properties. *)

PullTypeOK ==
    /\ IntakeTypeOK
    /\ \A f \in Fixers : fixer[f].sha \in 0..HeadVersion /\ fixer[f].todo \subseteq Paths
    /\ drafts \subseteq DOMAIN branches /\ DOMAIN branches \subseteq Branches

\* The gate of a repair: a branch holds, on its parent, exactly the files that
\* passed verification on an archive of that parent, whatever was pushed in
\* between and whoever had the name of the branch before, in the same second.
FixVerified == \A b \in DOMAIN branches : branches[b].commit = branches[b].passed

\* A repair takes back nothing that the author has pushed, whenever it was pushed,
\* except at the very lines the report names: any other line of its files is no
\* older than in the commit it stands on.  (What stands at a reported number may
\* have been pushed after the review, and is edited all the same.)
NoPushReverted ==
    \A b \in DOMAIN branches :
        LET commit == branches[b].commit
        IN \A l \in DOMAIN commit.files :
              IF commit.files[l] = Edited THEN l \in branches[b].found
              ELSE commit.files[l] >= versions[commit.parent][l]

=============================================================================
