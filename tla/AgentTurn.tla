----------------------------- MODULE AgentTurn -----------------------------
(***************************************************************************)
(* One agent's work on a task: the bounded loop of model and tools         *)
(* (AgentLoop in runtime.py, _run_agent_loop in agents.py), the ledger of  *)
(* what it read in the repository (workspace.py), the evidence gate that   *)
(* its finding must pass, and the memories it leaves (memory.py).  Several *)
(* tasks of one repository run at the same time, and the checkout they     *)
(* read may be updated under them.                                         *)
(*                                                                         *)
(* A file is its lines; the text of a line is a number.  An agent reports  *)
(* at most one finding, of high severity.  The substitute, the critique    *)
(* and the revision are those of Collaboration; here the other reasons to  *)
(* refuse a finding are a choice.  What a working memory says is one of    *)
(* Sayings: two tasks may or may not say the same.                         *)
(***************************************************************************)
EXTENDS Naturals, Sequences, FiniteSets

CONSTANTS
    Tasks,          \* reviews of one repository, each by one agent
    Length,         \* number of lines of the file
    Checkout,       \* the file at first, which need not be the one of the diff
    AddedLines,     \* the lines the diff adds
    Radius,         \* repository_context_lines
    Quotes,         \* what a finding may quote as evidence
    MaxSteps,       \* agent_loop_max_steps
    TurnRetries,    \* agent_retries
    NoFinding,      \* no finding
    Sayings,        \* what the working memory of any task may say
    MaxUpdates,     \* bound: updates of the checkout
    MaxMishaps      \* bound: deaths and failed writes

ASSUME AgentTurnAssumption ==
    /\ Length \in Nat \ {0} /\ Checkout \in [1..Length -> Quotes] /\ AddedLines \subseteq 1..Length
    /\ MaxSteps \in Nat \ {0} /\ TurnRetries \in Nat /\ Radius \in Nat
    /\ NoFinding \notin [line : 1..Length, quote : Quotes]

Lines == 1..Length
Findings == [line : Lines, quote : Quotes]

VARIABLES
    file,           \* the repository file: the text of each line
    turn,           \* where each task stands and what its agent has
    report,         \* the finding each task published, with its references
    memories,       \* agent_memories: from what it says to whose it is
    updates, mishaps

turnVars == <<file, turn, report, memories, updates, mishaps>>

Fresh == [pc |-> "idle", attempt |-> 1, step |-> 1, reads |-> {}, finding |-> NoFinding,
          refs |-> {}, approved |-> FALSE]
Unpublished == [finding |-> NoFinding, refs |-> {}]

TurnInit ==
    /\ file = Checkout
    /\ turn = [t \in Tasks |-> Fresh]
    /\ report = [t \in Tasks |-> Unpublished]
    /\ memories = <<>>
    /\ updates = 0 /\ mishaps = 0

TurnAt(t, stage) == turn[t].pc = stage
Becomes(t, next) == turn' = [turn EXCEPT ![t] = next]
Mishap == mishaps < MaxMishaps /\ mishaps' = mishaps + 1
world == <<file, updates>>

-----------------------------------------------------------------------------
(* Memories. *)

Working == "working"
Episodic == "episodic"

\* remember: the identity is the content, whichever task says it; a row that is
\* there keeps its task.
With(rows, t, scope, contents) ==
    [m \in DOMAIN rows \cup ({scope} \X contents) |-> IF m \in DOMAIN rows THEN rows[m] ELSE t]

AddMemories(t, scope, contents) == memories' = With(memories, t, scope, contents)

Without(ids) == [m \in DOMAIN memories \ ids |-> memories[m]]

WorkingRows == {m \in DOMAIN memories : m[1] = Working}

\* purge_expired_agent_memories: any working memory may be past its time.
Purge == \E expired \in SUBSET WorkingRows : memories' = Without(expired)

\* Wrong: the rows are left to expire.
ForgetLater(t) == memories' = memories

\* delete_agent_memories(task_id, "working")
Forget(t) == memories' = Without({m \in WorkingRows : memories[m] = t})

-----------------------------------------------------------------------------
(* The loop. *)

\* _run_agent_loop: recall purges, the context is built, the ledger is empty.
Begin(t) ==
    /\ TurnAt(t, "idle")
    /\ Purge
    /\ Becomes(t, [turn[t] EXCEPT !.pc = "step", !.step = 1, !.reads = {}, !.finding = NoFinding, !.refs = {}])
    /\ UNCHANGED <<world, report, mishaps>>

\* The action is remembered before it is looked at.
Act(t, kind) ==
    /\ TurnAt(t, "step")
    /\ \E said \in Sayings : AddMemories(t, Working, {said})
    /\ Becomes(t, [turn[t] EXCEPT !.pc = kind])
    /\ UNCHANGED <<world, report, mishaps>>

\* The attempt is over: what it read goes with it.
Failed(t) == [turn[t] EXCEPT !.pc = "failed", !.step = 1, !.reads = {}, !.finding = NoFinding]

\* Wrong: the step does not count.
NextStepUncounted(t) == [turn[t] EXCEPT !.pc = "step"]

\* After an observation: the next step, if the budget has one.
NextStep(t) ==
    IF turn[t].step = MaxSteps THEN Failed(t)
    ELSE [turn[t] EXCEPT !.pc = "step", !.step = @ + 1]

\* An observation is remembered, after the last step that the budget is spent too.
Observe(t, rows) ==
    \E said, spent \in Sayings :
        memories' = With(rows, t, Working, IF turn[t].step = MaxSteps THEN {said, spent} ELSE {said})

\* read_repository_file of a range.  The hash stands for the whole content.
ReadTool(t, from, to) ==
    LET read == [from |-> from, to |-> to, sha256 |-> file]
    IN /\ TurnAt(t, "tool")
       /\ Observe(t, memories)
       /\ Becomes(t, IF NextStep(t).pc = "failed" THEN NextStep(t) ELSE [NextStep(t) EXCEPT !.reads = @ \cup {read}])
       /\ UNCHANGED <<world, report, mishaps>>

\* Any other tool (recall_memory purges), one that does not exist, arguments that
\* are not valid, a tool that raises: an observation all the same.
OtherTool(t) ==
    /\ TurnAt(t, "tool")
    /\ \E expired \in SUBSET WorkingRows : Observe(t, Without(expired))
    /\ Becomes(t, NextStep(t))
    /\ UNCHANGED <<world, report, mishaps>>

Covers(r, line) == r.from <= line /\ line <= r.to

\* evidence_for
EvidenceFor(t, line) == {r \in turn[t].reads : Covers(r, line)}

\* The final action; findings that are not on added lines are dropped.
Finish(t, finding) ==
    /\ TurnAt(t, "final")
    /\ finding # NoFinding => finding.line \in AddedLines
    /\ Becomes(t, [turn[t] EXCEPT !.pc = "evidence", !.attempt = 1, !.step = 1, !.reads = {}, !.finding = finding,
                     !.refs = IF finding = NoFinding THEN {} ELSE EvidenceFor(t, finding.line)])
    /\ UNCHANGED <<world, report, memories, mishaps>>

\* The model raises or answers what is no object; or its time is up, which is
\* remembered.
ModelRaises(t) ==
    /\ TurnAt(t, "step")
    /\ \E said \in SUBSET Sayings : Cardinality(said) <= 1 /\ AddMemories(t, Working, said)
    /\ Becomes(t, Failed(t))
    /\ UNCHANGED <<world, report, mishaps>>

\* _invoke_agent: an attempt more, or none of its findings.
RetryTurn(t) ==
    /\ TurnAt(t, "failed")
    /\ Becomes(t, IF turn[t].attempt <= TurnRetries THEN [turn[t] EXCEPT !.pc = "idle", !.attempt = @ + 1]
                  ELSE [turn[t] EXCEPT !.pc = "evidence", !.attempt = 1, !.finding = NoFinding, !.refs = {}])
    /\ UNCHANGED <<world, report, memories, mishaps>>

-----------------------------------------------------------------------------
(* The gate, and what is left behind. *)

\* read_context
Context(line) ==
    [from |-> IF line > Radius THEN line - Radius ELSE 1,
     to |-> IF line + Radius < Length THEN line + Radius ELSE Length, sha256 |-> file]

\* EvidenceAgent.reproduce: the file has the quote when the verifier reads it.
Verified(f) == Context(f.line).sha256[f.line] = f.quote

\* Wrong: nothing but the diff and the critique is asked.
ApprovesOnDiff(f, others) == others

\* VerifierAgent.verify, of a high severity: others are the critique, what the
\* diff shows, the remediation and the confidence.
PassesGate(f, others) == others /\ Verified(f)

\* _evidence_node and _verify_node.
VerifyTurn(t, others) ==
    LET f == turn[t].finding
    IN /\ TurnAt(t, "evidence")
       /\ Becomes(t, IF f = NoFinding THEN [turn[t] EXCEPT !.pc = "arbitrate"]
                     ELSE [turn[t] EXCEPT !.pc = "arbitrate", !.approved = PassesGate(f, others),
                              !.refs = IF Verified(f) THEN @ \cup {Context(f.line)} ELSE @])
       /\ UNCHANGED <<world, report, memories, mishaps>>

\* _arbitrate_node: the findings' memories (left out here) and the task's summary
\* are archived ...
Archive(t) ==
    /\ TurnAt(t, "arbitrate")
    /\ AddMemories(t, Episodic, {<<"summary", t>>})
    /\ Becomes(t, [turn[t] EXCEPT !.pc = "forget"])
    /\ UNCHANGED <<world, report, mishaps>>

\* ... then the working memory is released, and the decision is out.
Release(t) ==
    /\ TurnAt(t, "forget")
    /\ Forget(t)
    /\ report' = [report EXCEPT ![t] = IF turn[t].approved THEN [finding |-> turn[t].finding, refs |-> turn[t].refs]
                                       ELSE Unpublished]
    /\ Becomes(t, [Fresh EXCEPT !.pc = "completed"])
    /\ UNCHANGED <<world, mishaps>>

-----------------------------------------------------------------------------
(* What may happen. *)

\* A write fails: in the loop the attempt, after it the node, which the harness
\* runs again.
WriteFails(t) ==
    /\ turn[t].pc \in {"step", "tool", "arbitrate", "forget"} /\ Mishap
    /\ Becomes(t, IF turn[t].pc \in {"step", "tool"} THEN Failed(t) ELSE Fresh)
    /\ UNCHANGED <<world, report, memories>>

\* The process dies; the queue delivers the task again.
TurnDies(t) ==
    /\ turn[t].pc \notin {"idle", "completed"} /\ Mishap
    /\ Becomes(t, Fresh)
    /\ UNCHANGED <<world, report, memories>>

\* Somebody updates the checkout.
Update ==
    /\ updates < MaxUpdates /\ updates' = updates + 1
    /\ \E line \in Lines, text \in Quotes : text # file[line] /\ file' = [file EXCEPT ![line] = text]
    /\ UNCHANGED <<turn, report, memories, mishaps>>

TurnStep(t) ==
    \/ Begin(t)
    \/ \E kind \in {"tool", "final", "failed"} : Act(t, kind)
    \/ \E from \in Lines : \E to \in from..Length : ReadTool(t, from, to)
    \/ OtherTool(t)
    \/ \E finding \in Findings \cup {NoFinding} : Finish(t, finding)
    \/ \E others \in BOOLEAN : VerifyTurn(t, others)
    \/ ModelRaises(t) \/ RetryTurn(t) \/ Archive(t) \/ Release(t)

TurnNext ==
    \/ \E t \in Tasks : TurnStep(t) \/ WriteFails(t) \/ TurnDies(t)
    \/ Update

TurnSpec == TurnInit /\ [][TurnNext]_turnVars

\* A model's answer, a tool and a write come back: all have time limits.
FairTurnSpec == TurnSpec /\ \A t \in Tasks : WF_turnVars(TurnStep(t))

-----------------------------------------------------------------------------
(* Properties. *)

TurnTypeOK ==
    /\ file \in [Lines -> Quotes]
    /\ \A t \in Tasks :
          /\ turn[t].attempt \in 1..(TurnRetries + 1) /\ turn[t].step \in 1..MaxSteps
          /\ turn[t].finding \in Findings \cup {NoFinding}
          /\ report[t].finding \in Findings \cup {NoFinding}
    /\ updates \in 0..MaxUpdates /\ mishaps \in 0..MaxMishaps

\* The evidence gate: a published finding of high severity quotes the line of the
\* file under the hash of one of its references, and no reference is of another
\* part of the file, however the file changed since the diff was made, under the
\* agent or before the verifier.
EvidenceReal ==
    \A t \in Tasks : report[t].finding # NoFinding =>
        LET f == report[t].finding
        IN /\ \E r \in report[t].refs : r.sha256[f.line] = f.quote
           /\ \A r \in report[t].refs : r.from <= f.line /\ f.line <= r.to

\* A task that completes leaves its summary and no working memory of its own,
\* though attempts fail half-way and dead runs left rows behind.  (Tasks that say
\* the same share a row, which is the task's that wrote it first: it goes with
\* that task, whoever still uses it.)
MemoryReleased ==
    \A t \in Tasks : TurnAt(t, "completed") =>
        /\ <<Episodic, <<"summary", t>>>> \in DOMAIN memories
        /\ \A m \in WorkingRows : memories[m] # t

\* However the model behaves, the agent's work on a task ends.
TurnEnds == <>(\A t \in Tasks : TurnAt(t, "completed"))

=============================================================================
