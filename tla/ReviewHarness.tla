----------------------------- MODULE ReviewHarness -----------------------------
(***************************************************************************)
(* ReviewHarness.run (src/codeevo/harness.py) on AgentRuntime.execute      *)
(* (src/codeevo/runtime.py) over the task tables of src/codeevo/store.py:  *)
(* the nodes planning, executing and reviewing of a task, their retries    *)
(* and checkpoints, cancellation, the step and time budgets, and a run     *)
(* that takes up where an earlier one stopped.                             *)
(*                                                                         *)
(* An action is the code between two statements of the store, each of      *)
(* which is a transaction.  A failing one leaves nothing behind.  What     *)
(* reviewers find and say, node outputs, attempt numbers and messages are  *)
(* left out: only whether a node returned, and which error it raised.      *)
(***************************************************************************)
EXTENDS Integers, Sequences, FiniteSets

CONSTANTS
    Tasks,        \* task ids
    Unparsable,   \* tasks whose diff parse_unified_diff finds nothing in
    Runners,      \* threads that may execute a run
    MaxSteps,     \* max_steps: node executions of one run
    NodeRetries,  \* node_retries
    Exclusive,    \* whether the callers run one task one run at a time
    WriteFaults,  \* whether writes of the store may fail
    MaxRuns,      \* bound: runs begun, of all tasks
    MaxUpsets     \* bound: failing statements and deaths of a runner

ASSUME HarnessAssumption ==
    /\ Unparsable \subseteq Tasks
    /\ MaxSteps \in Nat \ {0}
    /\ NodeRetries \in Nat
    /\ Exclusive \in BOOLEAN
    /\ WriteFaults \in BOOLEAN
    /\ MaxRuns \in Nat
    /\ MaxUpsets \in Nat

VARIABLES
    state,      \* tasks.state
    report,     \* the tasks with a report_json
    trace,      \* trace_events of each task, in insertion order: [step, state]
    cancelled,  \* the tasks with cancel_requested
    ckpt,       \* checkpoints: task -> node -> its status
    cases,      \* the tasks with an execution_error in failure_cases
    run,        \* what each runner's call of run() has in its local variables
    runs,       \* runs begun so far
    upsets      \* failing statements and deaths so far

store == <<state, report, trace, cancelled, ckpt, cases>>
vars  == <<store, run, upsets, runs>>

\* The graph: node k brings the task to Stages[k].
Stages  == <<"PLANNING", "EXECUTING", "REVIEWING">>
Nodes   == 1 .. 3
States  == {"PENDING", "PLANNING", "EXECUTING", "REVIEWING", "SUCCESS", "FAILED", "CANCELLED"}
Final   == {"SUCCESS", "FAILED", "CANCELLED"}

\* The table ALLOWED, of which _transition only meets the rows before REVIEWING.
Allowed ==
    [s \in {"PENDING", "PLANNING", "EXECUTING", "REVIEWING"} |->
        {"FAILED", "CANCELLED"} \cup
        CASE s = "PENDING"   -> {"PLANNING"}
          [] s = "PLANNING"  -> {"EXECUTING"}
          [] s = "EXECUTING" -> {"REVIEWING"}
          [] s = "REVIEWING" -> {"SUCCESS"}]

\* Where a run is.  "unread" is "fail" after a query of the store has failed;
\* "returned" and "raised" are its two ends, for the caller.
Phases == {"idle", "begun", "context", "node", "handler", "body", "save", "redo",
           "finish", "cancel", "fail", "unread", "note", "returned", "raised"}
Ended  == {"idle", "returned", "raised"}

NoTask == "none"
Idle == [phase |-> "idle", task |-> NoTask, ctx |-> "PENDING", seen |-> {},
         node |-> 0, offset |-> 0, steps |-> 0, step |-> 0]

Completed(t) == {k \in Nodes : ckpt[t][k] = "completed"}

\* (Wrong: checkpointed nodes are not skipped.)
NextNodeAlways(seen, k) == k + 1

\* Checkpointed nodes are skipped, by what the run knew of them when it began.
NextNode(seen, k) == CHOOSE n \in k + 1 .. 4 : n \notin seen /\ k + 1 .. n - 1 \subseteq seen

\* _ctx.step starts from the largest step in the trace, 0 without one.
LastStep(t) ==
    CHOOSE n \in {0} \cup {trace[t][i].step : i \in DOMAIN trace[t]} :
        \A i \in DOMAIN trace[t] : trace[t][i].step <= n

TypeOK ==
    /\ state \in [Tasks -> States]
    /\ report \subseteq Tasks
    /\ trace \in [Tasks -> Seq([step : Nat, state : States])]
    /\ cancelled \subseteq Tasks
    /\ ckpt \in [Tasks -> [Nodes -> {"none", "failed", "completed"}]]
    /\ cases \subseteq Tasks
    /\ run \in [Runners -> [phase : Phases, task : Tasks \cup {NoTask},
                            ctx : States \ Final, seen : SUBSET Nodes, node : 0 .. 4,
                            offset : Nat, steps : 0 .. MaxSteps, step : Nat]]
    /\ runs \in Nat
    /\ upsets \in Nat

-----------------------------------------------------------------------------

StoreInit ==
    /\ state = [t \in Tasks |-> "PENDING"]
    /\ report = {}
    /\ trace = [t \in Tasks |-> <<>>]
    /\ cancelled = {}
    /\ ckpt = [t \in Tasks |-> [k \in Nodes |-> "none"]]
    /\ cases = {}

Init ==
    /\ StoreInit
    /\ run = [r \in Runners |-> Idle]
    /\ runs = 0
    /\ upsets = 0

(***************************************************************************)
(* The store's writes, and the run's local variables.                      *)
(***************************************************************************)

\* transition, succeed, fail and cancel set the state, whatever it is, and add
\* an event in the same transaction.
Record(t, n, s) ==
    /\ state' = [state EXCEPT ![t] = s]
    /\ trace' = [trace EXCEPT ![t] = Append(@, [step |-> n, state |-> s])]

SaveCheckpoint(t, k, status) == ckpt' = [ckpt EXCEPT ![t][k] = status]

RequestCancel(t) ==
    /\ t \notin cancelled
    /\ cancelled' = cancelled \cup {t}
    /\ UNCHANGED <<state, report, trace, ckpt, cases, run, upsets>>

Local(r, new) == run' = [run EXCEPT ![r] = new]
At(r, phase)  == run[r].phase = phase

Upset == upsets < MaxUpsets /\ upsets' = upsets + 1

\* A query of the store raises and the code goes to `phase`.
ReadFails(r, phase) ==
    /\ Upset
    /\ Local(r, [run[r] EXCEPT !.phase = phase])
    /\ UNCHANGED store

\* A write of the store raises and the code goes to `phase`.
WriteFails(r, phase) ==
    /\ WriteFaults /\ Upset
    /\ Local(r, [run[r] EXCEPT !.phase = phase])
    /\ UNCHANGED store

\* The same, in a clause that has already counted its trace step.
EventFails(r, phase) ==
    /\ WriteFaults /\ Upset
    /\ Local(r, [run[r] EXCEPT !.phase = phase, !.step = @ + 1])
    /\ UNCHANGED store

(***************************************************************************)
(* run(): the prologue.                                                    *)
(***************************************************************************)

InRun(t) == \E r \in Runners : run[r].task = t /\ run[r].phase \notin Ended

Enter(r, t, finished, step) ==
    /\ run[r].phase \in Ended
    /\ Exclusive => ~InRun(t)
    /\ Local(r, IF finished THEN [Idle EXCEPT !.phase = "returned", !.task = t]
                            ELSE [Idle EXCEPT !.phase = "begun", !.task = t, !.step = step])
    /\ UNCHANGED <<store, upsets>>

Finished(t) == state[t] = "SUCCESS" /\ t \in report

\* (Wrong: the trace is numbered from 0 again.)
BeginRenumbered(r, t) == Enter(r, t, Finished(t), 0)

Begin(r, t) == Enter(r, t, Finished(t), LastStep(t))

\* The state the run believes in comes from the checkpoints, not from the task;
\* the last completed node decides.  This query and the one of Begin come before
\* the try: when they fail, run() raises and writes nothing.
LoadContext(r) ==
    /\ At(r, "begun")
    /\ \/ /\ LET done == Completed(run[r].task)
             IN  Local(r, [run[r] EXCEPT !.phase = "context", !.ctx =
                   CASE 3 \in done               -> "REVIEWING"
                     [] 2 \in done /\ 3 \notin done -> "EXECUTING"
                     [] done = {1}               -> "PLANNING"
                     [] done = {}                -> "PENDING"])
          /\ UNCHANGED <<store, upsets>>
       \/ ReadFails(r, "raised")

\* AgentRuntime.execute loads the checkpoints again, now inside the try.
LoadCheckpoints(r) ==
    /\ At(r, "context")
    /\ \/ /\ LET done == Completed(run[r].task)
             IN  Local(r, [run[r] EXCEPT !.phase = "node", !.seen = done,
                                         !.node = NextNode(done, 0), !.offset = 1])
          /\ UNCHANGED <<store, upsets>>
       \/ ReadFails(r, "unread")

(***************************************************************************)
(* AgentRuntime.execute: guard, handler, checkpoint, retry.                *)
(***************************************************************************)

\* cancel_check() asks the store and raises.
GuardFails(r) ==
    /\ At(r, "node") /\ run[r].node # 4
    /\ ReadFails(r, "unread")

GuardCancelled(r) ==
    /\ At(r, "node") /\ run[r].node # 4
    /\ run[r].task \in cancelled
    /\ Local(r, [run[r] EXCEPT !.phase = "cancel"])
    /\ UNCHANGED <<store, upsets>>

\* The step budget is used up, or the time is: it may be at any guard.
GuardBudget(r) ==
    /\ At(r, "node") /\ run[r].node # 4
    /\ run[r].task \notin cancelled
    /\ Local(r, [run[r] EXCEPT !.phase = "fail"])
    /\ UNCHANGED <<store, upsets>>

StartNode(r) ==
    /\ At(r, "node") /\ run[r].node # 4
    /\ run[r].task \notin cancelled
    /\ run[r].steps < MaxSteps
    /\ Local(r, [run[r] EXCEPT !.phase = "handler", !.steps = @ + 1])
    /\ UNCHANGED <<store, upsets>>

AllNodesDone(r) ==
    /\ At(r, "node") /\ run[r].node = 4
    /\ Local(r, [run[r] EXCEPT !.phase = "finish"])
    /\ UNCHANGED <<store, upsets>>

Target(r) == Stages[run[r].node]

\* A diff without files or added lines: ValueError, never retried.
RejectDiff(r) ==
    /\ At(r, "handler") /\ run[r].node = 1 /\ run[r].task \in Unparsable
    /\ Local(r, [run[r] EXCEPT !.phase = "fail"])
    /\ UNCHANGED <<store, upsets>>

MayTransit(r) ==
    /\ At(r, "handler")
    /\ run[r].node = 1 => run[r].task \notin Unparsable

\* A retried node is already in its state.
NoTransition(r) ==
    /\ MayTransit(r) /\ run[r].ctx = Target(r)
    /\ Local(r, [run[r] EXCEPT !.phase = "body"])
    /\ UNCHANGED <<store, upsets>>

\* (Wrong: the state is only written over the one the run believes in.)
TransitionIfCurrent(r) ==
    /\ MayTransit(r) /\ Target(r) \in Allowed[run[r].ctx]
    /\ Local(r, [run[r] EXCEPT !.phase = "body", !.ctx = Target(r), !.step = @ + 1])
    /\ IF state[run[r].task] = run[r].ctx
         THEN Record(run[r].task, run[r].step + 1, Target(r))
         ELSE UNCHANGED <<state, trace>>
    /\ UNCHANGED <<report, cancelled, ckpt, cases, upsets>>

Transition(r) ==
    /\ MayTransit(r) /\ Target(r) \in Allowed[run[r].ctx]
    /\ Local(r, [run[r] EXCEPT !.phase = "body", !.ctx = Target(r), !.step = @ + 1])
    /\ Record(run[r].task, run[r].step + 1, Target(r))
    /\ UNCHANGED <<report, cancelled, ckpt, cases, upsets>>

\* The local state and step are set before the store is written.
TransitionFails(r) ==
    /\ MayTransit(r) /\ Target(r) \in Allowed[run[r].ctx]
    /\ WriteFaults /\ Upset
    /\ Local(r, [run[r] EXCEPT !.phase = "redo", !.ctx = Target(r), !.step = @ + 1])
    /\ UNCHANGED store

\* "invalid state transition", a retryable error.
BadTransition(r) ==
    /\ MayTransit(r)
    /\ run[r].ctx # Target(r) /\ Target(r) \notin Allowed[run[r].ctx]
    /\ Local(r, [run[r] EXCEPT !.phase = "redo"])
    /\ UNCHANGED <<store, upsets>>

\* The rest of the handler: it returns its output, raises an error that may be
\* retried, or a ValueError.  Planning does nothing more that could fail.
NodeReturns(r) ==
    /\ At(r, "body")
    /\ Local(r, [run[r] EXCEPT !.phase = "save"])
    /\ UNCHANGED <<store, upsets>>

NodeRaises(r) ==
    /\ At(r, "body") /\ run[r].node # 1
    /\ \E phase \in {"redo", "fail"} : Local(r, [run[r] EXCEPT !.phase = phase])
    /\ UNCHANGED <<store, upsets>>

GoOn(r) ==
    Local(r, [run[r] EXCEPT !.phase = "node", !.offset = 1, !.node = NextNode(run[r].seen, @)])

SaveNode(r) ==
    /\ At(r, "save")
    /\ \/ /\ SaveCheckpoint(run[r].task, run[r].node, "completed")
          /\ GoOn(r)
          /\ UNCHANGED <<state, report, trace, cancelled, cases, upsets>>
       \/ WriteFails(r, "redo")

\* The failed attempt is checkpointed, then tried again or given up.
RetryNode(r) ==
    /\ At(r, "redo")
    /\ \/ /\ SaveCheckpoint(run[r].task, run[r].node, "failed")
          /\ Local(r, IF run[r].offset <= NodeRetries
                        THEN [run[r] EXCEPT !.phase = "node", !.offset = @ + 1]
                        ELSE [run[r] EXCEPT !.phase = "fail"])
          /\ UNCHANGED <<state, report, trace, cancelled, cases, upsets>>
       \/ WriteFails(r, "fail")

(***************************************************************************)
(* run(): the epilogue and its except clauses.                             *)
(***************************************************************************)

Succeed(r) ==
    /\ At(r, "finish")
    /\ \/ /\ Record(run[r].task, run[r].step + 1, "SUCCESS")
          /\ report' = report \cup {run[r].task}
          /\ Local(r, [run[r] EXCEPT !.phase = "returned", !.step = @ + 1])
          /\ UNCHANGED <<cancelled, ckpt, cases, upsets>>
       \/ EventFails(r, "fail")

RecordCancel(r) ==
    /\ At(r, "cancel")
    /\ \/ /\ Record(run[r].task, run[r].step + 1, "CANCELLED")
          /\ Local(r, [run[r] EXCEPT !.phase = "raised", !.step = @ + 1])
          /\ UNCHANGED <<report, cancelled, ckpt, cases, upsets>>
       \/ EventFails(r, "raised")

RecordFailure(r) ==
    /\ run[r].phase \in {"fail", "unread"}
    /\ \/ /\ Record(run[r].task, run[r].step + 1, "FAILED")
          /\ Local(r, [run[r] EXCEPT !.phase = "note", !.step = @ + 1])
          /\ UNCHANGED <<report, cancelled, ckpt, cases, upsets>>
       \/ EventFails(r, "raised")

\* record_failure_case; its own failure is ignored.
NoteFailure(r) ==
    /\ At(r, "note")
    /\ \/ /\ cases' = cases \cup {run[r].task}
          /\ Local(r, [run[r] EXCEPT !.phase = "raised"])
          /\ UNCHANGED <<state, report, trace, cancelled, ckpt, upsets>>
       \/ WriteFails(r, "raised")

\* The process dies: the run is gone, the store stays.
Die(r) ==
    /\ run[r].phase \notin Ended
    /\ Upset
    /\ Local(r, Idle)
    /\ UNCHANGED store

-----------------------------------------------------------------------------

Node(r) ==
    \/ GuardFails(r) \/ GuardCancelled(r) \/ GuardBudget(r) \/ StartNode(r) \/ AllNodesDone(r)
    \/ RejectDiff(r) \/ NoTransition(r) \/ Transition(r) \/ TransitionFails(r)
    \/ BadTransition(r) \/ NodeReturns(r) \/ NodeRaises(r) \/ SaveNode(r) \/ RetryNode(r)

Advance(r) ==
    \/ LoadContext(r) \/ LoadCheckpoints(r) \/ Node(r)
    \/ Succeed(r) \/ RecordCancel(r) \/ RecordFailure(r) \/ NoteFailure(r)

Next ==
    \/ \E r \in Runners, t \in Tasks : Begin(r, t) /\ runs < MaxRuns /\ runs' = runs + 1
    \/ \E r \in Runners : (Advance(r) \/ Die(r)) /\ UNCHANGED runs
    \/ \E t \in Tasks : RequestCancel(t) /\ UNCHANGED runs

Spec == Init /\ [][Next]_vars

-----------------------------------------------------------------------------
\* PROPERTIES

\* What is over stays over: no retry, redelivery, resume or cancel takes a task
\* out of SUCCESS or loses its report (the table ALLOWED has no row for it), and
\* a cancelled task stays cancelled, though every later run of it starts from its
\* checkpoints with a state that knows nothing of the cancellation.  One thing
\* undoes a cancellation: a run that cannot read the store before it has found the
\* request again writes FAILED over it.
Unreadable(t) == \E r \in Runners : run[r].task = t /\ At(r, "unread")

FinalStays ==
    [][\A t \in Tasks :
          /\ state[t] = "SUCCESS" => state'[t] = "SUCCESS" /\ t \in report'
          /\ state[t] = "CANCELLED" =>
                state'[t] = "CANCELLED" \/ (state'[t] = "FAILED" /\ Unreadable(t))]_vars

\* "resume from the last completed checkpoint": a node that has completed is never
\* executed again and its output never replaced, whatever runs follow.
CompletedNeverRerun ==
    \A r \in Runners : run[r].phase \in {"handler", "body", "save", "redo"} =>
        ckpt[run[r].task][run[r].node] # "completed"

\* The trace numbers its events upwards across all runs of a task, although each
\* run counts on from what the trace held when it began, and a write that fails
\* or a process that dies leaves a gap.
TraceAscends ==
    \A t \in Tasks : \A i \in 1 .. Len(trace[t]) - 1 :
        trace[t][i].step < trace[t][i + 1].step

\* "PENDING -> PLANNING -> EXECUTING -> REVIEWING -> SUCCESS": no stage is recorded
\* before the one the table ALLOWED puts in front of it.
StagesInOrder ==
    \A t \in Tasks : \A i \in DOMAIN trace[t] : \A s \in {"PLANNING", "EXECUTING", "REVIEWING"} :
        trace[t][i].state \in Allowed[s] \ {"FAILED", "CANCELLED"} =>
            \E j \in 1 .. i - 1 : trace[t][j].state = s

=============================================================================
