# A TLA+ model of CodeEvo

CodeEvo reviews pull requests: a request or a GitHub webhook creates a task, a
worker takes it from a queue, a small state machine runs the reviewers over the
diff with retries and checkpoints, and the result is posted as a comment. The
prompts and skills the reviewers use are themselves released in canary and
shadow stages and are rolled back or promoted by what the reviews report.

Prompts and skills learn from what users say of the reports and are measured by a
benchmark on cases that users label; a second pipeline turns findings into repairs.

This directory models the parts of that whose difficulty is in the order of
things: deliveries that happen more than once, deaths between two writes, runs
that take up where another stopped, counters that several reviews feed at once,
versions activated and rolled back at the same time. The pure algorithms that
decide what an agent sees and how its findings are scored are modelled as
operators and checked on bounded inputs. Paths below are relative to `src/`.

Contents: 1 inventory, 2 plan, 3 modules, 4 runs, 5 bounds, 6 fairness,
7 proofs, 8 disagreements between code and documents, 9 what is not modelled,
10 how to run it.

## 1. Inventory

### Components

**Task queue** (`codeevo/task_queue.py`). State: in Redis, a stream that is never
trimmed, one consumer group with its last-delivered id and its pending entries,
and a dead-letter stream; in the process, one pool of threads running
`_redis_worker`. Operations: `submit`; the loop `_reclaim_stale` (XAUTOCLAIM of
entries idle for a lease) then XREADGROUP of one entry; `_deliver`, which counts
the attempt, runs the handler and then acknowledges, re-adds the envelope with
its new attempt number, or writes the dead letter and calls `on_dead_letter`;
`replay_dead_letter`; `close`. Without Redis it is a thread pool with a retry
loop and nothing persistent. Hard: every command may fail, or execute and lose
its reply; the process may die between any two; a lease may run out under a live
handler; an exception outside the `try` ends a thread. Correct when no accepted
message is lost, an acknowledgement is the last thing that happens to an entry,
attempts are only eaten by failures of the handler, and every message gets an
outcome.

**Review harness and agent runtime** (`codeevo/harness.py`, `codeevo/runtime.py`,
`codeevo/models.py`). State: the local state and step of one run, the checkpoints
of the task. Operations: `ReviewHarness.run` (prologue, three nodes planning,
executing, reviewing, epilogue, except clauses) on `AgentRuntime.execute`
(cancellation and budget guards before each node, attempts, checkpoints).
`ToolRegistry` and `AgentLoop` are the bounded tool loop of a single agent.
Hard: a run resumes from checkpoints another run wrote; a write fails after the
local state has advanced; two runs of one task overlap; a cancellation arrives at
any time. Correct when completed nodes are not run again, the trace is a path of
the state machine `ALLOWED`, and final states are final.

**Task store** (`codeevo/store.py`, `codeevo/postgres_store.py`,
`codeevo/database.py`). State: tasks, trace events, checkpoints, payloads,
webhook claims, deployments, alerts, audit rows, cases and versions. Each method
is one transaction; there is no transaction over two of them, which is where the
difficulty of all other components comes from.

**Asynchronous review service** (`codeevo/service.py`). Operations:
`enqueue_review` and `_create_deferred_task` (create, store the diff, submit:
three calls), `_process_queued` (the queue's handler: fetch the deferred diff,
run the harness, count the outcome for the release, upsert the comment),
`_on_dead_letter`, `resume_task`, `cancel_task`, the replay of a dead letter, and
the synchronous `review`. Correct when a submitted task ends, its final state
stays, and its review is posted once.

**GitHub client** (`codeevo/github.py`): `upsert_comment` (search the marker,
then PATCH or POST) over `_request` (retries on timeouts, connection errors, 5xx
and 429).

**Canary and shadow releases** (`codeevo/rollout.py`, rows in `store.py`). State:
one row per tenant and skill with status, percentages and counters. Operations:
`configure`, `assignment`, `observe`, `observe_shadow`. Correct when verdicts are
earned, stand until the next `configure`, are announced, and the candidate
reviews only where it may.

**Webhook intake** (`service.handle_github_pull_request`, `api.py`). State: the
deliveries claimed and the task of each. Operations: claim a delivery id, look at
the payload, create a deferred task, submit it, complete the claim; the review
fetches the diff when it runs. Hard: five transactions and calls, redelivery by
GitHub while the first is being handled or after it failed, pushes in between.
Correct when one task at most is queued for a delivery, and the task a duplicate is
answered with is that one.

**Annotation workbench** (`codeevo/annotation.py`). State: cases with a status,
submissions, adjudications, exported datasets. Operations: import, submit,
adjudicate, read, export. Hard: every operation is two or three transactions on
tables that are each guarded by a UNIQUE constraint, so that a half-done operation
cannot be repeated; the duplicate check and the constraint differ in spelling.
Correct when answers are blind, a final label is earned, a dataset stands, and the
status follows the rows.

**Learning** (`codeevo/evolution.py`, `codeevo/skill_evolution.py`, with the tables
of `codeevo/store.py` and `codeevo/postgres_store.py`). State: versions of prompts
and of skill artifacts, failure cases, the runs that activated a version, the lock
of each engine, the reviewer the process has registered. Operations: record
feedback, propose (by hand or from failure cases), compare with the active version,
save and activate, resolve the failure cases, roll back, reload. Hard: the engine's
lock covers some of these and spans several transactions, a rollback of an artifact
takes none, PostgreSQL and SQLite order the same writes differently. Correct when
what serves is the last activation, won its comparison, and only learned failures
are closed.

**Collaboration of agents** (`codeevo/agents.py`, `codeevo/memory.py`,
`codeevo/context_manager.py`, `codeevo/reviewer.py`): plan, specialists in a
thread pool, critiques and revisions in rounds, evidence, verification,
arbitration, memory. State: the findings and the critiques, reproductions and
decisions about them, which are kept by finding key; the messages in the store.
Hard: agents fail, are retried and replaced; findings of one key arrive in the
order their agents complete; a revision replaces findings already judged; a message
that cannot be written fails an attempt in one place and the review in another.
Correct when what is published was supported in the version last challenged, every
finding and hand-off is on record, and one agent's failure stays its own.

**Agent loop, memory and workspace** (`AgentLoop` and `ToolRegistry` in
`codeevo/runtime.py`, `codeevo/memory.py`, `codeevo/workspace.py`,
`codeevo/context_manager.py`, `codeevo/diff_parser.py`). State: the step of one
agent, the ledger of what it read, the memories of all tasks. Operations: one model
call or tool per step, a finding with its evidence, verification against the file,
archiving and releasing memories; and without state, the parsing of the diff and
the fitting of diff and context into a budget. Hard: the checkout changes under the
reads, tasks that say the same share a row, attempts fail half-way. Correct when a
published finding quotes what was read, a task that is done leaves no working memory of
its own, and the loop ends.

**Evaluation policy and harness** (`codeevo/evaluation_harness.py`,
`codeevo/evaluation_policy.py`): matching of findings and labels, tables, gates.
No state. Correct when the matching is one to one and maximal, the tables add up,
and the gate protects what it names.

**Benchmark runner** (`codeevo/benchmark_runner.py` and companions). State:
checkpoint files per route and case, the meter of the provider's usage, three
report files. Operations: load or review each case, save, write the report. Hard:
the run is killed and resumed, dataset or settings are edited in between, calls are
charged and then fail. Correct when a report is of what it names, adds up what was
charged, and nothing saved is paid again.

**Safe fixer** (`service.create_fix`, `codeevo/fixer.py`, `codeevo/verifier.py`).
State: branches and draft pull requests on GitHub. Operations: read the head, read
files by branch name, edit, archive the head, verify, commit on the head, name a
branch, open a draft. Hard: pushes between any two of these. Correct when a branch
holds what was verified and takes back no push but at the lines the report names.

**Authentication and rate limits** (`codeevo/auth.py`, `codeevo/rate_limit.py`),
**HTTP API** (`codeevo/api.py`, `codeevo/server.py`), and **configuration,
reporting, observability, web client and demo**, which have no protocol of their
own.

### How they interact

```
 HTTP API, webhook --create, save, submit--> Task store, Task queue
 Task queue --deliver--> service._process_queued --run--> ReviewHarness --writes--> Task store
 Task queue --on_dead_letter--> service._on_dead_letter --read, fail, alert--> Task store
 service._process_queued --assignment, observe, observe_shadow--> Rollout (rows in the store)
 service._process_queued --upsert_comment--> GitHub
 users --cancel, resume, replay--> service --> Task store, Task queue
 users --feedback, propose, roll back--> Learning --active version--> reviewer of the process
 users --answers--> Annotation --dataset--> Benchmark, Learning
 Benchmark, Learning --versions, evidence--> Rollout.configure
 ReviewHarness --executing--> Collaboration --each agent--> AgentLoop --reads--> checkout
 reports --create_fix--> Fixer --branch, draft--> GitHub
```

Everything shared is in Redis, the store or GitHub; threads and processes share
nothing else that matters. There is no transaction across two of the three.

### Hazards

`PROJECT.json` lists 40, each at its line with the properties that cover it.
The most important ones:

- the process dies, or a command fails or loses its reply, between the handler,
  the XADD of the retry or dead letter and the XACK (`NoLoss`, `AckCovered`,
  `AttemptsCounted`, `DeadLetterJustified`); an exception ends a worker thread for
  good (`EventuallySettled`, under the assumption that XREADGROUP does not raise);
- a run that resumes believes its checkpoints, not the task's row, and may fail to read
  either (`CompletedNeverRerun`, `TraceAscends`, `FinalStays`); two runs overlap
  (`StagesInOrder`);
- death between dead letter and callback (`NoneLeftBehind`, `EveryTaskEnds`);
- a comment posted, the message redelivered (`CommentedOnce`);
- reviews of an old deployment reporting to a new one, reviews counted once per
  attempt, a verdict raced by another observation (`VerdictStands`,
  `VerdictEarned`), two reads of one deployment (`CandidateConfined`), a rollback
  whose alert is lost with its thread (`RollbackAnnounced`);
- several agents' findings under one key, judged and revised as one
  (`PublishedSupported`, `CritiqueCurrent`, `Recorded`), and agents that fail
  together (`FailuresContained`, `CollaborationEnds`);
- a checkout that changes under an agent, and memories shared by content
  (`EvidenceReal`, `MemoryReleased`, `TurnEnds`; that the release of a shared row may hit
  another task is a limit that no property denies, section 8);
- a proposal, a rollback and a reload at the same time, and a death between the
  transactions of a proposal (`LastActivationWins`, `OnlyWinnersServe`,
  `TakeoverEarned`, `LiveFollows`, `ResolvedIsLearned`);
- two requests on one case, and a mishap between an insert and the status
  (`Labelled`, `Blind`, `DatasetStands`, `Settled`);
- a run resumed on an edited dataset, a call charged that fails or that nobody waits
  for any more (`ReportTrue`, `CostReal`, `PaidOnce`);
- a delivery claimed and not completed (`DeliveryBacked`), a push between the reads
  of a repair (`FixVerified`, `NoPushReverted`).

Where a property excludes a case because the code really misbehaves in it, section
8 says so.

## 2. Plan

Done, in this order:

1. `AtLeastOnce`, `TaskQueue`: the queue and its promise; safety, refinement and
   liveness; proofs of its safety properties and of the refinement.
2. `ReviewHarness`: run, checkpoints, retries, cancellation; proofs of all its
   properties.
3. `ReviewService`: composes the two, adds GitHub and the users; proofs of its safety
   properties with one worker thread.
4. `Rollout`: releases driven by queued reviews; proofs of all its properties.
5. `Collaboration`: what the node "executing" of the harness runs; proofs of all its
   safety properties.
6. `AgentTurn`, `ReviewInput`: one agent of the collaboration and what it is given;
   proofs of both invariants of the first.
7. `Learning`: prompt and skill versions with their comparison, activation, rollback
   and the lock of one process; proofs of all its properties.
8. `Annotation`: the workbench; proofs of all its properties.
9. `Webhooks`, and `Fixes` on top of it: deliveries, pushes and repairs of one pull
   request; proofs of all their properties.
10. `Benchmark`, `Scoring`: the resumable run and the arithmetic of its report;
    proofs of all properties of the first.

Left, should the project go on: what several worker threads keep of `FinalStays`,
`NoneLeftBehind` and `CommentedOnce`; lemmas about the operators of `ReviewInput`; the in-memory queue and
the synchronous review path; the symbol index and search of the workspace; the login
limiter.

Every module that is proved about has constants with named assumptions, one action
per operation and no RECURSIVE operator. The two modules of pure operators that are
only evaluated (`Scoring`, `ReviewInput`) are apart from them, and only `Scoring`
recurses.

## 3. Modules

Common conventions. An action is the code between two calls that leave the
process (a Redis command, a transaction of the store, a request to GitHub, the
handler). A failing transaction rolls back and leaves nothing; a failing Redis
command may have been executed; GitHub may have executed a request whose reply is
lost. Deaths, failed calls and leases that run out under a live thread are called
mishaps and are counted against a bound. Definitions marked `(Wrong: ...)` are not
part of the specification: each is a plausible bug of the definition after it, and
substituting it must break the property that is meant to notice.

### TaskQueue, MCTaskQueue

The Redis mode of `task_queue.py`.

| state | code |
|---|---|
| `entries`, `read`, `pel` | the stream, the group's last-delivered id, its pending entries |
| `stale` | pending entries whose idle time has reached `lease_seconds` |
| `dlq` | the dead-letter stream |
| `wpc`, `hand`, `rest`, `src` | position of a thread in `_redis_worker`, the entry in `_deliver`, the rest of a claimed batch, which call the entry came from |
| `owed`, `completed`, `refused`, `failures`, `submits` | history, for the properties |

`ReclaimStale` and `ReadNew` are the two calls of the loop; `HandlerReturns`,
`HandlerRefuses` (PermanentTaskError), `HandlerFails` the three ends of the
handler; `Requeue`, `Bury`, `Callback`, `Ack` the commands of `_deliver`;
`RefuseForeign` the except clause for an entry that is not JSON, `ClaimedForeign`
the same entry met in `_reclaim_stale`, where nothing catches the error. `*Fault`
is each call's failure with what the code does then: the rest of a claimed batch
is abandoned, the read loop goes on, or (XREADGROUP, or anything in the except
clause) the thread ends. `Crash`, `Close` and `Restart` take a thread down and
bring it back at the head of the loop. The consumer name of a pending entry is
left out: XACK does not look at it.

### AtLeastOnce

What a user of the queue may rely on: a message that was accepted is completed or
dead-lettered, one message at a time, and every submission is answered. `TaskQueue`
implements it with `accepted` = messages submitted and `dead` = messages in the
dead letters; a retry, a redelivery and a lease are invisible.

### ReviewHarness, MCReviewHarness

`run[r]` holds the local variables of one call of `ReviewHarness.run`: the phase,
`ctx` (`_ctx.state`), `seen` (the checkpoints `execute` loaded), `node`, `offset`,
`steps`, and `step` (`_ctx.step`). `Begin`, `LoadContext` and `LoadCheckpoints` are
the three reads of the prologue, each of which may see what another run has just
written. A read may raise (`ReadFails`): in `LoadContext` that ends the call; in
`LoadCheckpoints` and at a guard (`GuardFails`) it happens inside the `try` of `run`, and from
"unread" `RecordFailure` writes FAILED over whatever stands. `GuardCancelled`,
`GuardBudget`, `StartNode`, `AllNodesDone` are the
guard of a node; `RejectDiff`, `NoTransition`, `Transition`, `TransitionFails`,
`BadTransition`, `NodeReturns`, `NodeRaises` its handler; `SaveNode` and
`RetryNode` its two checkpoints; `Succeed`, `RecordCancel`, `RecordFailure`,
`NoteFailure` the epilogue and its except clauses. What the reviewers say is left
out: only whether a node returned and which kind of error it raised. The time
budget is a guard that may fire before any node.

### ReviewService, MCReviewService

`INSTANCE`s both. A message is a record of a task and of whether it came from the
webhook (only such a message carries the URLs of the diff and of the issue).
`CreateTask`, `SavePayload`, `SubmitTask` are the three calls of `enqueue_review`;
`CreateDeferredTask` the webhook's; nothing forces the next to follow. The
queue's `HandlerReturns` and `HandlerFails` are taken only by `Return` and `Raise`
here: `FetchDiff`, `StartReview`, `ReviewStep` (any step of the harness),
`ReviewReturned`, `ReviewRaised`, `ObserveFails`, `LookupComment`, `PostComment`,
`PatchComment`, `CommentFails`, `ReviewDone`. `FetchDiff` is two calls, the diff's and the
transaction that keeps it, and may end between them; `ReadTaskFails` is the read of the
task before the review. Its `Callback` is `ReadDeadTask`
(one transaction), `FailDeadTask` (another, with the step number computed from the
first) and `RaiseAlert`. `ReplyLost` is GitHub's answer getting lost.
The queue, the harness and the service share one budget of mishaps. GitHub is an
external: a number of comments per task, and in `page` what its first 100 comments, all
that `LookupComment` reads, hold: room, the review's own comment, or others' alone.

### Rollout, MCRollout

`deployment` is the row; `pc`, `lane`, `shadowed`, `attempts`, `using`, `report`,
`outcome` describe each queued review. `Configure`, `Create` (with `assignment`:
one bucket for both percentages), `Choose` and `PickCandidate` (the two reads of
the deployment in `_run_review` and `_candidate_reviewer`), `RunReview`,
`ShadowReview`, `ShadowRecord`, `PromotionAlert`, `ShadowAudit` (`_run_shadow`),
`Count`, `CountAlert`, `Comment`, `Error`, `ErrorAlert` (`_process_queued` with its
except clause). The rates are integers in percent, compared by multiplication.
`WriteFails` distinguishes the three `try` blocks a write may stand in: inside
`_run_shadow` a failure is observed as a failed shadow review, inside
`_process_queued` as an error, inside its except clause it replaces the error. The
queue is reduced to what a review sees of it: an attempt that raises is counted,
one that dies is delivered again. The offline gate is the constant `Requests`: what
`configure` may be called with, traffic only for versions that have evidence.
`raised`, `agreements` and `mute` are history: the attempts in the canary lane that
raised, and the shadow observations that agreed or failed on an empty report.

### Collaboration, MCCollaboration

`phase` is the node of the second `AgentRuntime`, the one inside
`MultiAgentCoordinator`; `job[a]` the invocation of an agent for the assignment of
specialist `a`, `job["reviser"]` the one the main thread is in while it asks for
revisions. A finding is its key and its quality: "sound"; "thin", when the critic
objects; "unsafe", when only the verifier does.

| state | code |
|---|---|
| `claims`, `source` | `specialist_findings` and the first entry of `finding_sources`, per key |
| `round`, `pending`, `topic`, `revised` | the locals of `_deliberation_node` |
| `critique`, `evidence`, `approved` | `critiques`, `reproductions`, `decisions`: of which finding they are |
| `published` | the quality of the findings in the report |
| `transcript` | what the store knows of this call's evidence and hand-offs |
| `late`, `failed` | time budget, and history |

`Attempt`, `Answer`, `Raise`, `Report`, `NoteFailure`, `Retry` are `_invoke_agent`:
its last message stands inside the `try` (a failing write is a failed attempt), the
others outside (`Breaks`: the exception leaves the call). `Handoff` is the second
half of `_run_assignment` with `replan`: an assignment is handed on once (`job[a].standin`),
to the candidate that shares most domains with it, the fallback last unless it is
another specialist (`Substitute`); an assignment of the fallback's own may so return to it. `Gather` takes an outcome in the order of
completion; `GatherBreaks` waits, as the pool's exit does, for the other threads.
`Challenge`, `AskRevision`, `TakeRevision` and `EndRound` are a round of
`_deliberation_node`. `NodeBreaks` is any message of the main thread that cannot be
written, `TryAgain` the harness, or a redelivery of the task, starting over.

### AgentTurn, MCAgentTurn

One agent per task, several tasks of one repository at a time. `turn[t]` holds the
position, attempt and step of the loop, `reads` (the evidence ledger of the
session: range and hash, the hash being the whole file), the finding with its
references and the verifier's decision; `memories` is the table
`agent_memories`, from scope and content to the task that owns the row, because
the id of a memory is the hash of what it says.

| action | code |
|---|---|
| `Begin` | `_run_agent_loop`: recall, which purges; an empty ledger |
| `Act` | the model's answer, remembered before it is looked at |
| `ReadTool`, `OtherTool` | a read of the repository; any other observation, errors included |
| `Finish`, `ModelRaises`, `RetryTurn` | the final action; an exception or the end of the time budget; `_invoke_agent`'s next attempt |
| `VerifyTurn` | `EvidenceAgent.reproduce` and `VerifierAgent.verify`: the file is read again |
| `Archive`, `Release` | `_arbitrate_node`: the summary is remembered, the working memory deleted |
| `WriteFails`, `TurnDies`, `Update` | a failing write, a death with redelivery, a change of the checkout |

A finding is a line and a quote, of high severity; the critique, the remediation
and the confidence are one choice of the environment, made in `Collaboration`. The
memories of findings are left out, the one of the task's summary is kept.

### ReviewInput, ReviewInputChecks

Pure operators: `ParseDiff` (diff_parser.py), `CompactHunk`, `BuildDiff`, `Runtime`
and `Compose` (context_manager.py), `ReadRange` and `ReadContext` (workspace.py). Text
is its length in bytes. A line is added, removed, context, or one of the two that look
like something else: an added line that begins with "++", a removed one that begins with
"-- ". `BuildDiff` includes the headers in what it counts and, when no hunk fits, the cut
by characters (`CutHunk`) of the first. `ReviewInputChecks` states what they promise over bounded
inputs, as assumptions TLC evaluates when it starts `agent_turn`: `LinesNumbered`,
`HunkFits`, `DiffFits`, `ContextFits`, `ReadsBounded`.

### Learning, MCLearning

Both engines in one process of the API, over either store.

| state | code |
|---|---|
| `versions`, `evolved` | `skill_versions` and `skill_artifact_versions`; the versions with a run that activated them |
| `feedback` | `failure_cases` |
| `lock` | the RLock of each engine |
| `thr` | what a request has read and where it stands |
| `live` | the version of the prompt in the registered reviewer |
| `backend` | which store the process runs on |
| `last`, `stray` | history: the activation committed last; a reload that raced another or was lost |

`AutoPrompt`, `AutoSkill`, `PromptCandidate`, `SkillCandidate` are a proposal from
failure cases, which are read before the lock is taken; `ProposePrompt`,
`ProposeSkill` one by hand; `Enter` the lock and the baseline; `EvaluatePrompt`,
`EvaluateSkill` the comparison; `SaveVersion` (SQLite) or `PgReadParent` and
`PgSaveVersion` (PostgreSQL) the version; `SaveRun`, `ResolveFailures`, `ReloadRead`,
`ReloadRegister` what follows. `RollbackPrompt` and `RollbackSkill` are one
transaction on SQLite; on PostgreSQL (`PgRollback...`, `PgRollbackCommit`) the UPDATE
that clears the active rows sees those committed when it began, however long it
waits. The text of a prompt and the rules of an artifact are the set of lessons they
hold; replaying the datasets is a `Score` of that set, and all else a comparison may
fail on is a choice (`Gates`). What a report gives as its rule is a name: `RuleOf` says
which rule it means, if any, and only the names that are rules themselves pass the
pattern FEEDBACK_RULE_ID that the prompt engine filters by (`PromptLessons`); the artifact
engine normalises them first. `CallFails` is any call of a request that raises, the
registry's reload included, which leaves the reviewer as it was.

### Annotation, MCAnnotation

`status`, `subs`, `adjudication`, `exports` are the four tables, `diff` the diff each case
was imported with (`Diffs` what it may be: a pull request may be pushed to between the
imports of twins, which then differ; `Sound`, the check of an export, compares diffs, not
pull requests); `Earlier` says which answers the database may hold at the start. `thr[r]` is
what a request has read. `ImportLookup`, `ImportInsert`; `SubmitRead`, `SubmitCheck`,
`SubmitInsert` (the only transaction that counts the rows and inserts one),
`SubmitCount`, `SubmitMove`; `AdjudicateRead`, `AdjudicateCheck`,
`AdjudicateInsert`, `AdjudicateMove`; `ViewRead`, `ViewAnswer`; `ExportRead`,
`ExportInsert`, `ExportMark` are the transactions of the five operations. `Move` is
`update_annotation_case_status` with the statuses it may leave. `seen` (what a user
has been shown) and `broken` (the cases a mishap hit between two transactions) are
history.

### Benchmark, MCBenchmark

`content` and `settings` are what the dataset and the configuration say now,
`runner[p]` what an invocation has read of them, with its reviewer's meter
(`usage`), the current result and the results so far; `checkpoints` and `reports`
are the files. `Start` orders the cases by route; `Load` takes a checkpoint, or begins a review
(`Begin`) when there is none, when it is of other inputs, or when it cannot be read;
`LocalReview`, `CallFails`, `CallAnswers` (metered or not, valid or not, followed by
another call or not) are the review. On the routes in `Teams` the agents contain the failure
of a call and the case succeeds without it (`Contained`). `Save`, `WriteReport` are the
writes, each of which replaces a file at once; `Ends` a death or a failing write, which may
leave a call that is charged; `Edit` a change of dataset or settings. `bills` and
`repeated` are history that outlives processes, results and files: by key, all
the provider ever charged, and whether a review was begun more than once.

### Scoring, ScoringChecks

Pure operators for `evaluation_harness.py` and `evaluation_policy.py`: `Candidates`,
`Assign` and `Matches` (augmenting paths), `Deduplicated`, `CaseScore`, `Metrics`, the
tables by CWE and severity, `GrowthAllowed`, `ReleaseGate`, `RanksBefore`. Ratios are
pairs and are not rounded. `ScoringChecks` states, as assumptions evaluated by
`benchmark`: `MatchingIsMaximum` (against all subsets of pairs), `TablesAddUp`,
`DeduplicationIsSafe`, `GateProtects` (that a candidate has reviewed every case holds below 50
cases: the gate is 98 %), `GrowthBounded`, `RankingIsOrder`.

### Webhooks

`versions` of the pull request say of each of its lines (path and number) which push put
there what stands there now; a push changes one of the sets in `Changes`, and an insertion
changes all lines below it. `deliveries` are what
GitHub has to send, `webhooks` the claims, `handler[h]` the requests under way,
`tasks`, `queued` and `reports` the tasks with the version their diff was fetched at.
`Push`, `Receive` (once more or for the first time), `Claim`, `Refuse`,
`CreateTask`, `Submit`, `Complete`, `Break`; `Fetch` and `Report` are the review, at its head of
then. Payloads that are ignored and that raise are both "refused". Queue and harness
are not repeated here: a queued task is reviewed at last or not at all.

### Fixes, MCFixes

EXTENDS Webhooks. `fixer[f]` is a request of `create_fix`: the head it read (`sha`),
the lines its report names (`found`), the files it has still to read and those it has
planned, line by line; `branches` and `drafts` are GitHub's. `ReadFile` edits whatever stands
now at a reported number, or leaves it: a line so edited holds `Edited`, the others what the
file held when it was read, and a file without edits is not planned. `StartFix`, `ReadFile`, `Verify`
(archive of the head that was read, compile, test; an empty plan ends the request),
`Publish` (commit on that head and
the branch), `Draft`, `Abort`. It assumes a configured test command, and a head branch
that only grows. Its specification is `PullSpec`, and its bound on what may go wrong
`MaxFaults`, so that a module may extend it together with `Rollout`; for the same reason
the specification of `AgentTurn` is `TurnSpec` and its retries are `TurnRetries`.

## 4. Runs

All runs pass. A disagreement between code and documents (section 8) is excluded
from the property concerned, by name, and not run as a violation.

| run | question |
|---|---|
| `queue_safety` | Two threads, a message and an entry that is not JSON, any two mishaps: is anything lost, acknowledged early, given up early? (`NoLoss`, `AckCovered`, `AttemptsCounted`, `DeadLetterJustified`) |
| `queue_delivery` | Two threads, a message submitted twice, one mishap, XREADGROUP reliable: does every submission get its outcome (`EventuallySettled`), and does the queue implement `AtLeastOnce`, liveness included (`KeepsPromise`)? |
| `harness_serial` | Two tasks, one of them not parsable, runs of a task one after the other, two failing writes or deaths, cancellations at any time: are completed nodes kept (`CompletedNeverRerun`), does the trace ascend (`TraceAscends`)? |
| `harness_overlap` | Three runs of one task that may overlap, one failing read or death, writes reliable: are the stages recorded in the order of `ALLOWED` (`StagesInOrder`)? |
| `review_serial` | The composition with one worker thread, one mishap anywhere (failing reads included), cancel, resume, replay: does every submitted task end (`NoneLeftBehind`, `EveryTaskEnds`), stay ended unless its reads fail (`FinalStays`) and is its review posted once unless GitHub loses a reply or its first page is full (`CommentedOnce`)? |
| `rollout_release` | Two reviews, one reconfiguration, one mishap: is a verdict earned, does it stand, is it announced, does the candidate keep to its lane (`VerdictEarned`, `VerdictStands`, `RollbackAnnounced`, `CandidateConfined`)? |
| `collaboration` | Two specialists and the fallback on one finding key, agents that fail at will, one failing write or death, a second run by the harness: is the report supported and recorded, is a failure contained, does it end (`PublishedSupported`, `CritiqueCurrent`, `Recorded`, `FailuresContained`, `CollaborationEnds`)? |
| `agent_turn` | Two tasks, a file that changes once, one mishap: does what is published quote what was read, is a task's own memory released, does every turn end (`EvidenceReal`, `MemoryReleased`, `TurnEnds`)? And the assumptions of `ReviewInputChecks` |
| `learning` | Two requests that propose, roll back and reload, on either store, reports that name their rule in upper case, in lower case or not at all, one mishap: does the last activation serve, did it win, is only the learned closed (`LastActivationWins`, `OnlyWinnersServe`, `TakeoverEarned`, `LiveFollows`, `ResolvedIsLearned`)? |
| `annotation` | Two requests on a case, its twin with the same diff or another, and a holdout case, one mishap: are labels earned and blind, do datasets stand, do cases settle (`Labelled`, `Blind`, `DatasetStands`, `Settled`)? |
| `benchmark` | Two processes on one directory, three routes, one edit, one mishap: is the report of what it names, is its cost real, is nothing paid twice (`ReportTrue`, `CostReal`, `PaidOnce`)? And the assumptions of `ScoringChecks` |
| `pull_request` | Two handlers and a repair on a pull request that is pushed to again, above and beside the reported lines, one mishap: does a delivery have its task, was a repair verified as published, is no push taken back but at reported lines (`DeliveryBacked`, `FixVerified`, `NoPushReverted`)? |

What the properties say is stated above each of them. The ones to argue about:

- `AckCovered` is the code's own sentence "ACK only after work completed or was
  safely requeued/DLQed" in a form that survives duplicates: a later entry, not
  acknowledged by anyone in the meantime, must carry the message.
- `AttemptsCounted` and `DeadLetterJustified` say that at-least-once delivery
  never eats attempts, although copies of a message multiply.
- `CompletedNeverRerun` relates the local variables of a run to rows that earlier
  runs left behind.
- `NoneLeftBehind` relates the stream to the tasks: nothing may be waiting for a
  message that is no longer there. It needs the callback to be repeated after a
  death, which only the late acknowledgement guarantees.
- `VerdictEarned` counts attempts that raised, not reviews, because that is what
  the counters count, and takes the observations where the candidate failed on an
  empty report for agreement, because the disagreement of two empty lists of findings
  is 0. It says no more than the code promises, and is false for every nearby way of
  writing the counters that was tried.
- `RollbackAnnounced` is true although the alert is not in the transaction that
  rolls back: a review that died there is delivered again and its next observation
  alerts, whatever the status was before.
- `PublishedSupported` is the strongest form of the verifier's gate that the code
  keeps: a key is only published when some finding of it passed, after all revisions.
- `CritiqueCurrent` depends on the last round being a critique without revisions.
- `FailuresContained` counts attempts: when nothing else is wrong, a review is given
  up only after every assignment has failed in all attempts of two agents.
- `FinalStays` has one exception: a later run of a cancelled task starts from its
  checkpoints, and if it cannot read the store before it has found the request to cancel
  again, it fails the task.
- `CommentedOnce` has two exceptions, a POST whose reply was lost and an issue whose first
  page of comments was full before the review's came.
- `EvidenceReal` needs both reads: the references come from the agent's ledger and
  from the verifier's, and the file may have changed in between.
- `LastActivationWins` says that activations, by whatever path, are as if they had
  happened one after the other; on PostgreSQL it is promised for prompts only.
- `TakeoverEarned` is an action property: a prompt that becomes active beats the one
  that is active at that moment, although the comparison took place earlier.
- `ResolvedIsLearned` says what the code can keep of "only the learned is closed": each
  resolved case has a winning version with its directive, and with its rule wherever the
  report writes it as an identifier; the artifact engine holds the rule in either case.
- `LiveFollows` excepts overlapping reloads that read different versions, where the slower
  one wins, and reloads that fail half-way: in both, the process reviews with an older
  prompt until the next reload.
- `Settled` excepts cases that a mishap hit between two transactions; those stay
  where they are, because UNIQUE refuses the repetition.
- `DatasetStands` has no diff twice in a dataset, and lets one pull request be in it twice.
- `CostReal` compares what a report gives with what the provider ever charged under the
  same key, which no code of the runner can see and no death wipes out. No cost is made
  up, in any behaviour; that none is left out needs that the review was begun once, for what a lost,
  replaced or repeated review cost is in no report.
- `FixVerified` and `NoPushReverted` hold although files are read by the name of a
  branch that moves: the archive that is verified and the commit that is published
  stand on the head that was read first. `NoPushReverted` compares lines, and excepts those
  the report names, for they are edited by number whatever stands there by now.

Each property has a mutant of a mapped definition under which TLC finds it violated;
they are listed in `PROJECT.json`.

## 5. Bounds

- Threads: two in the queue (one more adds no new pair of positions on an entry);
  one in `review_serial` (with two, `FinalStays` is false, section 8); one runner in
  `harness_serial`, two in `harness_overlap`; two requests in `learning` and
  `annotation`, two processes in `benchmark`, two handlers and one fixer in
  `pull_request`: every property there relates two actors at most.
- Messages: one real and one undecodable, since the queue never relates two
  messages except by their order in a batch (`ClaimBatch = 2` lets a claimed batch
  contain both, and a failure abandon the second).
- Attempts: 2 in the queue (a first failure that is retried, a second that is given
  up), 1 in `rollout_release` (a redelivery then comes only from deaths; with two
  reviews that is enough for one review to be counted twice, and more attempts
  only make the state space larger).
- `harness_serial`: node retries 1 and `MaxSteps` 4: three nodes and one retry fit
  the budget, two retries do not, so that the budget is met at every node; `MaxRuns`
  3 and `MaxUpsets` 2, so that the third run resumes what a second left half-done.
  `harness_overlap` and the composition use no retry and three steps, and `harness_overlap`
  one upset: the overlap of three runs makes the disorder, and the upset may be any death or
  failing read in it.
- Mishaps: two in the queue and the harness (one to duplicate, one to interrupt
  the recovery), one in the larger compositions. The safety properties of
  `review_serial` were also checked with two mishaps (2.0 million states).
- `min_samples` 2 and rates of 40 %: one error or disagreement in two is over the
  limit, none is under it, one in three is under it. Two calls of `configure`: the
  second one meets reviews assigned under the first.
- `collaboration`: one finding key (keys meet only in the order in which revisions are
  asked for); one specialist of two domains and one of all, so that the substitute
  is once the other specialist and once the fallback; `agent_retries` 1 and
  `collaboration_rounds` 2 are the code's defaults. It also holds with two mishaps.
- `agent_turn`: a file of two lines of which the diff adds one, a radius of one line,
  two texts, one update of the checkout, two steps and two attempts, and one thing to
  say, so that the two tasks' memories always share their row. The diffs, hunks and budgets
  of `ReviewInputChecks` are all those of a few lines.
- `learning`: two failure cases and two versions per chain (one to serve, one to take
  over), three calls (a proposal, a second one and a rollback), one mishap, both
  stores; every lesson adds to the score, so that each candidate may win or lose by
  `Gates`; one rule, and three ways to name it: as an identifier, in lower case, not at all.
- `annotation`: a case, its twin under another spelling of the repository and one of
  the holdout split; two annotators and a manager; two labels; two diffs of the twins; six calls
  (import, two answers, decision, reading and export); one mishap. A database may start with
  the twins imported, one of them approved and the other answered once, so that six calls
  also reach two final twins and an export of both.
- `benchmark`: an invocation runs a local route and one that calls the model, or one on which
  agents do (two calls a review, one case); of the former, the first case and both, one
  repair; two invocations, one edit, one mishap.
- `pull_request`: a file of two lines and one of one, with a finding in each; two
  versions, of which the second inserts a line above the others or changes both files; two
  tasks, two names of branches, one mishap.

`SYMMETRY` is used in runs without liveness only, for actors that no definition
distinguishes (in `annotation` also for the annotators and the labels, in
`pull_request` for branches). `VIEW Unnumbered` (review run) drops the step
numbers of the trace, the queue's counters of failures and the history `refused`,
which no guard of the composition reads except through values the view keeps; `VIEW
Relevant` (release run) drops local variables that are not read any more. Two states
with the same view have the same enabled steps up to the dropped parts, so paths, and
with them the liveness property, are preserved; and a property that reads a dropped
part is violated, if at all, in the state where that part is set, before it is dropped
(`CandidateConfined` when the reviewer is chosen).

Deadlock is checked except where the system may really stop: the threads of
`queue_safety` may all have ended, the runs of the harness are used up, all reviews of
`Rollout` are done, a collaboration has returned, all tasks of `agent_turn` are
completed, and in `learning`, `annotation`, `benchmark` and `pull_request` the users
have made all the calls the bound allows them.

## 6. Fairness

`TaskQueue!FairSpec` assumes, for each thread, strong fairness of its own steps and
of the handler; weak fairness of `Restart`; weak fairness of `LeaseExpires` for
entries nobody holds. A thread of a running process is scheduled; the handler
ends because the harness has a time limit and HTTP calls have timeouts; a dead
container is restarted (`docker-compose.yml`, `restart: unless-stopped`); time
passes. Strong rather than weak, because `close()` takes a thread down at the head
of its loop, and a system in which every process is stopped before its first call
for ever is not the one meant. Nothing is assumed about users and producers, about
leases that expire under a live handler, or about mishaps, which are bounded.

`ReviewService!FairSpec` assumes weak fairness per worker for steps of queue,
handler and callback together (there is no `Close` in it), and the same about
restarts and leases. The choice between a step that succeeds and one that fails
(`NodeRaises`, `CommentFails`, `FetchFails`) is never fair: the review may fail every
time, and then the dead letter must close the task.

`Collaboration!FairSpec` assumes weak fairness of `Step`: an agent's call ends, by
the limits of its tool loop and of its HTTP requests, and threads run. Whether it
answers or raises is never fair; nothing is assumed about `TryAgain`.

`AgentTurn!FairTurnSpec` assumes weak fairness of `TurnStep` per task: model calls, tools and
writes come back, by their time limits. What the model answers is never fair; only the
budget of steps and attempts ends the loop.

`Learning`, `Annotation`, `Benchmark` and `Fixes` state no fairness: each request may
stop for good, and their properties are of safety.

## 7. Proofs

TLAPS checks the following for every value of the constants: for any sets of
messages, threads, tasks, reviews, users, cases and versions, finite or infinite, and
any bounds, that satisfy the named assumptions of the modules (`ConstantsAssumption`,
`HarnessAssumption`, `ServiceAssumption`, `RolloutAssumption`, `CollaborationAssumption`,
`AgentTurnAssumption`, `LearningAssumption`, `AnnotationAssumption`,
`WebhooksAssumption`, `FixesAssumption`, `BenchmarkAssumption`). TLC evaluates each of
them in a run. They say what the constants are, with two that carry weight:
`RolloutAssumption` takes both rates for natural numbers (of percent), which the schema
of the request ensures (`codeevo/api_schemas.py:110`), and `CollaborationAssumption` takes the
specialists for distinct, the domains of each for a finite set, and the rounds of
deliberation for at least one.

The theorems marked (1) have the hypothesis `OneWorker`, that there is one worker
thread. It is needed: with two workers, one submission and two mishaps TLC finds each
of the three violated, by a lease that runs out under a live review (section 8).

| module | theorem | statement |
|---|---|---|
| `TaskQueue_proofs` | `TypeCorrect` | `Spec => []TypeOK` |
| | `NothingLost` | `[]NoLoss` |
| | `AckAfterOutcome` | `[]AckCovered` |
| | `NoEarlyDeadLetter` | `[]DeadLetterJustified` |
| | `AttemptsReal` | `[]AttemptsCounted` |
| | `ImplementsAtLeastOnce` | `Spec => Promise!Safety` |
| `ReviewHarness_proofs` | `HarnessTypes` | `[]TypeOK` |
| | `NodesRunOnce` | `CompletedNeverRerun`, if runs of a task exclude each other |
| | `TracesAscend` | `[]TraceAscends`, likewise |
| | `FinalsStay` | SUCCESS with its report is final, and CANCELLED but for `Unreadable` runs, likewise |
| | `StagesHold` | `StagesInOrder`, if writes do not fail |
| `ReviewService_proofs` | `ServiceTypes` | `[]TypeOK` |
| | `ServiceFinalStays` | `FinalStays` (1) |
| | `NobodyLeftBehind` | `[]NoneLeftBehind` (1) |
| | `CommentsOnce` | `[]CommentedOnce` (1) |
| `Agents_proofs` | `CollaborationTypes` | `[]TypeOK` |
| (`Collaboration`) | `OnlySupportedPublished` | `[]PublishedSupported` |
| | `CritiqueIsCurrent` | `[]CritiqueCurrent` |
| | `EverythingRecorded` | `[]Recorded` |
| | `FailuresAreContained` | `[]FailuresContained` |
| (`AgentTurn`) | `EvidenceIsReal` | `[]EvidenceReal` |
| | `MemoryIsReleased` | `[]MemoryReleased` |
| `Delivery_proofs` | `RolloutTypes` | `[]TypeOK` |
| (`Rollout`) | `VerdictsStand` | `VerdictStands` |
| | `VerdictsEarned` | `VerdictEarned` |
| | `CandidateStaysInLane` | `[]CandidateConfined` |
| | `RollbackIsAnnounced` | `[]RollbackAnnounced` |
| (`Fixes`) | `DeliveriesBacked` | `[]DeliveryBacked` |
| | `RepairsVerified` | `[]FixVerified` |
| | `PushesKept` | `[]NoPushReverted` |
| `Annotation_proofs` | `LabelsEarned` | `[]Labelled` |
| | `DatasetsHold` | `DatasetStands` |
| | `AnswersBlind` | `[]Blind` |
| | `CasesSettle` | `[]Settled` |
| `Learning_proofs` | `LastServes` | `[]LastActivationWins` |
| | `WinnersServe` | `[]OnlyWinnersServe` |
| | `LessonsLearned` | `[]ResolvedIsLearned` |
| | `TakeoversEarned` | `TakeoverEarned` |
| | `ReviewsFollow` | `[]LiveFollows` |
| `Benchmark_proofs` | `ReportsTrue` | `[]ReportTrue` |
| | `CostsAreReal` | `[]CostReal` |
| | `ReviewsPaidOnce` | `PaidOnce` |

**TaskQueue_proofs.** The type invariant is inductive as it stands; it is proved by
its three parts (streams, threads, histories), each with the actions that touch it.
Neither `NoLoss` nor `AckCovered` is inductive alone. A step that acknowledges an
entry keeps `NoLoss` only because `AckCovered` knows another carrier; and
`AckCovered` itself must survive other threads' acknowledgements, of that very
carrier included. The inductive invariant `Delivery` is their conjunction, and the
argument is a single order: the carrier required by `AckCovered` is a *later* entry,
so if some thread acknowledges it, that thread's own instance of `AckCovered` gives a
later one still; the step loses at most one entry and every appended entry is later
than all. `Patience` (`AttemptsCounted` and `DeadLetterJustified`) is inductive over
the records of failures and refusals, which only grow. `Sourced` (an entry's message
was submitted) supports the refinement: a completion or a dead letter is then a step
of `AtLeastOnce` for an accepted message, an enqueue is `Accept`, everything else
stutters.

**ReviewHarness_proofs.** Lemma `StepMoves` gives all actions of a run one shape,
`Moves`: the run goes to a new record, the rows of its task to new rows, nothing else
changes. `Typed` adds to the types that a run's step number is at most the budget, and
where its nodes stand. With runs that exclude each other, `Serial` is inductive: a task
has one run (`Alone`), whose number is ahead of its trace (`Ahead`), and a run that
begins takes its completed nodes from the rows (`Fresh`). The order of the stages
needs another invariant, `Staged`, since it is about runs that overlap: what a run
believes to be recorded is recorded (`Shown`, `Backed`), because recorded stages only
advance and no write is lost.

**ReviewService_proofs.** The composition is proved from the lemmas of its parts: both
proof modules are instantiated in the service's variables, and each action of the
service is shown to be a step of the queue or a stutter of it, and a step of the harness,
or one of the few other writes of the store. The types need no more. With one
worker, the runs exclude each other, which is what the harness's `Serial` and `Finals`
ask for. `Sound` adds what relates the parts: the entries a thread holds are
pending until it acknowledges them itself (`Holding`), and what is true of its task at
each place of the handler and of the callback (`Doing`), of which two clauses
matter most: the step number that `_on_dead_letter` read is still ahead of the
trace when it writes, and an entry is acknowledged only if its task has ended or another live
entry carries it.

**Agents_proofs, the collaboration.** `Sound` says what has been recorded of an invocation and
where it can go on from (`Invoked`), how many attempts of an assignment have
failed at each of its stages, the stand-in's on top of the first agent's (`Counted`), that each
claim was told by somebody and each revision too (`Sourced`), and that what is decided of
a key rests on its last claim (`Decided`), which no revision can follow once the
evidence is taken. That there is a substitute whenever the code finds one is
existence of a least number among the ranks of the candidates (`Least`).

**Agents_proofs, the turn.** `Evident` holds the quote of a finding to the ledger of its own
turn (`Quoted`) from the moment it is stated, through the second read, to the verdict.
`Released` states for each task that its summary is a row from the archive on; a
release keeps it, because only working memories of its own are deleted (`Tends`).

**Delivery_proofs, the releases.** `TypeOK` contains `errors <= samples` and that a review that has
used its attempts is dead. `VerdictStands` follows from the steps directly: only
`Configure` and a row whose status is "running" change the status. `Confinement`
strengthens `CandidateConfined` by what holds between the two reads: a review about to
pick the candidate is in the canary lane, or the deployment is still promoted, or it
was reconfigured in between; and a promoted deployment names a promoted version.
`Announcement` strengthens `RollbackAnnounced` by excluding the phase "comment": a
review that has passed its observation of a rolled-back deployment has announced it,
so the witness must be one that is still to observe.
`Earning` is why `VerdictEarned` holds although a review is counted once per attempt: an
attempt on its way from raising to the observation is a member of the set `Raising`, and
the errors counted plus the members of that set are at most the attempts that raised
(`Booked`), so that no attempt is counted twice; every shadow observation is of exactly one
kind. The verdict itself is read off the step that writes it.

**Delivery_proofs, intake and repairs.** `Intaken` knows that a claim that was answered has a task
(`Claims`), that each task has one delivery (`Origins`) and a diff of a version that was
pushed (`Diffs`). `Repaired` carries what a request of the fixer has read:
`Growing` (what stands at a line is never older than what stood there before), `Planning` (the
planned lines are no older than at the head the request began with, but for edits of
reported lines: `Keeps`) and `Published`.

**Annotation_proofs.** `Sure` is one invariant for three properties: the tables, for
each case what its rows imply of each other (`Rows`), that datasets stand, and that
what a request has read is still true (`Informed`, `Shown`), because rows are only added
and the statuses only move on. `Settling` then follows cases to the end of the
transactions: a case whose status lags behind its rows is due to some request (`Due`), or
broken; lemma `Handover` passes the duty from one request to another that found the
work done.

**Learning_proofs.** `Sure` joins the books (the tables, and the properties
`LastActivationWins`, `OnlyWinnersServe` and `ResolvedIsLearned` themselves) with what
each request carries: facts that stay true because versions and cases are only added
(`Knows`), whoever writes, and facts that stay true because the request holds the
lock of its chain (`Holds`). The cases a proposal resolves are in its candidate by
`PromptReflects` and `SkillReflects`; the second says that the oldest case of a rule
decides, and rests on the existence of a least number. `TakeoverEarned` follows from
`Holds` at the insert. `Owed` strengthens `LiveFollows`: unless `stray`, the process
already reviews with what was activated last or some request still owes the reload,
and a request that is about to register something older is followed by one that owes
it.

**Benchmark_proofs.** `Sure` says for each process that its results and what is left
to do make up all selected cases by all routes, each result being of what the process
read when it began (`Whole`), and of the checkpoint files that each is filed under
what it is a result of, the history `saved` being a summary of them (`Filed`). That the
plan of an invocation covers the product of routes and cases is division with
remainder (`Split`, `Join`). `Priced` follows the meter: what it has missed, calls
without an answer and answers without a usage, it has missed for good (`Since`), so that
a meter that finds itself complete after a case has counted all that this review was charged
(`Counted`). Every result and every file with a cost then has at most what was ever billed
under its key, and exactly that unless a review was begun again under it (`Honest`,
`HonestFiles`); the second half rests on `Alone`: of a key that is not repeated there is one
review, in one place, under way or reported. The sum of a report is equal because its terms
are, for which the fold need not be evaluated.

Only model-checked: liveness (`EventuallySettled`, `EveryTaskEnds`,
`CollaborationEnds`, `TurnEnds`) and the liveness half of `KeepsPromise`, since fairness
and ENABLED are outside the prover, and what the pure operators of `Scoring` and
`ReviewInput` compute, since that is by induction over data. Every other property of
the runs is a theorem.

## 8. Disagreements between code and documents

Each was met while the code was modelled, and the property next to it leaves it out by
name.

1. `docs/DEPLOYMENT.md:63` expects connections to recover by themselves when Redis is
   away; XREADGROUP stands outside every `try` (`task_queue.py:106`), so one failed call
   ends the thread and nothing starts it again. `queue_delivery` assumes that it does
   not fail.
2. `ALLOWED` gives SUCCESS no successor, but `store.fail` does not look at the state
   (`harness.py:102`); with the default lease of 60 s and reviews of up to 120 s
   (`service.py:133`), a second thread's failure overwrites SUCCESS. `FinalStays` is
   checked with one thread. So are `NoneLeftBehind` and `CommentedOnce`: two threads with
   one entry may write a running state over a closed task that no entry carries any more, and
   both find no comment before either posts one.
3. "Instead of creating duplicates" (`github.py:52`), but `_request` repeats a POST whose
   reply was lost (`github.py:101`), and the marker is searched in the first 100 comments
   only (`github.py:54`), so that a redelivery posts a second time where others had filled
   them; `CommentedOnce` excepts both.
4. `README.md:381` says that a candidate that has not passed cannot enter shadow or
   canary; the gate stands at `configure` with traffic, and a review that is already
   in the canary lane runs with whatever candidate is named later (`service.py:194`).
5. `README.md:665` has the verifier enforce confidence, evidence and safety of the
   remediation; decisions are kept by key, the last finding's, and the arbiter
   publishes the first finding of an approved key (`agents.py:428`), which may be one
   the verifier refused.
6. `_transition` (`harness.py:181`) advances its own state before the write, so a node
   retried after a failing write records nothing and a task reaches EXECUTING from
   PENDING, against the path in `docs/ARCHITECTURE.md:29`. `StagesInOrder` is checked
   and proved with reliable writes.
7. Deliveries are promised to be idempotent (`docs/ARCHITECTURE.md:12`,
   `README.md:156`); a claim whose handling failed is never taken up again
   (`service.py:480`): the redelivery is answered as a duplicate and no review follows.
8. `docs/ARCHITECTURE.md:53` lets only candidates that passed be activated; the rollback
   of prompts (`evolution.py:488`) accepts every version, rejected and deferred ones too.
9. On PostgreSQL, a rollback of an artifact that waits for a concurrent save clears
   only the rows that were active when it began (`postgres_store.py:476`): two stay
   active, and the saved one serves. `LastActivationWins` excepts artifacts there.
10. Of two reloads at the same time, the one that read the older prompt may register
    last (`service.py:270`), and a reload whose registry raises (`skills.py:150`, called at
    `service.py:273`) leaves the reviewer of before, with the new version active in the
    store; `LiveFollows` excepts both.
11. `ALLOWED` gives CANCELLED no successor either, but a run whose read of the checkpoints or
    of the request to cancel raises (`runtime.py:155`, `runtime.py:165`) goes to the except
    clause that fails the task (`harness.py:100`). `FinalStays` excepts it.
12. The diff "owns" its share of the tokens (`context_manager.py:153`), but when not even one
    hunk fits, the first is cut by characters and its header is not counted
    (`context_manager.py:120`): `DiffFits` excepts diffs none of whose hunks fit. The guard of
    `compose` cuts at the window all the same.

Limits that no document contradicts: a pending entry that is not JSON makes
`_reclaim_stale` abandon the rest of its batch every time (`task_queue.py:136`), and
entries that always become stale with it wait behind it; a task that is resumed is
queued without its pull request, so that no comment is posted (`service.py:584`); the
alerts of skills are never closed, so a second rollback of the same skill raises none
(`store.py:1230`); an annotation that was inserted but not counted cannot be repeated,
because UNIQUE refuses it (`annotation.py:198`); a removed line that begins with "-- " is
counted as a line of the new file (`diff_parser.py:43`), and an added line that begins with
"++" is counted and not recorded (`diff_parser.py:40`) or, if it begins with "++ ", taken
for the head of a file (`diff_parser.py:25`; `LinesNumbered` excepts these); the
14 bytes of a context's label are not part of its budget (`context_manager.py:236`;
`ContextFits` adds them); a working memory that two tasks share keeps the id of the task that
wrote it first and is deleted with that task, while the other may still work with it
(`store.py:481`, `store.py:514`); a dataset may hold one pull request twice, with the diffs of
before and after a push, because an export compares diffs and the import's lookup takes note of
case (`evaluation_dataset.py:251`, `annotation.py:122`); the prompt engine filters missed rules by a
pattern (`evolution.py:519`) and then resolves every case it was given (`evolution.py:551`),
those too whose rule is in lower case or missing and whose lesson is the directive of their
category alone (`ResolvedIsLearned` asks for no more); a benchmark's totals leave out what
was charged for a review that died, that `--retry-failures` replaced or that another process
repeated (`benchmark_runner.py:547`); a repair edits what stands at the number of a finding
by now, which may have been pushed after the review, and a Python file repaired by its
syntax tree loses comments and layout (`fixer.py:15`).

## 9. Not modelled

- Authentication (calls of a library) and the login limiter, which checks and records
  in two calls (`rate_limit.py:9`) but keeps nothing else; users, sessions, schema and
  migrations of the stores; AlertManager.
- The in-memory queue (a loop over attempts without persistence), the synchronous review
  path, and the consumer names of pending entries.
- The index of symbols, its cache and the search and syntax tools of the workspace: an
  agent's tools are a read with evidence or an observation without.
- Prompts and the wording of findings; latencies, prices and rounding in the
  evaluation; statistics of the annotators' agreement.
- The signature, replay window and tenants of webhooks, which decide only whether a
  payload is refused; what a repair's edits put in the place of a line.
- The sandbox's process isolation, which is the operating system's; formatting,
  metrics, logs, the web client and the demo.
- Differences between the SQLite and PostgreSQL stores, except in `Learning`: elsewhere
  they offer the same transactions.

## 10. Running it

    tlc -workers 2 -config queue_safety.cfg MCTaskQueue
    tlc -workers 2 -config queue_delivery.cfg MCTaskQueue
    tlc -workers 2 -config harness_serial.cfg MCReviewHarness
    tlc -workers 2 -config harness_overlap.cfg MCReviewHarness
    tlc -workers 2 -config review_serial.cfg MCReviewService
    tlc -workers 2 -config rollout_release.cfg MCRollout
    tlc -workers 2 -config collaboration.cfg MCCollaboration
    tlc -workers 2 -config agent_turn.cfg MCAgentTurn
    tlc -workers 2 -config learning.cfg MCLearning
    tlc -workers 2 -config annotation.cfg MCAnnotation
    tlc -workers 2 -config benchmark.cfg MCBenchmark
    tlc -workers 2 -config pull_request.cfg MCFixes
    for m in TaskQueue ReviewHarness ReviewService Agents Delivery Annotation Learning Benchmark
    do tlapm ${m}_proofs.tla; done

The longest runs take two to three minutes on two cores, the longest proof
(`ReviewHarness_proofs`) about four.
