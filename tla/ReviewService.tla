----------------------------- MODULE ReviewService -----------------------------
(***************************************************************************)
(* The asynchronous path of src/codeevo/service.py: a task is created and  *)
(* submitted, a worker of TaskQueue takes the message, fetches the diff if *)
(* it has to, runs ReviewHarness on it and posts the review on GitHub; a   *)
(* message that keeps failing reaches the dead letters, whose callback     *)
(* closes the task; users cancel, resume and replay.                       *)
(*                                                                         *)
(* Composes TaskQueue (whose handler and dead-letter callback are here)    *)
(* and ReviewHarness (each worker thread executes one run at a time).      *)
(* Left out: the synchronous path, the shadow review and the counters of   *)
(* ReleaseManager.observe, metrics and audit rows.  A task record or a     *)
(* stored diff is never deleted, so the two PermanentTaskErrors of         *)
(* _process_queued cannot be raised here.                                  *)
(***************************************************************************)
EXTENDS Integers, Sequences, FiniteSets

CONSTANTS
    Tasks,        \* task ids
    Workers,      \* worker threads
    MaxAttempts, ClaimBatch,             \* of the queue
    MaxSteps, NodeRetries, Unparsable,   \* of the harness
    WriteFaults,  \* whether writes of the task store may fail
    MaxSubmits,   \* bound: submissions per task: the first, resumes, replays
    MaxMishaps    \* bound: deaths, failed calls and statements, leases too short

ASSUME ServiceAssumption ==
    /\ MaxAttempts \in Nat \ {0} /\ ClaimBatch \in Nat \ {0}
    /\ MaxSteps \in Nat \ {0} /\ NodeRetries \in Nat
    /\ Unparsable \subseteq Tasks /\ WriteFaults \in BOOLEAN
    /\ MaxSubmits \in Nat /\ MaxMishaps \in Nat

VARIABLES
    entries, read, pel, stale, dlq, wpc, hand, rest, src,
    owed, completed, refused, failures, submits, mishaps,
    state, report, trace, cancelled, ckpt, cases, run,
    stage,      \* how far the creation of each task has come
    payload,    \* task_payloads: the tasks whose diff is stored
    svc,        \* where each worker is in the handler or the callback
    dlqStep,    \* the step the callback computed from the trace it read
    comments,   \* GitHub: review comments with the task's marker
    page,       \* GitHub: the first 100 comments of the issue, when the review is
                \* posted: have "room", are "full" of others', or hold it, "ours"
    unseen,     \* history: the tasks of which GitHub took a POST and no reply came
    alerts      \* alerts: the tasks with a dead-letter alert

\* A message names its task; "hook" tells the payload of the webhook, with the
\* URLs of the diff and of the issue, from those of the API and of resume_task.
Messages == [task : Tasks, hook : BOOLEAN]

Queue == INSTANCE TaskQueue WITH Foreign <- {}, ReadFaults <- FALSE
Harness == INSTANCE ReviewHarness WITH
    Runners <- Workers, Exclusive <- FALSE, MaxRuns <- 0, runs <- 0,
    MaxUpsets <- MaxMishaps, upsets <- mishaps

queueVars   == <<entries, read, pel, stale, dlq, wpc, hand, rest, src,
                 owed, completed, refused, failures, submits>>
storeVars   == <<state, report, trace, cancelled, ckpt, cases>>
harnessVars == <<storeVars, run>>
serviceVars == <<stage, payload, svc, dlqStep, comments, page, unseen, alerts>>
vars        == <<queueVars, harnessVars, mishaps, serviceVars>>

TypeOK ==
    /\ Queue!TypeOK /\ Harness!TypeOK
    /\ stage \in [Tasks -> {"absent", "created", "saved", "deferred", "submitted"}]
    /\ payload \subseteq Tasks
    /\ svc \in [Workers -> {"idle", "review", "lookup", "post", "patch", "done", "fail", "alert"}]
    /\ dlqStep \in [Workers -> Nat]
    /\ comments \in [Tasks -> Nat]
    /\ page \in [Tasks -> {"room", "full", "ours"}]
    /\ unseen \subseteq Tasks
    /\ alerts \subseteq Tasks

Init ==
    /\ Queue!Init /\ Harness!Init
    /\ stage = [t \in Tasks |-> "absent"]
    /\ payload = {}
    /\ svc = [w \in Workers |-> "idle"]
    /\ dlqStep = [w \in Workers |-> 0]
    /\ comments = [t \in Tasks |-> 0]
    /\ page = [t \in Tasks |-> "room"]
    /\ unseen = {}
    /\ alerts = {}

(***************************************************************************)
(* Requests.  Creating a task takes three calls; the process may die       *)
(* between them, so nothing obliges the next one to follow.                *)
(***************************************************************************)

ApiMessage(t)  == [task |-> t, hook |-> FALSE]
HookMessage(t) == [task |-> t, hook |-> TRUE]
Submissions(t) == submits[ApiMessage(t)] + submits[HookMessage(t)]

CreateTask(t) ==
    /\ stage[t] = "absent"
    /\ stage' = [stage EXCEPT ![t] = "created"]
    /\ UNCHANGED <<queueVars, harnessVars, mishaps, payload, svc, dlqStep, comments, page, unseen, alerts>>

\* The webhook stores no diff yet, but the URL to fetch it from.  The issue of the
\* review, which only such a task has, may be full of comments when it is posted.
CreateDeferredTask(t) ==
    /\ stage[t] = "absent"
    /\ stage' = [stage EXCEPT ![t] = "deferred"]
    /\ UNCHANGED page \/ page' = [page EXCEPT ![t] = "full"]
    /\ UNCHANGED <<queueVars, harnessVars, mishaps, payload, svc, dlqStep, comments, unseen, alerts>>

SavePayload(t) ==
    /\ stage[t] = "created"
    /\ stage' = [stage EXCEPT ![t] = "saved"]
    /\ payload' = payload \cup {t}
    /\ UNCHANGED <<queueVars, harnessVars, mishaps, svc, dlqStep, comments, page, unseen, alerts>>

SubmitTask(t) ==
    /\ stage[t] \in {"saved", "deferred"}
    /\ stage' = [stage EXCEPT ![t] = "submitted"]
    /\ Queue!Submit(IF stage[t] = "deferred" THEN HookMessage(t) ELSE ApiMessage(t))
    /\ UNCHANGED <<harnessVars, payload, svc, dlqStep, comments, page, unseen, alerts>>

ResumeTask(t) ==
    /\ stage[t] # "absent" /\ state[t] # "SUCCESS" /\ t \in payload
    /\ Submissions(t) < MaxSubmits
    /\ Queue!Submit(ApiMessage(t))
    /\ UNCHANGED <<harnessVars, serviceVars>>

CancelTask(t) ==
    /\ stage[t] # "absent"
    /\ Harness!RequestCancel(t)
    /\ UNCHANGED <<queueVars, serviceVars>>

ReplayDeadLetter(m) ==
    /\ Submissions(m.task) < MaxSubmits
    /\ Queue!Replay(m)
    /\ UNCHANGED <<harnessVars, serviceVars>>

(***************************************************************************)
(* _process_queued, the queue's handler.                                   *)
(***************************************************************************)

TaskOf(w) == Queue!InHand(w).task
SvcAt(w, phase) == wpc[w] = "handle" /\ svc[w] = phase
SvcGo(w, phase) == svc' = [svc EXCEPT ![w] = phase]
EndRun(w) == run' = [run EXCEPT ![w] = Harness!Idle] /\ UNCHANGED storeVars

\* The handler ends: the queue decides what becomes of the message.
Return(w) == Queue!HandlerReturns(w) /\ SvcGo(w, "idle") /\ EndRun(w)
Raise(w)  == Queue!HandlerFails(w) /\ SvcGo(w, "idle") /\ EndRun(w)

\* (Wrong: a diff that cannot be fetched is skipped.)
FetchSkipped(w) == Return(w)

FetchFails(w) == Raise(w)

\* A deferred diff is fetched and stored, or the error goes to the queue; the hash
\* and the size that follow in a second statement may fail when it is stored.
FetchDiff(w) ==
    /\ SvcAt(w, "idle") /\ TaskOf(w) \notin payload /\ Queue!InHand(w).hook
    /\ \/ /\ payload' = payload \cup {TaskOf(w)}
          /\ UNCHANGED <<queueVars, harnessVars, mishaps, svc>>
       \/ FetchFails(w) /\ UNCHANGED payload
       \/ WriteFaults /\ payload' = payload \cup {TaskOf(w)} /\ Raise(w)
    /\ UNCHANGED <<stage, dlqStep, comments, page, unseen, alerts>>

\* The task or its diff cannot be read.
ReadTaskFails(w) ==
    /\ SvcAt(w, "idle")
    /\ Raise(w)
    /\ UNCHANGED <<stage, payload, dlqStep, comments, page, unseen, alerts>>

StartReview(w) ==
    /\ SvcAt(w, "idle") /\ TaskOf(w) \in payload
    /\ Harness!Begin(w, TaskOf(w))
    /\ SvcGo(w, "review")
    /\ UNCHANGED <<queueVars, stage, payload, dlqStep, comments, page, unseen, alerts>>

ReviewStep(w) ==
    /\ SvcAt(w, "review")
    /\ Harness!Advance(w)
    /\ UNCHANGED <<queueVars, serviceVars>>

ReviewRaised(w) ==
    /\ SvcAt(w, "review") /\ Harness!At(w, "raised")
    /\ Raise(w)
    /\ UNCHANGED <<stage, payload, dlqStep, comments, page, unseen, alerts>>

ReviewReturned(w) ==
    /\ SvcAt(w, "review") /\ Harness!At(w, "returned")
    /\ IF Queue!InHand(w).hook
         THEN SvcGo(w, "lookup") /\ UNCHANGED <<queueVars, harnessVars, mishaps>>
         ELSE Return(w)
    /\ UNCHANGED <<stage, payload, dlqStep, comments, page, unseen, alerts>>

\* The outcome cannot be counted for the release: an error after the success.
ObserveFails(w) ==
    /\ WriteFaults /\ SvcAt(w, "review") /\ Harness!At(w, "returned")
    /\ Raise(w)
    /\ UNCHANGED <<stage, payload, dlqStep, comments, page, unseen, alerts>>

LookupFinds(w, found) ==
    /\ SvcAt(w, "lookup")
    /\ SvcGo(w, IF found THEN "patch" ELSE "post")
    /\ UNCHANGED <<queueVars, harnessVars, mishaps, stage, payload, dlqStep, comments, page, unseen, alerts>>

\* (Wrong: the marker is never found.)
LookupMisses(w) == LookupFinds(w, FALSE)

\* upsert_comment: look for the task's marker in the first 100 comments of the
\* issue, which are the oldest ones, then PATCH or POST.
LookupComment(w) == LookupFinds(w, page[TaskOf(w)] = "ours")

AddComment(w) ==
    /\ comments' = [comments EXCEPT ![TaskOf(w)] = @ + 1]
    /\ page' = [page EXCEPT ![TaskOf(w)] = IF @ = "room" THEN "ours" ELSE @]

PatchComment(w) ==
    /\ SvcAt(w, "patch")
    /\ SvcGo(w, "done")
    /\ UNCHANGED <<queueVars, harnessVars, mishaps, stage, payload, dlqStep, comments, page, unseen, alerts>>

PostComment(w) ==
    /\ SvcAt(w, "post")
    /\ AddComment(w)
    /\ SvcGo(w, "done")
    /\ UNCHANGED <<queueVars, harnessVars, mishaps, stage, payload, dlqStep, unseen, alerts>>

\* _request sees a timeout or a 5xx, whatever GitHub did, and sends it again.
ReplyLost(w) ==
    /\ SvcAt(w, "post") /\ Harness!Upset
    /\ AddComment(w)
    /\ unseen' = unseen \cup {TaskOf(w)}
    /\ UNCHANGED <<queueVars, harnessVars, stage, payload, svc, dlqStep, alerts>>

\* All attempts failed, without an effect.
CommentFails(w) ==
    /\ \E phase \in {"lookup", "post", "patch"} : SvcAt(w, phase)
    /\ Raise(w)
    /\ UNCHANGED <<stage, payload, dlqStep, comments, page, unseen, alerts>>

ReviewDone(w) ==
    /\ SvcAt(w, "done")
    /\ Return(w)
    /\ UNCHANGED <<stage, payload, dlqStep, comments, page, unseen, alerts>>

(***************************************************************************)
(* _on_dead_letter: read the task, close it if it is still open, alert.    *)
(***************************************************************************)

ReadDeadAnd(w, closed) ==
    /\ wpc[w] = "callback" /\ svc[w] = "idle"
    /\ IF closed
         THEN SvcGo(w, "alert") /\ UNCHANGED dlqStep
         ELSE /\ SvcGo(w, "fail")
              /\ dlqStep' = [dlqStep EXCEPT ![w] = Harness!LastStep(TaskOf(w)) + 1]
    /\ UNCHANGED <<queueVars, harnessVars, mishaps, stage, payload, comments, page, unseen, alerts>>

\* (Wrong: the callback only raises the alert; it takes a finished task for open.)
ReadDeadAlertOnly(w) == ReadDeadAnd(w, TRUE)
ReadDeadFinished(w)  == ReadDeadAnd(w, FALSE)

ReadDeadTask(w) == ReadDeadAnd(w, state[TaskOf(w)] \in Harness!Final)

FailDeadAs(w, s) ==
    /\ wpc[w] = "callback" /\ svc[w] = "fail"
    /\ Harness!Record(TaskOf(w), dlqStep[w], s)
    /\ UNCHANGED <<report, cancelled, ckpt, cases, run, mishaps>>
    /\ SvcGo(w, "alert") /\ dlqStep' = [dlqStep EXCEPT ![w] = 0]
    /\ UNCHANGED <<queueVars, stage, payload, comments, page, unseen, alerts>>

FailDeadTask(w) == FailDeadAs(w, "FAILED")

RaiseAlert(w) ==
    /\ wpc[w] = "callback" /\ svc[w] = "alert"
    /\ alerts' = alerts \cup {TaskOf(w)}
    /\ SvcGo(w, "idle")
    /\ Queue!Callback(w)
    /\ UNCHANGED <<harnessVars, stage, payload, dlqStep, comments, page, unseen>>

(***************************************************************************)
(* The queue's own steps, and what interrupts a thread anywhere.           *)
(***************************************************************************)

QueueStep(w) ==
    /\ \/ Queue!ReclaimStale(w) \/ Queue!ReadNew(w) \/ Queue!Requeue(w)
       \/ Queue!Bury(w) \/ Queue!Ack(w)
    /\ UNCHANGED <<harnessVars, serviceVars>>

QueueFault(w) ==
    /\ \/ Queue!ClaimFault(w) \/ Queue!RequeueFault(w) \/ Queue!BuryFault(w)
       \/ Queue!AckFault(w)
    /\ UNCHANGED <<harnessVars, serviceVars>>

\* The thread is taken out of handler or callback; the store stays as it is.
Interrupt(w) ==
    /\ SvcGo(w, "idle") /\ EndRun(w)
    /\ dlqStep' = [dlqStep EXCEPT ![w] = 0]
    /\ UNCHANGED <<stage, payload, comments, page, unseen, alerts>>

Crash(w)         == Queue!Crash(w) /\ Interrupt(w)
CallbackFails(w) == Queue!CallbackFault(w) /\ Interrupt(w)

Restart(w) == Queue!Restart(w) /\ UNCHANGED <<harnessVars, serviceVars>>

LeaseExpires(i) == Queue!LeaseExpires(i) /\ UNCHANGED <<harnessVars, serviceVars>>

Handle(w) ==
    \/ FetchDiff(w) \/ ReadTaskFails(w) \/ StartReview(w) \/ ReviewStep(w) \/ ReviewRaised(w) \/ ReviewReturned(w)
    \/ ObserveFails(w) \/ LookupComment(w) \/ PatchComment(w) \/ PostComment(w) \/ CommentFails(w) \/ ReviewDone(w)
    \/ ReadDeadTask(w) \/ FailDeadTask(w) \/ RaiseAlert(w)

Request(t) ==
    \/ CreateTask(t) \/ CreateDeferredTask(t) \/ SavePayload(t) 
    \/ SubmitTask(t) \/ ResumeTask(t) \/ CancelTask(t)

Next ==
    \/ \E t \in Tasks : Request(t)
    \/ \E m \in Messages : ReplayDeadLetter(m)
    \/ \E w \in Workers :
         \/ QueueStep(w) \/ Handle(w)
         \/ QueueFault(w) \/ ReplyLost(w) \/ Crash(w) \/ CallbackFails(w) \/ Restart(w)
    \/ \E i \in pel : LeaseExpires(i)

Spec == Init /\ [][Next]_vars

\* As for the queue: threads run, containers are restarted, idle times grow.
Fairness ==
    /\ \A w \in Workers : WF_vars(QueueStep(w) \/ Handle(w)) /\ WF_vars(Restart(w))
    /\ WF_vars(\E i \in pel : ~Queue!Held(i) /\ LeaseExpires(i))

FairSpec == Spec /\ Fairness

-----------------------------------------------------------------------------
\* PROPERTIES

\* No task is left behind: when no entry of the stream carries a submitted task
\* any more, the task is SUCCESS, FAILED or CANCELLED, whatever died or failed in
\* the handler, in the dead-letter callback or between the two.
Carried(t) == \E i \in Queue!Live : entries[i].msg.task = t

NoneLeftBehind ==
    \A t \in Tasks : stage[t] = "submitted" /\ ~Carried(t) => state[t] \in Harness!Final

\* A review is posted once: redeliveries, resumes, replays and deaths between the
\* POST and the XACK find the comment that is there.  Only _request itself, when
\* it repeats a POST whose reply was lost, leaves a second one, or an issue whose
\* first 100 comments others had filled, where the lookup cannot see it.
CommentedOnce == \A t \in Tasks : comments[t] > 1 => t \in unseen \/ page[t] = "full"

\* Nothing the queue, its dead-letter callback or the users do undoes a finished
\* review, and nothing revives a cancelled task but a run that failed to read the
\* store, which leaves it FAILED.
FinalStays == Harness!FinalStays

\* Every submitted task ends.
EveryTaskEnds ==
    \A t \in Tasks : stage[t] = "submitted" ~> state[t] \in Harness!Final

=============================================================================
