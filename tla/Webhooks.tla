------------------------------ MODULE Webhooks ------------------------------
(***************************************************************************)
(* The intake of GitHub's pull_request deliveries                          *)
(* (handle_github_pull_request in service.py): a delivery id is claimed,   *)
(* its payload looked at, a task created and submitted, and the claim      *)
(* completed, each in a transaction or call of its own.  GitHub sends a    *)
(* delivery, and sends it again when somebody asks it to, while the first  *)
(* is being handled or after it has failed.  The review of a task fetches  *)
(* the diff when it runs, of whatever is the head by then.                 *)
(*                                                                         *)
(* Pushes are to one pull request, whose branch only grows.  Signatures,   *)
(* the replay window and tenants are left out: what they refuse changes    *)
(* nothing.  Queue and harness are those of ReviewService: here a task in  *)
(* the queue is reviewed at last or not at all.                            *)
(***************************************************************************)
EXTENDS Naturals, Sequences, FiniteSets

CONSTANTS
    Handlers,       \* requests to /webhooks/github that may be under way together
    Lines,          \* lines of the repository's files: <<path, number>>
    Changes,        \* sets of lines a push may change
    NoTask,         \* no task
    MaxPushes,      \* bound: versions of the pull request
    MaxTasks,       \* bound: tasks
    MaxFaults       \* bound: deaths and failed calls

ASSUME WebhooksAssumption == NoTask \notin Nat /\ MaxPushes \in Nat \ {0} /\ Changes \subseteq SUBSET Lines

\* What the payload of a delivery is found to be.
Kinds == {"supported", "refused"}

VARIABLES
    versions,       \* versions of the pull request: the push that put there what stands at each line
    deliveries,     \* deliveries: the version and the kind of each
    webhooks,       \* webhook_deliveries: from id to task
    handler,        \* where each request stands
    tasks,          \* tasks: the delivery and, once fetched, the version of the diff
    queued,         \* tasks submitted to the queue
    reports,        \* tasks with a report
    faults

intakeVars == <<versions, deliveries, webhooks, handler, tasks, queued, reports>>

Idle == [pc |-> "idle", delivery |-> 0, task |-> NoTask]

\* The pull request is opened.
IntakeInit ==
    /\ versions = <<[l \in Lines |-> 1]>>
    /\ deliveries = <<[version |-> 1, kind |-> "supported"]>>
    /\ webhooks = <<>>
    /\ handler = [h \in Handlers |-> Idle]
    /\ tasks = <<>> /\ queued = {} /\ reports = {}
    /\ faults = 0

HeadVersion == Len(versions)
Fault == faults < MaxFaults /\ faults' = faults + 1
At(h, stage) == handler[h].pc = stage
Proceed(h, next) == handler' = [handler EXCEPT ![h] = next]
rest == <<versions, deliveries, reports, faults>>

-----------------------------------------------------------------------------

\* The author pushes, and GitHub has something to deliver.  What is inserted
\* into a file changes what stands at every number below it.
Push(changed, kind) ==
    /\ HeadVersion < MaxPushes
    /\ versions' = Append(versions, [l \in Lines |-> IF l \in changed THEN HeadVersion + 1 ELSE versions[HeadVersion][l]])
    /\ deliveries' = Append(deliveries, [version |-> HeadVersion + 1, kind |-> kind])
    /\ UNCHANGED <<webhooks, handler, tasks, queued, reports, faults>>

\* A delivery, for the first time or once more.
Receive(h, d) ==
    /\ At(h, "idle")
    /\ Proceed(h, [Idle EXCEPT !.pc = "claim", !.delivery = d])
    /\ UNCHANGED <<rest, webhooks, tasks, queued>>

\* Wrong: a claim that has no task yet is taken for one that failed.
ClaimedIfDone(d) == d \in DOMAIN webhooks /\ webhooks[d] # NoTask

Claimed(d) == d \in DOMAIN webhooks

\* claim_webhook: one INSERT.  A delivery that was claimed is answered with
\* the task of its claim, if it has one.
Claim(h) ==
    LET d == handler[h].delivery
    IN /\ At(h, "claim")
       /\ IF Claimed(d) THEN Proceed(h, Idle) /\ UNCHANGED webhooks
          ELSE /\ webhooks' = [e \in DOMAIN webhooks \cup {d} |-> IF e = d THEN NoTask ELSE webhooks[e]]
               /\ Proceed(h, [handler[h] EXCEPT !.pc = deliveries[d].kind])
       /\ UNCHANGED <<rest, tasks, queued>>

\* complete_webhook
Completed(d, task) == [webhooks EXCEPT ![d] = task]

\* An action that is not reviewed, whose claim is completed without a task; a
\* payload that is not valid or not authorized, which raises.
Refuse(h) ==
    /\ At(h, "refused")
    /\ webhooks' = Completed(handler[h].delivery, NoTask)
    /\ Proceed(h, Idle)
    /\ UNCHANGED <<rest, tasks, queued>>

\* _create_deferred_task
CreateTask(h) ==
    /\ At(h, "supported") /\ Len(tasks) < MaxTasks
    /\ tasks' = Append(tasks, [delivery |-> handler[h].delivery, diff |-> 0])
    /\ Proceed(h, [handler[h] EXCEPT !.pc = "submit", !.task = Len(tasks) + 1])
    /\ UNCHANGED <<rest, webhooks, queued>>

\* queue.submit
Submit(h) ==
    /\ At(h, "submit")
    /\ queued' = queued \cup {handler[h].task}
    /\ Proceed(h, [handler[h] EXCEPT !.pc = "complete"])
    /\ UNCHANGED <<rest, webhooks, tasks>>

Complete(h) ==
    /\ At(h, "complete")
    /\ webhooks' = Completed(handler[h].delivery, handler[h].task)
    /\ Proceed(h, Idle)
    /\ UNCHANGED <<rest, tasks, queued>>

\* A call fails or the process dies: the request ends where it stands.
Break(h) ==
    /\ ~At(h, "idle") /\ Fault
    /\ Proceed(h, Idle)
    /\ UNCHANGED <<versions, deliveries, webhooks, tasks, queued, reports>>

\* _process_queued: a diff that was saved by an earlier run is used again.
Fetch(t) ==
    /\ t \in queued /\ tasks[t].diff = 0
    /\ tasks' = [tasks EXCEPT ![t].diff = HeadVersion]
    /\ UNCHANGED <<rest, webhooks, handler, queued>>

Report(t) ==
    /\ t \in queued \ reports /\ tasks[t].diff # 0
    /\ reports' = reports \cup {t}
    /\ UNCHANGED <<versions, deliveries, webhooks, handler, tasks, queued, faults>>

Intake ==
    \/ \E changed \in Changes, kind \in Kinds : Push(changed, kind)
    \/ \E h \in Handlers :
          \/ \E d \in DOMAIN deliveries : Receive(h, d)
          \/ Claim(h) \/ Refuse(h) \/ CreateTask(h) \/ Submit(h) \/ Complete(h) \/ Break(h)
    \/ \E t \in DOMAIN tasks : Fetch(t) \/ Report(t)

-----------------------------------------------------------------------------
(* Properties. *)

IntakeTypeOK ==
    /\ versions \in Seq([Lines -> 1..MaxPushes])
    /\ \A d \in DOMAIN webhooks : d \in DOMAIN deliveries /\ webhooks[d] \in DOMAIN tasks \cup {NoTask}
    /\ queued \subseteq DOMAIN tasks /\ reports \subseteq queued

\* Idempotency of deliveries: however often one is sent, and whatever fails, one
\* task at most is queued for it, none for one that is not supported, and the
\* task that a repeated delivery is answered with is in the queue, for this
\* delivery, and reviews no version older than the one it was sent for.
DeliveryBacked ==
    /\ \A s, t \in queued : tasks[s].delivery = tasks[t].delivery => s = t
    /\ \A t \in queued : deliveries[tasks[t].delivery].kind = "supported"
    /\ \A d \in DOMAIN webhooks :
          webhooks[d] # NoTask => webhooks[d] \in queued /\ tasks[webhooks[d]].delivery = d
    /\ \A t \in reports : tasks[t].diff >= deliveries[tasks[t].delivery].version

=============================================================================
