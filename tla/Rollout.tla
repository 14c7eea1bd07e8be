-------------------------------- MODULE Rollout --------------------------------
(***************************************************************************)
(* The release of a candidate prompt, src/codeevo/rollout.py with its      *)
(* rows in store.py, seen from the queued reviews of service.py: a review  *)
(* is assigned a lane when it is created; much later it chooses the        *)
(* reviewer, lets the candidate review in the shadow, and reports its      *)
(* outcome, and the counters roll the candidate back or promote it.        *)
(*                                                                         *)
(* An action is one transaction of the store; reviews interleave.  What    *)
(* reviewers find is reduced to whether the primary report is empty and    *)
(* whether the candidate agrees with it.  The queue is reduced to its      *)
(* redeliveries: an attempt that raises is counted, one that dies is not.  *)
(* Left out: the direct path, which nothing delivers again, and the alert  *)
(* of AlertManager.                                                        *)
(***************************************************************************)
EXTENDS Integers, FiniteSets

CONSTANTS
    Reviews,          \* task ids
    Versions, Known,  \* candidate versions, and those in skill_versions
    Buckets,          \* hash of a task id, 0 .. 99
    Requests,         \* what configure is called with
    MinSamples,       \* min_samples
    MaxErrorRate, MaxDisagreementRate,   \* in percent
    MaxAttempts,      \* queue_max_attempts
    NoReviewer,       \* no review has run yet
    Stable,           \* the reviewers of the registry
    MaxConfigs,       \* bound: calls of configure
    MaxMishaps        \* bound: deaths and failed writes

RequestType == [version : Versions, status : {"running", "stable"},
                canary : 0 .. 100, shadow : 0 .. 100, auto : BOOLEAN]

ASSUME RolloutAssumption ==
    /\ Requests \subseteq RequestType
    /\ Versions # {} /\ Stable \notin Versions /\ NoReviewer \notin Versions
    /\ MinSamples \in Nat \ {0} /\ MaxErrorRate \in Nat /\ MaxDisagreementRate \in Nat
    /\ MaxAttempts \in Nat \ {0}

VARIABLES
    deployment,  \* the row of deployments; status "none" while there is none
    alerts,      \* alerts of the release
    pc,          \* where each review is
    lane,        \* its release_lane
    shadowed,    \* its shadow flag
    attempts,    \* failed deliveries
    using,       \* the reviewer this attempt has chosen
    report,      \* its primary report, kept when the task is delivered again
    outcome,     \* what came of the candidate's shadow review
    configs, mishaps,
    promoted,    \* history: versions that were promoted
    torn,        \* history: reviews reconfigured between their two reads
    raised,      \* history: attempts of canary reviews that raised
    agreements,  \* history: observations of this deployment where the candidate agreed
    mute,        \* history: and where it failed on an empty report
    missed       \* history: a write failed of an alert, or of an error's observation

rowVars     == <<deployment, alerts>>
reviewVars  == <<pc, lane, shadowed, attempts, using, report, outcome>>
historyVars == <<promoted, torn, raised, agreements, mute, missed>>
vars        == <<rowVars, reviewVars, configs, mishaps, historyVars>>

Writing == {"shadowRecord", "promotionAlert", "shadowAudit", "count", "countAlert", "error", "errorAlert"}
Working == Writing \cup {"candidate", "run", "shadow", "comment"}
AlertPhases == {"promotionAlert", "countAlert", "errorAlert"}

RowType == [status : {"none", "running", "stable", "rolled_back", "promoted"},
            version : Versions, canary : 0 .. 100, shadow : 0 .. 100, auto : BOOLEAN,
            samples : Nat, errors : Nat, shadows : Nat, disagreements : Nat]

TypeOK ==
    /\ deployment \in RowType
    /\ deployment.errors <= deployment.samples
    /\ deployment.disagreements <= deployment.shadows
    /\ alerts \subseteq {"rollout", "rollout-promoted"}
    /\ pc \in [Reviews -> Working \cup {"absent", "queued", "done", "dead"}]
    /\ lane \in [Reviews -> {"stable", "canary"}]
    /\ shadowed \in [Reviews -> BOOLEAN]
    /\ attempts \in [Reviews -> Nat]
    /\ \A r \in Reviews : attempts[r] >= MaxAttempts => pc[r] = "dead"
    /\ using \in [Reviews -> Versions \cup {Stable, NoReviewer}]
    /\ report \in [Reviews -> {"none", "empty", "findings"}]
    /\ outcome \in [Reviews -> {"none", "agreed", "disagreed", "failed"}]
    /\ configs \in Nat /\ mishaps \in Nat
    /\ promoted \subseteq Versions
    /\ torn \subseteq Reviews
    /\ raised \in Nat /\ agreements \in Nat /\ mute \in Nat
    /\ missed \in BOOLEAN

Row(c) ==
    [status |-> c.status, version |-> c.version, canary |-> c.canary, shadow |-> c.shadow,
     auto |-> c.auto, samples |-> 0, errors |-> 0, shadows |-> 0, disagreements |-> 0]

NoRow == Row([status |-> "none", version |-> CHOOSE v \in Versions : TRUE,
              canary |-> 0, shadow |-> 0, auto |-> FALSE])

Init ==
    /\ deployment = NoRow
    /\ alerts = {}
    /\ pc = [r \in Reviews |-> "absent"]
    /\ lane = [r \in Reviews |-> "stable"]
    /\ shadowed = [r \in Reviews |-> FALSE]
    /\ attempts = [r \in Reviews |-> 0]
    /\ using = [r \in Reviews |-> NoReviewer]
    /\ report = [r \in Reviews |-> "none"]
    /\ outcome = [r \in Reviews |-> "none"]
    /\ configs = 0 /\ mishaps = 0
    /\ promoted = {} /\ torn = {} /\ raised = 0 /\ agreements = 0 /\ mute = 0 /\ missed = FALSE

(***************************************************************************)
(* configure: the offline gate stands before shadow and canary traffic,    *)
(* and only there; the new row starts with its counters at zero.           *)
(***************************************************************************)

Configure(c) ==
    /\ configs < MaxConfigs
    /\ configs' = configs + 1
    /\ deployment' = Row(c)
    /\ torn' = torn \cup {r \in Reviews : pc[r] = "candidate"}
    /\ agreements' = 0 /\ mute' = 0
    /\ UNCHANGED <<alerts, reviewVars, mishaps, promoted, raised, missed>>

(***************************************************************************)
(* A review.                                                               *)
(***************************************************************************)

Go(r, phase) == pc' = [pc EXCEPT ![r] = phase]

\* One bucket decides both: with equal percentages they are the same reviews.
Create(r, bucket) ==
    /\ pc[r] = "absent"
    /\ lane' = [lane EXCEPT ![r] =
                  IF deployment.status = "running" /\ bucket < deployment.canary THEN "canary" ELSE "stable"]
    /\ shadowed' = [shadowed EXCEPT ![r] = deployment.status = "running" /\ bucket < deployment.shadow]
    /\ Go(r, "queued")
    /\ UNCHANGED <<rowVars, attempts, using, report, outcome, configs, mishaps, historyVars>>

\* The reviewer whom the attempt runs with.
Use(r, reviewer) ==
    /\ using' = [using EXCEPT ![r] = reviewer]
    /\ Go(r, "run")

\* (Wrong: the candidate of any deployment is used.)
ChooseAlways(r) ==
    /\ pc[r] = "queued"
    /\ Go(r, "candidate")
    /\ UNCHANGED <<rowVars, lane, shadowed, attempts, using, report, outcome, configs, mishaps, historyVars>>

\* _run_review reads the deployment ...
Choose(r) ==
    /\ pc[r] = "queued"
    /\ IF lane[r] = "canary" \/ deployment.status = "promoted"
         THEN Go(r, "candidate") /\ UNCHANGED using
         ELSE Use(r, Stable)
    /\ UNCHANGED <<rowVars, lane, shadowed, attempts, report, outcome, configs, mishaps, historyVars>>

\* ... and _candidate_reviewer reads it again.
PickCandidate(r) ==
    /\ pc[r] = "candidate"
    /\ Use(r, IF deployment.version \in Known THEN deployment.version ELSE Stable)
    /\ UNCHANGED <<rowVars, lane, shadowed, attempts, report, outcome, configs, mishaps, historyVars>>

\* The except clause of _process_queued.
GoError(r) ==
    /\ Go(r, "error")
    /\ raised' = raised + (IF lane[r] = "canary" THEN 1 ELSE 0)

\* The harness returns a report, the stored one if the task has succeeded
\* before, or raises.
RunReview(r) ==
    /\ pc[r] = "run"
    /\ \/ /\ \E found \in {"empty", "findings"} :
               /\ report[r] = "none" \/ report[r] = found
               /\ report' = [report EXCEPT ![r] = found]
          /\ Go(r, IF shadowed[r] THEN "shadow" ELSE "count")
          /\ UNCHANGED raised
       \/ /\ report[r] = "none" /\ GoError(r) /\ UNCHANGED report
    /\ UNCHANGED <<rowVars, lane, shadowed, attempts, using, outcome, configs, mishaps,
                   promoted, torn, agreements, mute, missed>>

(***************************************************************************)
(* _run_shadow.  Everything between the candidate's review and the audit   *)
(* row is in one try, so an error after the observation is recorded makes  *)
(* the except clause record a second one, as failed.                       *)
(***************************************************************************)

ShadowReview(r) ==
    /\ pc[r] = "shadow"
    /\ IF deployment.version \in Known
         THEN /\ \E o \in {"agreed", "disagreed", "failed"} :
                   /\ outcome' = [outcome EXCEPT ![r] = o]
              /\ Go(r, "shadowRecord")
         ELSE Go(r, "count") /\ UNCHANGED outcome
    /\ UNCHANGED <<rowVars, lane, shadowed, attempts, using, report, configs, mishaps, historyVars>>

\* A candidate that failed disagrees with every finding there is.
Differs(r) == outcome[r] = "disagreed" \/ (outcome[r] = "failed" /\ report[r] = "findings")

CountShadow(r) ==
    [deployment EXCEPT !.shadows = @ + 1, !.disagreements = @ + (IF Differs(r) THEN 1 ELSE 0)]

WithinBudget(d) == d.errors * 100 <= MaxErrorRate * d.samples

\* (Wrong: neither the status nor the error budget is looked at.)
EarnsRegardless(d) ==
    /\ d.auto /\ d.shadows >= MinSamples
    /\ d.disagreements * 100 <= MaxDisagreementRate * d.shadows

\* (Wrong: disagreement is not looked at.)
EarnsAtOnce(d) == d.status = "running" /\ d.auto /\ d.shadows >= MinSamples /\ WithinBudget(d)

EarnsPromotion(d) ==
    /\ d.status = "running" /\ d.auto
    /\ d.shadows >= MinSamples
    /\ d.disagreements * 100 <= MaxDisagreementRate * d.shadows
    /\ WithinBudget(d)

Verdict(d, status) == [d EXCEPT !.status = status, !.canary = 0, !.shadow = 0]

\* record_shadow_observation
ShadowRecord(r) ==
    /\ pc[r] = "shadowRecord"
    /\ LET d == CountShadow(r) IN
         IF EarnsPromotion(d) /\ outcome[r] # "failed"
           THEN deployment' = Verdict(d, "promoted") /\ promoted' = promoted \cup {d.version}
           ELSE deployment' = d /\ UNCHANGED promoted
    /\ Go(r, IF deployment'.status = "promoted" THEN "promotionAlert" ELSE "shadowAudit")
    /\ agreements' = agreements + (IF outcome[r] = "agreed" THEN 1 ELSE 0)
    /\ mute' = mute + (IF outcome[r] = "failed" /\ ~Differs(r) THEN 1 ELSE 0)
    /\ UNCHANGED <<alerts, lane, shadowed, attempts, using, report, outcome, configs, mishaps,
                   torn, raised, missed>>

PromotionAlert(r) ==
    /\ pc[r] = "promotionAlert"
    /\ alerts' = alerts \cup {"rollout-promoted"}
    /\ Go(r, "shadowAudit")
    /\ UNCHANGED <<deployment, lane, shadowed, attempts, using, report, outcome, configs, mishaps, historyVars>>

ShadowAudit(r) ==
    /\ pc[r] = "shadowAudit"
    /\ Go(r, "count")
    /\ UNCHANGED <<rowVars, lane, shadowed, attempts, using, report, outcome, configs, mishaps, historyVars>>

(***************************************************************************)
(* observe, once when the review is done, once more in the except clause   *)
(* if that or the comment fails.                                           *)
(***************************************************************************)

CountResult(failed) ==
    [deployment EXCEPT !.samples = @ + 1, !.errors = @ + (IF failed THEN 1 ELSE 0)]

EarnsRollback(d) == d.status = "running" /\ d.samples >= MinSamples /\ ~WithinBudget(d)

\* record_deployment_result, for the canary lane only.
RecordResult(failed) ==
    LET d == CountResult(failed) IN
      deployment' = IF EarnsRollback(d) THEN Verdict(d, "rolled_back") ELSE d

\* (Wrong: the alert is raised only by the observation that rolls back.)
ObserveSilently(r, failed, alerting, next) ==
    /\ RecordResult(failed)
    /\ Go(r, IF deployment'.status = "rolled_back" /\ deployment.status = "running" THEN alerting ELSE next)

Observe(r, failed, alerting, next) ==
    /\ RecordResult(failed)
    /\ Go(r, IF deployment'.status = "rolled_back" THEN alerting ELSE next)

Count(r) ==
    /\ pc[r] = "count"
    /\ IF lane[r] = "canary"
         THEN Observe(r, FALSE, "countAlert", "comment")
         ELSE Go(r, "comment") /\ UNCHANGED deployment
    /\ UNCHANGED <<alerts, lane, shadowed, attempts, using, report, outcome, configs, mishaps, historyVars>>

CountAlert(r) ==
    /\ pc[r] = "countAlert"
    /\ alerts' = alerts \cup {"rollout"}
    /\ Go(r, "comment")
    /\ UNCHANGED <<deployment, lane, shadowed, attempts, using, report, outcome, configs, mishaps, historyVars>>

Comment(r) ==
    /\ pc[r] = "comment"
    /\ \/ Go(r, "done") /\ UNCHANGED raised
       \/ GoError(r)
    /\ UNCHANGED <<rowVars, lane, shadowed, attempts, using, report, outcome, configs, mishaps,
                   promoted, torn, agreements, mute, missed>>

\* The exception reaches the queue: another attempt, or the dead letters.
Requeued(r) == IF attempts[r] + 1 < MaxAttempts THEN "queued" ELSE "dead"
CountAttempt(r) == attempts' = [attempts EXCEPT ![r] = @ + 1]

Error(r) ==
    /\ pc[r] = "error"
    /\ IF lane[r] = "canary"
         THEN Observe(r, TRUE, "errorAlert", Requeued(r))
         ELSE Go(r, Requeued(r)) /\ UNCHANGED deployment
    /\ IF pc'[r] = "errorAlert" THEN UNCHANGED attempts ELSE CountAttempt(r)
    /\ UNCHANGED <<alerts, lane, shadowed, using, report, outcome, configs, mishaps, historyVars>>

ErrorAlert(r) ==
    /\ pc[r] = "errorAlert"
    /\ alerts' = alerts \cup {"rollout"}
    /\ Go(r, Requeued(r)) /\ CountAttempt(r)
    /\ UNCHANGED <<deployment, lane, shadowed, using, report, outcome, configs, mishaps, historyVars>>

(***************************************************************************)
(* A write fails (its transaction is rolled back), or the thread dies.     *)
(***************************************************************************)

Mishap == mishaps < MaxMishaps /\ mishaps' = mishaps + 1

\* Inside the try of _run_shadow; the except clause observes a failure.
ShadowWriteFails(r) ==
    /\ pc[r] \in {"shadowRecord", "promotionAlert", "shadowAudit"} /\ outcome[r] # "failed"
    /\ outcome' = [outcome EXCEPT ![r] = "failed"]
    /\ Go(r, "shadowRecord")
    /\ UNCHANGED <<attempts, raised>>

\* Inside the try of _process_queued.
ReviewWriteFails(r) ==
    /\ \/ pc[r] \in {"shadowRecord", "promotionAlert", "shadowAudit"} /\ outcome[r] = "failed"
       \/ pc[r] \in {"count", "countAlert"}
    /\ GoError(r)
    /\ UNCHANGED <<attempts, outcome>>

\* Inside its except clause.
ErrorWriteFails(r) ==
    /\ pc[r] \in {"error", "errorAlert"}
    /\ Go(r, Requeued(r)) /\ CountAttempt(r)
    /\ UNCHANGED <<outcome, raised>>

WriteFails(r) ==
    /\ Mishap
    /\ ShadowWriteFails(r) \/ ReviewWriteFails(r) \/ ErrorWriteFails(r)
    /\ missed' = (missed \/ pc[r] \in AlertPhases \cup {"error"})
    /\ UNCHANGED <<rowVars, lane, shadowed, using, report, configs, promoted, torn, agreements, mute>>

\* The lease runs out and the entry is delivered again, with its attempt number.
Die(r) ==
    /\ pc[r] \in Working /\ Mishap
    /\ Go(r, "queued")
    /\ UNCHANGED <<rowVars, lane, shadowed, attempts, using, report, outcome, configs, historyVars>>

-----------------------------------------------------------------------------

Review(r) ==
    \/ Choose(r) \/ PickCandidate(r) \/ RunReview(r)
    \/ ShadowReview(r) \/ ShadowRecord(r) \/ PromotionAlert(r) \/ ShadowAudit(r)
    \/ Count(r) \/ CountAlert(r) \/ Comment(r) \/ Error(r) \/ ErrorAlert(r)

Next ==
    \/ \E c \in Requests : Configure(c)
    \/ \E r \in Reviews :
         \/ \E b \in Buckets : Create(r, b)
         \/ Review(r) \/ WriteFails(r) \/ Die(r)

Spec == Init /\ [][Next]_vars

-----------------------------------------------------------------------------
\* PROPERTIES

\* A verdict stands until the next configure: a shadow review that is still
\* under way cannot promote what was rolled back, nor the other way round.
Verdicts == {"rolled_back", "promoted"}
VerdictStands ==
    [][deployment.status \in Verdicts /\ configs' = configs => deployment'.status = deployment.status]_vars

\* A verdict is earned.  A candidate is rolled back for attempts that really
\* raised, out of at least min_samples results, though comment failures, retries
\* and redeliveries count one review several times; it is promoted only if it
\* really agreed with enough of at least min_samples observations, the ones where
\* it failed on a report without findings counted as agreement, as
\* record_shadow_observation takes them.
VerdictEarned ==
    [][/\ deployment.status = "running" /\ deployment'.status = "rolled_back" =>
            /\ deployment'.samples >= MinSamples
            /\ raised' * 100 > MaxErrorRate * deployment'.samples
       /\ deployment.status # "promoted" /\ deployment'.status = "promoted" =>
            /\ agreements' + mute' + deployment'.disagreements >= MinSamples
            /\ (deployment'.shadows - agreements' - mute') * 100
                   <= MaxDisagreementRate * deployment'.shadows]_vars

\* A review outside the canary lane runs with the candidate only if that version
\* was promoted, unless the deployment changed between the two reads.
CandidateConfined ==
    \A r \in Reviews : using[r] \in Versions =>
        lane[r] = "canary" \/ using[r] \in promoted \/ r \in torn

\* A rollback does not pass unnoticed: while there is no alert of it, a review of
\* the canary lane is still to come to its observation, delivered again if the
\* thread that rolled back died, unless the write of the alert failed, or that of
\* the error which would have raised it again.
RollbackAnnounced ==
    deployment.status = "rolled_back" /\ "rollout" \notin alerts /\ ~missed =>
        \E r \in Reviews : lane[r] = "canary" /\ pc[r] \in Working \cup {"queued"}

=============================================================================
