---------------------------- MODULE Delivery_proofs ----------------------------
(***************************************************************************)
(* What is let out: a candidate prompt to a part of the reviews, and a     *)
(* repair to a branch.                                                     *)
(*                                                                         *)
(* Rollout, for any numbers of reviews, versions, samples, attempts,       *)
(* reconfigurations and mishaps: the verdict on a candidate is earned and  *)
(* stands, the candidate stays in its lane, and a rollback is announced.   *)
(* Fixes with Webhooks, for any number of handlers, fixers, files, pushes  *)
(* and mishaps: a delivery is answered by the one task that is queued for  *)
(* it, and a repair on a branch is what was verified, on its parent, and   *)
(* takes back nothing that was pushed but at the lines its report names.   *)
(***************************************************************************)
EXTENDS Rollout, Fixes, FiniteSetTheorems, TLAPS

USE DEF Writing, Working, AlertPhases

\* The initial states are well typed: no deployment has been configured.
LEMMA InitTyped == Init => TypeOK
<1> SUFFICES ASSUME Init PROVE TypeOK
  OBVIOUS
<1>1. PICK v : v \in Versions /\ v = (CHOOSE u \in Versions : TRUE)
  BY RolloutAssumption
<1>2. deployment = [status |-> "none", version |-> v, canary |-> 0, shadow |-> 0, auto |-> FALSE,
                    samples |-> 0, errors |-> 0, shadows |-> 0, disagreements |-> 0]
  BY <1>1 DEF Init, NoRow, Row
<1>3. /\ deployment \in RowType /\ deployment.errors <= deployment.samples
      /\ deployment.disagreements <= deployment.shadows
  BY <1>1, <1>2 DEF RowType
<1>4. \A r \in Reviews : attempts[r] < MaxAttempts
  BY RolloutAssumption DEF Init
<1>5. \A r \in Reviews : attempts[r] >= MaxAttempts => pc[r] = "dead"
  BY <1>4, RolloutAssumption DEF Init
<1> QED
  BY <1>3, <1>5 DEF Init, TypeOK

\* Two fields of a row may be set one after the other.
LEMMA TwoCounters ==
  ASSUME NEW d \in RowType, NEW x \in Nat, NEW y \in Nat
  PROVE  /\ [d EXCEPT !.samples = x, !.errors = y] \in RowType
         /\ [d EXCEPT !.shadows = x, !.disagreements = y] \in RowType
<1> DEFINE e == [d EXCEPT !.samples = x]
           f == [d EXCEPT !.shadows = x]
<1>1. e \in RowType /\ f \in RowType
  BY DEF RowType
<1> HIDE DEF e, f
<1>2. [e EXCEPT !.errors = y] \in RowType
  BY <1>1 DEF RowType
<1>3. [f EXCEPT !.disagreements = y] \in RowType
  BY <1>1 DEF RowType
<1> QED
  BY <1>2, <1>3 DEF e, f

\* Counting a shadow observation changes neither the verdict nor the version.
LEMMA CountShadowKeeps ==
  ASSUME TypeOK, NEW r \in Reviews
  PROVE  /\ CountShadow(r) \in RowType
         /\ CountShadow(r).status = deployment.status
         /\ CountShadow(r).version = deployment.version
         /\ CountShadow(r).errors = deployment.errors
         /\ CountShadow(r).samples = deployment.samples
         /\ CountShadow(r).disagreements <= CountShadow(r).shadows
<1> DEFINE n == IF Differs(r) THEN 1 ELSE 0
<1>1. /\ n \in {0, 1} /\ deployment \in RowType
      /\ deployment.shadows \in Nat /\ deployment.disagreements \in Nat
      /\ deployment.disagreements <= deployment.shadows
  BY DEF TypeOK, RowType
<1>2. CountShadow(r) = [deployment EXCEPT !.shadows = deployment.shadows + 1,
                                          !.disagreements = deployment.disagreements + n]
  BY DEF CountShadow
<1> HIDE DEF n
<1>3. CountShadow(r) \in RowType
  <2> DEFINE x == deployment.shadows + 1
             y == deployment.disagreements + n
  <2>1. x \in Nat /\ y \in Nat
    BY <1>1
  <2>2. CountShadow(r) = [deployment EXCEPT !.shadows = x, !.disagreements = y]
    BY <1>2
  <2> HIDE DEF x, y
  <2>3. [deployment EXCEPT !.shadows = x, !.disagreements = y] \in RowType
    BY <1>1, <2>1, TwoCounters, Zenon
  <2> QED
    BY <2>2, <2>3
<1>4. /\ CountShadow(r).shadows = deployment.shadows + 1
      /\ CountShadow(r).disagreements = deployment.disagreements + n
  BY <1>1, <1>2 DEF RowType
<1>5. /\ CountShadow(r).status = deployment.status /\ CountShadow(r).version = deployment.version
      /\ CountShadow(r).errors = deployment.errors /\ CountShadow(r).samples = deployment.samples
  BY <1>1, <1>2 DEF RowType
<1> QED
  BY <1>1, <1>3, <1>4, <1>5

\* Nor does counting a result.
LEMMA CountResultKeeps ==
  ASSUME TypeOK, NEW failed \in BOOLEAN
  PROVE  /\ CountResult(failed) \in RowType
         /\ CountResult(failed).status = deployment.status
         /\ CountResult(failed).version = deployment.version
         /\ CountResult(failed).errors <= CountResult(failed).samples
         /\ CountResult(failed).shadows = deployment.shadows
         /\ CountResult(failed).disagreements = deployment.disagreements
<1> DEFINE n == IF failed THEN 1 ELSE 0
<1>1. /\ n \in {0, 1} /\ deployment \in RowType
      /\ deployment.samples \in Nat /\ deployment.errors \in Nat
      /\ deployment.errors <= deployment.samples
  BY DEF TypeOK, RowType
<1>2. CountResult(failed) = [deployment EXCEPT !.samples = deployment.samples + 1,
                                               !.errors = deployment.errors + n]
  BY DEF CountResult
<1> HIDE DEF n
<1>3. CountResult(failed) \in RowType
  <2> DEFINE x == deployment.samples + 1
             y == deployment.errors + n
  <2>1. x \in Nat /\ y \in Nat
    BY <1>1
  <2>2. CountResult(failed) = [deployment EXCEPT !.samples = x, !.errors = y]
    BY <1>2
  <2> HIDE DEF x, y
  <2>3. [deployment EXCEPT !.samples = x, !.errors = y] \in RowType
    BY <1>1, <2>1, TwoCounters, Zenon
  <2> QED
    BY <2>2, <2>3
<1>4. /\ CountResult(failed).samples = deployment.samples + 1
      /\ CountResult(failed).errors = deployment.errors + n
  BY <1>1, <1>2 DEF RowType
<1>5. /\ CountResult(failed).status = deployment.status /\ CountResult(failed).version = deployment.version
      /\ CountResult(failed).shadows = deployment.shadows
      /\ CountResult(failed).disagreements = deployment.disagreements
  BY <1>1, <1>2 DEF RowType
<1> QED
  BY <1>1, <1>3, <1>4, <1>5

\* A verdict changes the status and stops the traffic, nothing else.
LEMMA VerdictKeeps ==
  ASSUME NEW d \in RowType, NEW s \in Verdicts
  PROVE  /\ Verdict(d, s) \in RowType
         /\ Verdict(d, s).status = s
         /\ Verdict(d, s).version = d.version
         /\ Verdict(d, s).errors = d.errors /\ Verdict(d, s).samples = d.samples
         /\ Verdict(d, s).shadows = d.shadows /\ Verdict(d, s).disagreements = d.disagreements
<1> DEFINE e == [d EXCEPT !.status = s]
           f == [e EXCEPT !.canary = 0]
<1>1. e \in RowType
  BY DEF RowType, Verdicts
<1>2. f \in RowType
  <2> HIDE DEF e
  <2> QED
    BY <1>1 DEF RowType
<1>3. [f EXCEPT !.shadow = 0] \in RowType
  <2> HIDE DEF f
  <2> QED
    BY <1>2 DEF RowType
<1>4. Verdict(d, s) \in RowType
  BY <1>3 DEF Verdict
<1>5. Verdict(d, s) = [d EXCEPT !.status = s, !.canary = 0, !.shadow = 0]
  BY DEF Verdict
<1> QED
  BY <1>4, <1>5 DEF RowType

\* The row after an observation of the canary lane: a running deployment may have
\* been rolled back, another keeps its status.
LEMMA ResultRow ==
  ASSUME TypeOK, NEW failed \in BOOLEAN, RecordResult(failed)
  PROVE  /\ deployment' \in RowType
         /\ deployment'.errors <= deployment'.samples
         /\ deployment'.disagreements <= deployment'.shadows
         /\ deployment'.version = deployment.version
         /\ deployment'.status = deployment.status
              \/ (deployment.status = "running" /\ deployment'.status = "rolled_back")
<1> DEFINE d == CountResult(failed)
<1>1. /\ d \in RowType /\ d.status = deployment.status /\ d.version = deployment.version
      /\ d.errors <= d.samples /\ d.disagreements <= d.shadows
  BY CountResultKeeps DEF TypeOK
<1>2. deployment' = IF EarnsRollback(d) THEN Verdict(d, "rolled_back") ELSE d
  BY DEF RecordResult
<1>3. CASE EarnsRollback(d)
  <2>1. deployment' = Verdict(d, "rolled_back") /\ d.status = "running"
    BY <1>2, <1>3 DEF EarnsRollback
  <2> HIDE DEF d
  <2> QED
    BY <1>1, <2>1, VerdictKeeps DEF Verdicts
<1>4. CASE ~EarnsRollback(d)
  BY <1>1, <1>2, <1>4
<1> QED
  BY <1>3, <1>4

\* The row after a shadow observation: a running deployment may have been
\* promoted, another keeps its status.
LEMMA ShadowRow ==
  ASSUME TypeOK, NEW r \in Reviews, ShadowRecord(r)
  PROVE  /\ deployment' \in RowType
         /\ deployment'.errors <= deployment'.samples
         /\ deployment'.disagreements <= deployment'.shadows
         /\ deployment'.version = deployment.version
         /\ \/ deployment'.status = deployment.status /\ promoted' = promoted
            \/ /\ deployment.status = "running" /\ deployment'.status = "promoted"
               /\ promoted' = promoted \cup {deployment.version}
<1> DEFINE d == CountShadow(r)
<1>1. /\ d \in RowType /\ d.status = deployment.status /\ d.version = deployment.version
      /\ d.errors <= d.samples /\ d.disagreements <= d.shadows
  BY CountShadowKeeps DEF TypeOK
<1>2. IF EarnsPromotion(d) /\ outcome[r] # "failed"
        THEN deployment' = Verdict(d, "promoted") /\ promoted' = promoted \cup {d.version}
        ELSE deployment' = d /\ UNCHANGED promoted
  BY DEF ShadowRecord
<1>3. CASE EarnsPromotion(d) /\ outcome[r] # "failed"
  <2>1. deployment' = Verdict(d, "promoted") /\ promoted' = promoted \cup {d.version} /\ d.status = "running"
    BY <1>2, <1>3 DEF EarnsPromotion
  <2> HIDE DEF d
  <2> QED
    BY <1>1, <2>1, VerdictKeeps DEF Verdicts
<1>4. CASE ~(EarnsPromotion(d) /\ outcome[r] # "failed")
  BY <1>1, <1>2, <1>4
<1> QED
  BY <1>3, <1>4

\* Types are preserved by every step.
LEMMA StepTyped == TypeOK /\ [Next]_vars => TypeOK'
<1> SUFFICES ASSUME TypeOK, [Next]_vars PROVE TypeOK'
  OBVIOUS
<1>1. ASSUME NEW c \in Requests, Configure(c) PROVE TypeOK'
  <2>1. c \in RequestType
    BY RolloutAssumption
  <2>2. /\ deployment' \in RowType /\ deployment'.errors <= deployment'.samples
        /\ deployment'.disagreements <= deployment'.shadows
    BY <1>1, <2>1 DEF Configure, Row, RequestType, RowType
  <2> QED
    BY <1>1, <2>1, <2>2 DEF Configure, TypeOK, reviewVars, RequestType
<1>2. ASSUME NEW r \in Reviews, NEW b \in Buckets, Create(r, b) PROVE TypeOK'
  BY <1>2, RolloutAssumption DEF Create, Go, TypeOK, rowVars, historyVars
<1>3. ASSUME NEW r \in Reviews, Choose(r) PROVE TypeOK'
  BY <1>3 DEF Choose, Use, Go, TypeOK, rowVars, historyVars
<1>4. ASSUME NEW r \in Reviews, PickCandidate(r) PROVE TypeOK'
  BY <1>4 DEF PickCandidate, Use, Go, TypeOK, RowType, rowVars, historyVars
<1>5. ASSUME NEW r \in Reviews, RunReview(r) PROVE TypeOK'
  BY <1>5 DEF RunReview, GoError, Go, TypeOK, rowVars
<1>6. ASSUME NEW r \in Reviews, ShadowReview(r) PROVE TypeOK'
  BY <1>6 DEF ShadowReview, Go, TypeOK, rowVars, historyVars
<1>7. ASSUME NEW r \in Reviews, ShadowRecord(r) PROVE TypeOK'
  <2>1. /\ deployment' \in RowType /\ deployment'.errors <= deployment'.samples
        /\ deployment'.disagreements <= deployment'.shadows
        /\ promoted' \subseteq Versions
    BY <1>7, ShadowRow DEF TypeOK, RowType
  <2>2. agreements' \in Nat /\ mute' \in Nat
    BY <1>7 DEF ShadowRecord, TypeOK
  <2>3. pc' \in [Reviews -> Working \cup {"absent", "queued", "done", "dead"}]
        /\ \A q \in Reviews : attempts'[q] >= MaxAttempts => pc'[q] = "dead"
    BY <1>7 DEF ShadowRecord, Go, TypeOK
  <2> QED
    BY <1>7, <2>1, <2>2, <2>3 DEF ShadowRecord, TypeOK
<1>8. ASSUME NEW r \in Reviews, PromotionAlert(r) PROVE TypeOK'
  BY <1>8 DEF PromotionAlert, Go, TypeOK, historyVars
<1>9. ASSUME NEW r \in Reviews, ShadowAudit(r) PROVE TypeOK'
  BY <1>9 DEF ShadowAudit, Go, TypeOK, rowVars, historyVars
<1>10. ASSUME NEW r \in Reviews, Count(r) PROVE TypeOK'
  <2>1. /\ deployment' \in RowType /\ deployment'.errors <= deployment'.samples
        /\ deployment'.disagreements <= deployment'.shadows
    <3>1. CASE lane[r] = "canary"
      BY <1>10, <3>1, ResultRow DEF Count, Observe
    <3>2. CASE lane[r] # "canary"
      BY <1>10, <3>2 DEF Count, TypeOK
    <3> QED
      BY <3>1, <3>2
  <2>2. \E phase \in {"countAlert", "comment"} : pc' = [pc EXCEPT ![r] = phase]
    BY <1>10 DEF Count, Observe, Go
  <2> QED
    BY <1>10, <2>1, <2>2 DEF Count, TypeOK, historyVars
<1>11. ASSUME NEW r \in Reviews, CountAlert(r) PROVE TypeOK'
  BY <1>11 DEF CountAlert, Go, TypeOK, historyVars
<1>12. ASSUME NEW r \in Reviews, Comment(r) PROVE TypeOK'
  BY <1>12 DEF Comment, GoError, Go, TypeOK, rowVars
<1>13. ASSUME NEW r \in Reviews, Error(r) PROVE TypeOK'
  <2>1. /\ deployment' \in RowType /\ deployment'.errors <= deployment'.samples
        /\ deployment'.disagreements <= deployment'.shadows
    <3>1. CASE lane[r] = "canary"
      BY <1>13, <3>1, ResultRow DEF Error, Observe
    <3>2. CASE lane[r] # "canary"
      BY <1>13, <3>2 DEF Error, TypeOK
    <3> QED
      BY <3>1, <3>2
  <2>2. \/ pc' = [pc EXCEPT ![r] = "errorAlert"] /\ attempts' = attempts
        \/ pc' = [pc EXCEPT ![r] = Requeued(r)] /\ attempts' = [attempts EXCEPT ![r] = @ + 1]
    BY <1>13 DEF Error, Observe, Go, CountAttempt, Requeued, TypeOK
  <2>3. /\ pc' \in [Reviews -> Working \cup {"absent", "queued", "done", "dead"}]
        /\ attempts' \in [Reviews -> Nat]
        /\ \A q \in Reviews : attempts'[q] >= MaxAttempts => pc'[q] = "dead"
    BY <1>13, <2>2, RolloutAssumption DEF Error, Requeued, TypeOK
  <2> QED
    BY <1>13, <2>1, <2>3 DEF Error, TypeOK, historyVars
<1>14. ASSUME NEW r \in Reviews, ErrorAlert(r) PROVE TypeOK'
  BY <1>14, RolloutAssumption DEF ErrorAlert, Requeued, CountAttempt, Go, TypeOK, historyVars
<1>15. ASSUME NEW r \in Reviews, WriteFails(r) PROVE TypeOK'
  <2>1. CASE ShadowWriteFails(r)
    BY <1>15, <2>1 DEF WriteFails, Mishap, ShadowWriteFails, Go, TypeOK, rowVars
  <2>2. CASE ReviewWriteFails(r)
    BY <1>15, <2>2 DEF WriteFails, Mishap, ReviewWriteFails, GoError, Go, TypeOK, rowVars
  <2>3. CASE ErrorWriteFails(r)
    BY <1>15, <2>3, RolloutAssumption
       DEF WriteFails, Mishap, ErrorWriteFails, Requeued, CountAttempt, Go, TypeOK, rowVars
  <2> QED
    BY <1>15, <2>1, <2>2, <2>3 DEF WriteFails
<1>16. ASSUME NEW r \in Reviews, Die(r) PROVE TypeOK'
  BY <1>16 DEF Die, Mishap, Go, TypeOK, rowVars, historyVars
<1>17. CASE UNCHANGED vars
  BY <1>17 DEF TypeOK, vars, rowVars, reviewVars, historyVars
<1> QED
  BY <1>1, <1>2, <1>3, <1>4, <1>5, <1>6, <1>7, <1>8, <1>9, <1>10, <1>11, <1>12, <1>13, <1>14,
     <1>15, <1>16, <1>17 DEF Next, Review

\* The types of the release hold in every reachable state.
THEOREM RolloutTypes == Spec => []TypeOK
<1> QED
  BY InitTyped, StepTyped, PTL DEF Spec

-----------------------------------------------------------------------------

\* What the steps of a review may do to the status: roll back or promote a
\* running deployment, nothing else.
LEMMA StatusMoves ==
  ASSUME TypeOK, [Next]_vars
  PROVE  \/ configs' = configs + 1
         \/ deployment'.status = deployment.status /\ deployment'.version = deployment.version
         \/ /\ deployment.status = "running" /\ deployment'.version = deployment.version
            /\ deployment'.status \in Verdicts
<1> DEFINE Kept == deployment'.status = deployment.status /\ deployment'.version = deployment.version
           Judged == /\ deployment.status = "running" /\ deployment'.version = deployment.version
                     /\ deployment'.status \in Verdicts
<1>1. ASSUME NEW c \in Requests, Configure(c) PROVE configs' = configs + 1
  BY <1>1 DEF Configure
<1>2. ASSUME NEW r \in Reviews, ShadowRecord(r) PROVE Kept \/ Judged
  BY <1>2, ShadowRow DEF Verdicts
<1>3. ASSUME NEW r \in Reviews, Count(r) PROVE Kept \/ Judged
  <2>1. CASE lane[r] = "canary"
    BY <1>3, <2>1, ResultRow DEF Count, Observe, Verdicts
  <2>2. CASE lane[r] # "canary"
    BY <1>3, <2>2 DEF Count
  <2> QED
    BY <2>1, <2>2
<1>4. ASSUME NEW r \in Reviews, Error(r) PROVE Kept \/ Judged
  <2>1. CASE lane[r] = "canary"
    BY <1>4, <2>1, ResultRow DEF Error, Observe, Verdicts
  <2>2. CASE lane[r] # "canary"
    BY <1>4, <2>2 DEF Error
  <2> QED
    BY <2>1, <2>2
<1>5. ASSUME NEW r \in Reviews,
             (\E b \in Buckets : Create(r, b)) \/ Choose(r) \/ PickCandidate(r) \/ RunReview(r)
               \/ ShadowReview(r) \/ PromotionAlert(r) \/ ShadowAudit(r) \/ CountAlert(r)
               \/ Comment(r) \/ ErrorAlert(r) \/ WriteFails(r) \/ Die(r)
      PROVE  Kept
  BY <1>5 DEF Create, Choose, PickCandidate, RunReview, ShadowReview, PromotionAlert, ShadowAudit,
              CountAlert, Comment, ErrorAlert, WriteFails, Die, rowVars
<1>6. CASE UNCHANGED vars
  BY <1>6 DEF vars, rowVars
<1> QED
  BY <1>1, <1>2, <1>3, <1>4, <1>5, <1>6 DEF Next, Review

\* A verdict stands until the next configure, whatever reviews are still under way.
THEOREM VerdictsStand == Spec => VerdictStands
<1>1. TypeOK /\ [Next]_vars =>
        [deployment.status \in Verdicts /\ configs' = configs => deployment'.status = deployment.status]_vars
  <2> SUFFICES ASSUME TypeOK, [Next]_vars, deployment.status \in Verdicts, configs' = configs
               PROVE  deployment'.status = deployment.status
    OBVIOUS
  <2>1. configs \in Nat
    BY DEF TypeOK
  <2> QED
    BY <2>1, StatusMoves DEF Verdicts
<1> QED
  BY <1>1, RolloutTypes, PTL DEF Spec, VerdictStands

-----------------------------------------------------------------------------

\* CandidateConfined, and why: a review on its way to the candidate is of the
\* canary lane, or has seen the promotion, or the deployment changed since.
Confinement ==
    /\ CandidateConfined
    /\ \A r \in Reviews : pc[r] = "absent" => using[r] \notin Versions
    /\ \A r \in Reviews :
         pc[r] = "candidate" => lane[r] = "canary" \/ deployment.status = "promoted" \/ r \in torn
    /\ deployment.status = "promoted" => deployment.version \in promoted

\* Nothing is promoted and no reviewer chosen at the start.
LEMMA InitConfined == Init => Confinement
BY RolloutAssumption DEF Init, NoRow, Row, Confinement, CandidateConfined

\* The steps that neither choose a reviewer nor touch the deployment.
LEMMA ElsewhereConfined ==
  ASSUME TypeOK, Confinement, NEW r \in Reviews, NEW phase,
         phase # "absent", phase # "candidate",
         pc' = [pc EXCEPT ![r] = phase],
         deployment'.status = deployment.status, deployment'.version = deployment.version,
         UNCHANGED <<lane, using, torn, promoted>>
  PROVE  Confinement'
BY DEF TypeOK, Confinement, CandidateConfined

\* Every step keeps the candidate in its lane.
LEMMA StepConfined == TypeOK /\ Confinement /\ [Next]_vars => Confinement'
<1> SUFFICES ASSUME TypeOK, Confinement, [Next]_vars PROVE Confinement'
  OBVIOUS
<1>1. ASSUME NEW c \in Requests, Configure(c) PROVE Confinement'
  <2>1. deployment'.status # "promoted"
    BY <1>1, RolloutAssumption DEF Configure, Row, RequestType
  <2>2. \A r \in Reviews : pc'[r] = "candidate" => r \in torn'
    BY <1>1 DEF Configure, reviewVars
  <2> QED
    BY <1>1, <2>1, <2>2 DEF Configure, Confinement, CandidateConfined, reviewVars
<1>2. ASSUME NEW r \in Reviews, NEW b \in Buckets, Create(r, b) PROVE Confinement'
  BY <1>2 DEF Create, Go, TypeOK, Confinement, CandidateConfined, rowVars, historyVars
<1>3. ASSUME NEW r \in Reviews, Choose(r) PROVE Confinement'
  <2>1. CASE lane[r] = "canary" \/ deployment.status = "promoted"
    BY <1>3, <2>1 DEF Choose, Go, TypeOK, Confinement, CandidateConfined, rowVars, historyVars
  <2>2. CASE ~(lane[r] = "canary" \/ deployment.status = "promoted")
    BY <1>3, <2>2, RolloutAssumption
       DEF Choose, Use, Go, TypeOK, Confinement, CandidateConfined, rowVars, historyVars
  <2> QED
    BY <2>1, <2>2
<1>4. ASSUME NEW r \in Reviews, PickCandidate(r) PROVE Confinement'
  BY <1>4, RolloutAssumption
     DEF PickCandidate, Use, Go, TypeOK, Confinement, CandidateConfined, rowVars, historyVars
<1>5. ASSUME NEW r \in Reviews, ShadowRecord(r) PROVE Confinement'
  <2>1. /\ deployment'.version = deployment.version
        /\ \/ deployment'.status = deployment.status /\ promoted' = promoted
           \/ /\ deployment.status = "running" /\ deployment'.status = "promoted"
              /\ promoted' = promoted \cup {deployment.version}
    BY <1>5, ShadowRow
  <2>2. \E phase \in {"promotionAlert", "shadowAudit"} : pc' = [pc EXCEPT ![r] = phase]
    BY <1>5 DEF ShadowRecord, Go
  <2> QED
    BY <1>5, <2>1, <2>2 DEF ShadowRecord, TypeOK, Confinement, CandidateConfined
<1>6. ASSUME NEW r \in Reviews, Count(r) \/ Error(r) PROVE Confinement'
  <2>1. \E phase \in {"countAlert", "comment", "errorAlert", "queued", "dead"} :
          pc' = [pc EXCEPT ![r] = phase]
    BY <1>6 DEF Count, Error, Observe, Go, Requeued
  <2>2. /\ deployment'.version = deployment.version
        /\ \/ deployment'.status = deployment.status
           \/ deployment'.status = "rolled_back"
    <3>1. CASE lane[r] = "canary"
      BY <1>6, <3>1, ResultRow DEF Count, Error, Observe
    <3>2. CASE lane[r] # "canary"
      BY <1>6, <3>2 DEF Count, Error
    <3> QED
      BY <3>1, <3>2
  <2>3. CASE deployment'.status = "rolled_back" /\ deployment.status # "rolled_back"
    <3>1. configs' = configs
      BY <1>6 DEF Count, Error
    <3>2. deployment.status = "running"
      BY <2>3, <3>1, StatusMoves DEF TypeOK
    <3> QED
      BY <1>6, <2>1, <2>2, <2>3, <3>2 DEF Count, Error, TypeOK, Confinement, CandidateConfined,
          historyVars
  <2>4. CASE deployment'.status = deployment.status
    BY <1>6, <2>1, <2>2, <2>4, ElsewhereConfined DEF Count, Error, historyVars
  <2> QED
    BY <2>2, <2>3, <2>4
<1>7. ASSUME NEW r \in Reviews,
             RunReview(r) \/ ShadowReview(r) \/ PromotionAlert(r) \/ ShadowAudit(r) \/ CountAlert(r)
               \/ Comment(r) \/ ErrorAlert(r) \/ WriteFails(r) \/ Die(r)
      PROVE  Confinement'
  <2>1. \E phase \in Writing \cup {"shadow", "comment", "queued", "done", "dead"} :
          pc' = [pc EXCEPT ![r] = phase]
    BY <1>7 DEF RunReview, ShadowReview, PromotionAlert, ShadowAudit, CountAlert, Comment, ErrorAlert,
                WriteFails, ShadowWriteFails, ReviewWriteFails, ErrorWriteFails, Die, GoError, Go, Requeued
  <2>2. deployment' = deployment /\ UNCHANGED <<lane, using, torn, promoted>>
    BY <1>7 DEF RunReview, ShadowReview, PromotionAlert, ShadowAudit, CountAlert, Comment, ErrorAlert,
                WriteFails, Die, rowVars, historyVars
  <2> QED
    BY <2>1, <2>2, ElsewhereConfined
<1>8. CASE UNCHANGED vars
  BY <1>8 DEF vars, rowVars, reviewVars, historyVars, Confinement, CandidateConfined
<1> QED
  BY <1>1, <1>2, <1>3, <1>4, <1>5, <1>6, <1>7, <1>8 DEF Next, Review

\* Outside the canary lane the candidate reviews only after a promotion, unless
\* the deployment changed between the two reads.
THEOREM CandidateStaysInLane == Spec => []CandidateConfined
<1>1. Spec => []Confinement
  BY InitConfined, StepConfined, RolloutTypes, PTL DEF Spec
<1>2. Confinement => CandidateConfined
  BY DEF Confinement
<1> QED
  BY <1>1, <1>2, PTL

-----------------------------------------------------------------------------

\* RollbackAnnounced, and why: the review that will raise the alert has its
\* observation, or the alert itself, still before it.
Pending == (Working \cup {"queued"}) \ {"comment"}
Unannounced == deployment.status = "rolled_back" /\ "rollout" \notin alerts /\ ~missed
Announcement == Unannounced => \E r \in Reviews : lane[r] = "canary" /\ pc[r] \in Pending

\* A step of a review that leaves the status alone and stays pending, or is not
\* the pending one, leaves another observation to come.
LEMMA StillPending ==
  ASSUME TypeOK, Announcement, NEW r \in Reviews, NEW phase,
         pc' = [pc EXCEPT ![r] = phase],
         deployment'.status = "rolled_back" => deployment.status = "rolled_back",
         alerts \subseteq alerts', missed => missed',
         \A q \in Reviews : pc[q] \in Pending => lane'[q] = lane[q],
         lane[r] = "canary" /\ pc[r] \in Pending /\ Unannounced' => phase \in Pending
  PROVE  Announcement'
<1> SUFFICES ASSUME Unannounced'
             PROVE  \E q \in Reviews : lane'[q] = "canary" /\ pc'[q] \in Pending
  BY DEF Announcement
<1>1. Unannounced
  BY DEF Unannounced, TypeOK
<1>2. PICK w \in Reviews : lane[w] = "canary" /\ pc[w] \in Pending
  BY <1>1 DEF Announcement
<1>3. pc'[w] \in Pending
  BY <1>2 DEF TypeOK
<1> QED
  BY <1>2, <1>3

\* An observation of the canary lane that finds the candidate rolled back goes on
\* to the alert.
LEMMA ObservationAlerts ==
  ASSUME TypeOK, NEW r \in Reviews, NEW failed, NEW alerting, NEW next,
         Observe(r, failed, alerting, next), deployment'.status = "rolled_back"
  PROVE  pc'[r] = alerting
BY DEF Observe, Go, TypeOK

\* Every step leaves a rollback announced, or an announcement to come.
LEMMA StepAnnounced == TypeOK /\ Announcement /\ [Next]_vars => Announcement'
<1> USE DEF Pending
<1> SUFFICES ASSUME TypeOK, Announcement, [Next]_vars PROVE Announcement'
  OBVIOUS
<1>1. ASSUME NEW c \in Requests, Configure(c) PROVE Announcement'
  <2>1. deployment'.status # "rolled_back"
    BY <1>1, RolloutAssumption DEF Configure, Row, RequestType
  <2> QED
    BY <2>1 DEF Announcement, Unannounced
<1>2. ASSUME NEW r \in Reviews, NEW b \in Buckets, Create(r, b) PROVE Announcement'
  <2>1. \A q \in Reviews : pc[q] \in Pending => lane'[q] = lane[q]
    BY <1>2 DEF Create, TypeOK
  <2> QED
    BY <1>2, <2>1, StillPending DEF Create, Go, rowVars, historyVars
<1>3. ASSUME NEW r \in Reviews, Choose(r) \/ PickCandidate(r) \/ ShadowReview(r) \/ ShadowAudit(r)
      PROVE  Announcement'
  <2>1. \E phase \in Pending : pc' = [pc EXCEPT ![r] = phase]
    BY <1>3 DEF Choose, PickCandidate, ShadowReview, ShadowAudit, Use, Go
  <2>2. deployment' = deployment /\ alerts' = alerts /\ lane' = lane /\ missed' = missed
    BY <1>3 DEF Choose, PickCandidate, ShadowReview, ShadowAudit, rowVars, historyVars
  <2> QED
    BY <2>1, <2>2, StillPending
<1>4. ASSUME NEW r \in Reviews, RunReview(r) \/ Comment(r) PROVE Announcement'
  <2>1. \E phase \in Pending \cup {"done"} :
          pc' = [pc EXCEPT ![r] = phase] /\ (phase = "done" => pc[r] = "comment")
    BY <1>4 DEF RunReview, Comment, GoError, Go
  <2>2. deployment' = deployment /\ alerts' = alerts /\ lane' = lane /\ missed' = missed
    BY <1>4 DEF RunReview, Comment, rowVars
  <2> QED
    BY <2>1, <2>2, StillPending
<1>5. ASSUME NEW r \in Reviews, ShadowRecord(r) PROVE Announcement'
  <2>1. deployment'.status = "rolled_back" => deployment.status = "rolled_back"
    BY <1>5, ShadowRow
  <2>2. \E phase \in Pending : pc' = [pc EXCEPT ![r] = phase]
    BY <1>5 DEF ShadowRecord, Go
  <2> QED
    BY <1>5, <2>1, <2>2, StillPending DEF ShadowRecord
<1>6. ASSUME NEW r \in Reviews, PromotionAlert(r) \/ CountAlert(r) \/ ErrorAlert(r) PROVE Announcement'
  <2>1. alerts \subseteq alerts' /\ (CountAlert(r) \/ ErrorAlert(r) => "rollout" \in alerts')
    BY <1>6 DEF PromotionAlert, CountAlert, ErrorAlert
  <2>2. CASE PromotionAlert(r)
    BY <2>1, <2>2, StillPending DEF PromotionAlert, Go, historyVars
  <2>3. CASE CountAlert(r) \/ ErrorAlert(r)
    BY <2>1, <2>3 DEF Announcement, Unannounced
  <2> QED
    BY <1>6, <2>2, <2>3
<1>7. ASSUME NEW r \in Reviews, Count(r) \/ Error(r) PROVE Announcement'
  <2>1. CASE lane[r] = "canary" /\ deployment'.status = "rolled_back"
    <3>1. pc'[r] \in {"countAlert", "errorAlert"}
      BY <1>7, <2>1, ObservationAlerts DEF Count, Error
    <3>2. lane' = lane
      BY <1>7 DEF Count, Error
    <3> QED
      BY <2>1, <3>1, <3>2 DEF Announcement
  <2>2. CASE lane[r] = "canary" /\ deployment'.status # "rolled_back"
    BY <2>2 DEF Announcement, Unannounced
  <2>3. CASE lane[r] # "canary"
    <3>1. \E phase : pc' = [pc EXCEPT ![r] = phase]
      BY <1>7, <2>3 DEF Count, Error, Go
    <3>2. deployment' = deployment
      BY <1>7, <2>3 DEF Count, Error
    <3>3. alerts' = alerts /\ lane' = lane /\ missed' = missed
      BY <1>7 DEF Count, Error, historyVars
    <3> QED
      BY <2>3, <3>1, <3>2, <3>3, StillPending
  <2> QED
    BY <2>1, <2>2, <2>3
<1>8. ASSUME NEW r \in Reviews, WriteFails(r) PROVE Announcement'
  <2>1. missed' = (missed \/ pc[r] \in AlertPhases \cup {"error"})
        /\ deployment' = deployment /\ alerts' = alerts /\ lane' = lane
    BY <1>8 DEF WriteFails, rowVars
  <2>2. CASE pc[r] \in {"error", "errorAlert"}
    BY <2>1, <2>2 DEF Announcement, Unannounced
  <2>3. CASE pc[r] \notin {"error", "errorAlert"}
    <3>1. \E phase \in Pending : pc' = [pc EXCEPT ![r] = phase]
      BY <1>8, <2>3 DEF WriteFails, ShadowWriteFails, ReviewWriteFails, ErrorWriteFails, GoError, Go
    <3> QED
      BY <2>1, <3>1, StillPending
  <2> QED
    BY <2>2, <2>3
<1>9. ASSUME NEW r \in Reviews, Die(r) PROVE Announcement'
  BY <1>9, StillPending DEF Die, Go, rowVars, historyVars
<1>10. CASE UNCHANGED vars
  BY <1>10 DEF vars, rowVars, reviewVars, historyVars, Announcement, Unannounced
<1> QED
  BY <1>1, <1>2, <1>3, <1>4, <1>5, <1>6, <1>7, <1>8, <1>9, <1>10 DEF Next, Review

\* A rollback does not pass unnoticed, whatever dies, unless the write of the
\* alert or of the error's observation failed.
THEOREM RollbackIsAnnounced == Spec => []RollbackAnnounced
<1>1. Init => Announcement
  BY DEF Init, NoRow, Row, Announcement, Unannounced
<1>2. Spec => []Announcement
  BY <1>1, StepAnnounced, RolloutTypes, PTL DEF Spec
<1>3. Announcement => RollbackAnnounced
  BY DEF Announcement, Unannounced, Pending, RollbackAnnounced
<1> QED
  BY <1>2, <1>3, PTL

-----------------------------------------------------------------------------

\* VerdictEarned, and why: every error that is counted was raised, by an attempt
\* that is no longer on its way to be counted; and every shadow observation is
\* of one kind.
Raising == {r \in Reviews : lane[r] = "canary" /\ pc[r] = "error"}

Booked == IsFiniteSet(Raising) /\ deployment.errors + Cardinality(Raising) <= raised

Earning ==
    /\ Booked
    /\ deployment.shadows = agreements + mute + deployment.disagreements
    /\ \A r \in Reviews : pc[r] = "shadowRecord" => outcome[r] # "none"

\* One more, or one less.
LEMMA OneMoreOrLess ==
  ASSUME NEW S, NEW x, IsFiniteSet(S)
  PROVE  /\ Cardinality(S) \in Nat
         /\ IsFiniteSet(S \cup {x}) /\ Cardinality(S \cup {x}) \in Nat
         /\ Cardinality(S \cup {x}) <= Cardinality(S) + 1
         /\ IsFiniteSet(S \ {x}) /\ Cardinality(S \ {x}) \in Nat
         /\ Cardinality(S \ {x}) <= Cardinality(S)
         /\ x \in S => Cardinality(S \ {x}) = Cardinality(S) - 1
<1>1. Cardinality(S) \in Nat
  BY FS_CardinalityType
<1>2. IsFiniteSet(S \cup {x}) /\ Cardinality(S \cup {x}) = (IF x \in S THEN Cardinality(S) ELSE Cardinality(S) + 1)
  BY FS_AddElement
<1>3. IsFiniteSet(S \ {x}) /\ Cardinality(S \ {x}) = (IF x \in S THEN Cardinality(S) - 1 ELSE Cardinality(S))
  BY FS_RemoveElement
<1>4. Cardinality(S \cup {x}) \in Nat /\ Cardinality(S \ {x}) \in Nat
  BY <1>2, <1>3, FS_CardinalityType
<1> QED
  BY <1>1, <1>2, <1>3, <1>4

\* A step of one review, which may raise; no error is counted by it unless it was
\* on its way to be.
LEMMA RaisingStep ==
  ASSUME TypeOK, Earning, NEW r \in Reviews, NEW phase,
         pc' = [pc EXCEPT ![r] = phase], deployment' \in RowType,
         \A q \in Reviews : q # r => lane'[q] = lane[q],
         raised' = raised + 1 \/ (raised' = raised /\ ~(phase = "error" /\ lane'[r] = "canary")),
         \/ deployment'.errors = deployment.errors
         \/ deployment'.errors = deployment.errors + 1 /\ r \in Raising /\ phase # "error"
  PROVE  Booked'
<1>1. /\ IsFiniteSet(Raising) /\ deployment.errors + Cardinality(Raising) <= raised
      /\ deployment.errors \in Nat /\ deployment'.errors \in Nat /\ raised \in Nat
  BY DEF Earning, Booked, TypeOK, RowType
<1>n. PICK n \in {0, 1} : deployment'.errors = deployment.errors + n /\ (n = 1 => r \in Raising /\ phase # "error")
  BY <1>1
<1>2. CASE phase = "error" /\ lane'[r] = "canary"
  <2>1. Raising' = Raising \cup {r}
    BY <1>2 DEF Raising, TypeOK
  <2>2. n = 0 /\ raised' = raised + 1
    BY <1>n, <1>2
  <2>3. /\ IsFiniteSet(Raising') /\ Cardinality(Raising') \in Nat /\ Cardinality(Raising) \in Nat
        /\ Cardinality(Raising') <= Cardinality(Raising) + 1
    BY <1>1, <2>1, OneMoreOrLess, Zenon
  <2> QED
    BY <1>1, <1>n, <2>2, <2>3 DEF Booked
<1>3. CASE ~(phase = "error" /\ lane'[r] = "canary")
  <2>1. Raising' = Raising \ {r}
    BY <1>3 DEF Raising, TypeOK
  <2>2. /\ IsFiniteSet(Raising') /\ Cardinality(Raising') \in Nat /\ Cardinality(Raising) \in Nat
        /\ Cardinality(Raising') <= Cardinality(Raising)
        /\ r \in Raising => Cardinality(Raising') = Cardinality(Raising) - 1
    BY <1>1, <2>1, OneMoreOrLess, Zenon
  <2>3. Cardinality(Raising') + n <= Cardinality(Raising)
    BY <1>n, <2>2
  <2> QED
    BY <1>1, <1>n, <2>2, <2>3 DEF Booked
<1> QED
  BY <1>2, <1>3

\* What an observation of the canary lane counts, and when it rolls back.
LEMMA ResultCounts ==
  ASSUME TypeOK, NEW failed \in BOOLEAN, RecordResult(failed)
  PROVE  /\ deployment'.errors = deployment.errors + (IF failed THEN 1 ELSE 0)
         /\ deployment'.shadows = deployment.shadows /\ deployment'.disagreements = deployment.disagreements
         /\ deployment.status = "running" /\ deployment'.status = "rolled_back" =>
              /\ deployment'.samples >= MinSamples
              /\ deployment'.errors * 100 > MaxErrorRate * deployment'.samples
<1> DEFINE d == CountResult(failed)
<1>1. /\ d \in RowType /\ d.status = deployment.status
      /\ d.shadows = deployment.shadows /\ d.disagreements = deployment.disagreements
  BY CountResultKeeps
<1>2. d.errors = deployment.errors + (IF failed THEN 1 ELSE 0)
  BY DEF CountResult, TypeOK, RowType
<1>3. deployment' = IF EarnsRollback(d) THEN Verdict(d, "rolled_back") ELSE d
  BY DEF RecordResult
<1> HIDE DEF d
<1>4. CASE EarnsRollback(d)
  <2>1. /\ deployment'.errors = d.errors /\ deployment'.samples = d.samples
        /\ deployment'.shadows = d.shadows /\ deployment'.disagreements = d.disagreements
    BY <1>1, <1>3, <1>4, VerdictKeeps DEF Verdicts
  <2>2. d.errors \in Nat /\ d.samples \in Nat /\ MaxErrorRate \in Nat /\ d.samples >= MinSamples
        /\ ~(d.errors * 100 <= MaxErrorRate * d.samples)
    BY <1>1, <1>4, RolloutAssumption DEF RowType, EarnsRollback, WithinBudget
  <2>3. d.errors * 100 > MaxErrorRate * d.samples
    <3>1. \A a, b \in Int : ~(a <= b) => a > b
      OBVIOUS
    <3>2. d.errors * 100 \in Int /\ MaxErrorRate * d.samples \in Int
      BY <2>2
    <3> QED
      BY <2>2, <3>1, <3>2
  <2> QED
    BY <1>1, <1>2, <2>1, <2>2, <2>3
<1>5. CASE ~EarnsRollback(d)
  BY <1>1, <1>2, <1>3, <1>5
<1> QED
  BY <1>4, <1>5

\* What a shadow observation counts, and when it promotes.
LEMMA ShadowCounts ==
  ASSUME TypeOK, NEW r \in Reviews, ShadowRecord(r)
  PROVE  /\ deployment'.errors = deployment.errors
         /\ deployment'.shadows = deployment.shadows + 1
         /\ deployment'.disagreements = deployment.disagreements + (IF Differs(r) THEN 1 ELSE 0)
         /\ deployment.status # "promoted" /\ deployment'.status = "promoted" =>
              /\ deployment'.shadows >= MinSamples
              /\ deployment'.disagreements * 100 <= MaxDisagreementRate * deployment'.shadows
<1> DEFINE d == CountShadow(r)
<1>1. d \in RowType /\ d.status = deployment.status /\ d.errors = deployment.errors
  BY CountShadowKeeps
<1>2. /\ d.shadows = deployment.shadows + 1
      /\ d.disagreements = deployment.disagreements + (IF Differs(r) THEN 1 ELSE 0)
  BY DEF CountShadow, TypeOK, RowType
<1>3. IF EarnsPromotion(d) /\ outcome[r] # "failed" THEN deployment' = Verdict(d, "promoted") ELSE deployment' = d
  BY DEF ShadowRecord
<1> HIDE DEF d
<1>4. CASE EarnsPromotion(d) /\ outcome[r] # "failed"
  <2>1. /\ deployment'.errors = d.errors
        /\ deployment'.shadows = d.shadows /\ deployment'.disagreements = d.disagreements
    BY <1>1, <1>3, <1>4, VerdictKeeps DEF Verdicts
  <2>2. d.shadows >= MinSamples /\ d.disagreements * 100 <= MaxDisagreementRate * d.shadows
    BY <1>4 DEF EarnsPromotion
  <2> QED
    BY <1>1, <1>2, <2>1, <2>2
<1>5. CASE ~(EarnsPromotion(d) /\ outcome[r] # "failed")
  BY <1>1, <1>2, <1>3, <1>5
<1> QED
  BY <1>4, <1>5

\* Steps of a review that leave the row and the observations alone.
LEMMA ElsewhereEarned ==
  ASSUME TypeOK, Earning, NEW r \in Reviews, NEW phase,
         pc' = [pc EXCEPT ![r] = phase],
         \A q \in Reviews : q # r => lane'[q] = lane[q],
         raised' = raised + 1 \/ (raised' = raised /\ ~(phase = "error" /\ lane'[r] = "canary")),
         phase = "shadowRecord" => outcome'[r] # "none",
         \A q \in Reviews : q # r => outcome'[q] = outcome[q],
         UNCHANGED <<deployment, agreements, mute>>
  PROVE  Earning'
<1>1. deployment' \in RowType /\ deployment'.errors = deployment.errors
  BY DEF TypeOK
<1>2. Booked'
  BY <1>1, RaisingStep
<1>3. \A q \in Reviews : pc'[q] = "shadowRecord" => outcome'[q] # "none"
  BY DEF Earning, TypeOK
<1>4. deployment'.shadows = agreements' + mute' + deployment'.disagreements
  BY DEF Earning
<1> QED
  BY <1>2, <1>3, <1>4 DEF Earning

\* An attempt that raises is on its way to be counted, if it is of the canary lane.
LEMMA GoErrorEarned ==
  ASSUME TypeOK, Earning, NEW r \in Reviews, GoError(r),
         UNCHANGED <<deployment, lane, outcome, agreements, mute>>
  PROVE  Earning'
<1>1. pc' = [pc EXCEPT ![r] = "error"] /\ raised' = raised + (IF lane[r] = "canary" THEN 1 ELSE 0)
  BY DEF GoError, Go
<1>2. raised' = raised + 1 \/ (raised' = raised /\ ~(lane'[r] = "canary"))
  BY <1>1 DEF TypeOK
<1> QED
  BY <1>1, <1>2, ElsewhereEarned

\* Every step keeps the books.
LEMMA StepEarned == TypeOK /\ Earning /\ [Next]_vars => Earning'
<1> SUFFICES ASSUME TypeOK, Earning, [Next]_vars PROVE Earning'
  OBVIOUS
<1>t. TypeOK'
  BY StepTyped
<1>r. deployment' \in RowType /\ raised' \in Nat /\ raised \in Nat
  BY <1>t DEF TypeOK
<1>1. ASSUME NEW c \in Requests, Configure(c) PROVE Earning'
  <2>1. /\ deployment'.errors = 0 /\ deployment'.shadows = 0 /\ deployment'.disagreements = 0
        /\ agreements' = 0 /\ mute' = 0 /\ raised' = raised
    BY <1>1 DEF Configure, Row
  <2>2. Raising' = Raising
    BY <1>1 DEF Configure, reviewVars, Raising
  <2>3. /\ IsFiniteSet(Raising) /\ Cardinality(Raising) \in Nat
        /\ deployment.errors \in Nat /\ deployment.errors + Cardinality(Raising) <= raised
    BY FS_CardinalityType DEF Earning, Booked, TypeOK, RowType
  <2>4. Booked'
    BY <1>r, <2>1, <2>2, <2>3 DEF Booked
  <2>5. \A r \in Reviews : pc'[r] = "shadowRecord" => outcome'[r] # "none"
    BY <1>1 DEF Configure, reviewVars, Earning
  <2> QED
    BY <2>1, <2>4, <2>5 DEF Earning
<1>2. ASSUME NEW r \in Reviews, NEW b \in Buckets, Create(r, b) PROVE Earning'
  <2>1. pc' = [pc EXCEPT ![r] = "queued"] /\ \A q \in Reviews : q # r => lane'[q] = lane[q]
    BY <1>2 DEF Create, Go, TypeOK
  <2> QED
    BY <1>2, <1>r, <2>1, ElsewhereEarned DEF Create, rowVars, historyVars
<1>3. ASSUME NEW r \in Reviews,
             Choose(r) \/ PickCandidate(r) \/ PromotionAlert(r) \/ ShadowAudit(r) \/ CountAlert(r)
               \/ ErrorAlert(r) \/ Die(r)
      PROVE  Earning'
  <2>1. \E phase \in {"candidate", "run", "shadowAudit", "count", "comment", "queued", "dead"} :
          pc' = [pc EXCEPT ![r] = phase]
    BY <1>3 DEF Choose, PickCandidate, PromotionAlert, ShadowAudit, CountAlert, ErrorAlert, Die, Use, Go, Requeued
  <2>2. UNCHANGED <<deployment, lane, outcome, raised, agreements, mute>>
    BY <1>3 DEF Choose, PickCandidate, PromotionAlert, ShadowAudit, CountAlert, ErrorAlert, Die,
                rowVars, historyVars
  <2> QED
    BY <1>r, <2>1, <2>2, ElsewhereEarned
<1>4. ASSUME NEW r \in Reviews, RunReview(r) \/ Comment(r) PROVE Earning'
  <2>1. UNCHANGED <<deployment, lane, outcome, agreements, mute>>
    BY <1>4 DEF RunReview, Comment, rowVars
  <2>2. \/ GoError(r)
        \/ (\E phase \in {"shadow", "count", "done"} : pc' = [pc EXCEPT ![r] = phase]) /\ raised' = raised
    BY <1>4 DEF RunReview, Comment, Go
  <2>3. CASE GoError(r)
    BY <2>1, <2>3, GoErrorEarned
  <2>4. CASE (\E phase \in {"shadow", "count", "done"} : pc' = [pc EXCEPT ![r] = phase]) /\ raised' = raised
    BY <1>r, <2>1, <2>4, ElsewhereEarned
  <2> QED
    BY <2>2, <2>3, <2>4
<1>5. ASSUME NEW r \in Reviews, ShadowReview(r) PROVE Earning'
  <2>1. UNCHANGED <<deployment, lane, raised, agreements, mute>>
    BY <1>5 DEF ShadowReview, rowVars, historyVars
  <2>2. /\ \E phase \in {"shadowRecord", "count"} :
             pc' = [pc EXCEPT ![r] = phase] /\ (phase = "shadowRecord" => outcome'[r] # "none")
        /\ \A q \in Reviews : q # r => outcome'[q] = outcome[q]
    BY <1>5 DEF ShadowReview, Go, TypeOK
  <2> QED
    BY <1>r, <2>1, <2>2, ElsewhereEarned
<1>6. ASSUME NEW r \in Reviews, ShadowRecord(r) PROVE Earning'
  <2>1. /\ deployment'.errors = deployment.errors
        /\ deployment'.shadows = deployment.shadows + 1
        /\ deployment'.disagreements = deployment.disagreements + (IF Differs(r) THEN 1 ELSE 0)
    BY <1>6, ShadowCounts
  <2>2. /\ agreements' = agreements + (IF outcome[r] = "agreed" THEN 1 ELSE 0)
        /\ mute' = mute + (IF outcome[r] = "failed" /\ ~Differs(r) THEN 1 ELSE 0)
        /\ UNCHANGED <<lane, outcome, raised>>
    BY <1>6 DEF ShadowRecord
  <2>3. outcome[r] \in {"agreed", "disagreed", "failed"}
    BY <1>6 DEF ShadowRecord, Earning, TypeOK
  <2>4. \E phase \in {"promotionAlert", "shadowAudit"} : pc' = [pc EXCEPT ![r] = phase]
    BY <1>6 DEF ShadowRecord, Go
  <2>5. /\ deployment.errors \in Nat /\ deployment.shadows \in Nat /\ deployment.disagreements \in Nat
        /\ agreements \in Nat /\ mute \in Nat
    BY DEF TypeOK, RowType
  <2>6. Booked'
    <3>2. PICK phase \in {"promotionAlert", "shadowAudit"} : pc' = [pc EXCEPT ![r] = phase]
      BY <2>4
    <3>3. phase # "error" /\ raised' = raised /\ \A q \in Reviews : q # r => lane'[q] = lane[q]
      BY <2>2
    <3> QED
      BY <1>r, <2>1, <3>2, <3>3, RaisingStep
  <2>7. deployment'.shadows = agreements' + mute' + deployment'.disagreements
    <3>1. deployment.shadows = agreements + mute + deployment.disagreements
      BY DEF Earning
    <3>2. CASE outcome[r] = "agreed"
      BY <2>1, <2>2, <2>5, <3>1, <3>2 DEF Differs
    <3>3. CASE outcome[r] = "disagreed"
      BY <2>1, <2>2, <2>5, <3>1, <3>3 DEF Differs
    <3>4. CASE outcome[r] = "failed"
      BY <2>1, <2>2, <2>5, <3>1, <3>4 DEF Differs
    <3> QED
      BY <2>3, <3>2, <3>3, <3>4
  <2>8. \A q \in Reviews : pc'[q] = "shadowRecord" => outcome'[q] # "none"
    BY <2>2, <2>4 DEF Earning, TypeOK
  <2> QED
    BY <2>6, <2>7, <2>8 DEF Earning
<1>7. ASSUME NEW r \in Reviews, Count(r) \/ Error(r) PROVE Earning'
  <2>1. UNCHANGED <<lane, outcome, raised, agreements, mute>>
    BY <1>7 DEF Count, Error, historyVars
  <2>2. \E phase \in {"countAlert", "comment", "errorAlert", "queued", "dead"} : pc' = [pc EXCEPT ![r] = phase]
    BY <1>7 DEF Count, Error, Observe, Go, Requeued
  <2>3. CASE lane[r] # "canary"
    <3>1. deployment' = deployment
      BY <1>7, <2>3 DEF Count, Error
    <3> QED
      BY <1>r, <2>1, <2>2, <3>1, ElsewhereEarned
  <2>4. CASE lane[r] = "canary"
    <3>1. /\ \/ deployment'.errors = deployment.errors
             \/ deployment'.errors = deployment.errors + 1 /\ r \in Raising
          /\ deployment'.shadows = deployment.shadows
          /\ deployment'.disagreements = deployment.disagreements
      <4>0. deployment.errors \in Nat
        BY DEF TypeOK, RowType
      <4>1. CASE Count(r)
        <5>1. PICK f \in BOOLEAN : f = FALSE /\ RecordResult(f)
          BY <2>4, <4>1 DEF Count, Observe
        <5>2. /\ deployment'.errors = deployment.errors + (IF f THEN 1 ELSE 0)
              /\ deployment'.shadows = deployment.shadows
              /\ deployment'.disagreements = deployment.disagreements
          BY <5>1, ResultCounts, Zenon
        <5> QED
          BY <4>0, <5>1, <5>2
      <4>2. CASE Error(r)
        <5>1. RecordResult(TRUE) /\ r \in Raising
          BY <2>4, <4>2 DEF Error, Observe, Raising
        <5> QED
          BY <4>0, <5>1, ResultCounts
      <4> QED
        BY <1>7, <4>1, <4>2
    <3>2. Booked'
      <4>1. PICK phase \in {"countAlert", "comment", "errorAlert", "queued", "dead"} :
              pc' = [pc EXCEPT ![r] = phase]
        BY <2>2
      <4>2. phase # "error" /\ raised' = raised /\ \A q \in Reviews : q # r => lane'[q] = lane[q]
        BY <2>1
      <4> QED
        BY <1>r, <3>1, <4>1, <4>2, RaisingStep
    <3>3. deployment'.shadows = agreements' + mute' + deployment'.disagreements
      BY <2>1, <3>1 DEF Earning
    <3>4. \A q \in Reviews : pc'[q] = "shadowRecord" => outcome'[q] # "none"
      BY <2>1, <2>2 DEF Earning, TypeOK
    <3> QED
      BY <3>2, <3>3, <3>4 DEF Earning
  <2> QED
    BY <2>3, <2>4
<1>8. ASSUME NEW r \in Reviews, WriteFails(r) PROVE Earning'
  <2>1. UNCHANGED <<deployment, lane, agreements, mute>>
    BY <1>8 DEF WriteFails, rowVars
  <2>2. CASE ShadowWriteFails(r)
    <3>1. /\ pc' = [pc EXCEPT ![r] = "shadowRecord"] /\ outcome'[r] = "failed" /\ raised' = raised
          /\ \A q \in Reviews : q # r => outcome'[q] = outcome[q]
      BY <2>2 DEF ShadowWriteFails, Go, TypeOK
    <3> QED
      BY <1>r, <2>1, <3>1, ElsewhereEarned
  <2>3. CASE ReviewWriteFails(r)
    BY <2>1, <2>3, GoErrorEarned DEF ReviewWriteFails
  <2>4. CASE ErrorWriteFails(r)
    BY <1>r, <2>1, <2>4, ElsewhereEarned DEF ErrorWriteFails, Go, Requeued
  <2> QED
    BY <1>8, <2>2, <2>3, <2>4 DEF WriteFails
<1>9. CASE UNCHANGED vars
  BY <1>9 DEF vars, rowVars, reviewVars, historyVars, Earning, Booked, Raising
<1> QED
  BY <1>1, <1>2, <1>3, <1>4, <1>5, <1>6, <1>7, <1>8, <1>9 DEF Next, Review

\* Nothing has been counted at first.
LEMMA InitEarned == Init => Earning
<1> SUFFICES ASSUME Init PROVE Earning
  OBVIOUS
<1>1. Raising = {}
  BY DEF Init, Raising
<1>2. IsFiniteSet(Raising) /\ Cardinality(Raising) = 0
  BY <1>1, FS_EmptySet
<1> QED
  BY <1>2 DEF Init, NoRow, Row, Earning, Booked

\* A step that gives a verdict has what it takes.
LEMMA StepVerdict ==
  ASSUME TypeOK, Earning, [Next]_vars
  PROVE  /\ deployment.status = "running" /\ deployment'.status = "rolled_back" =>
              /\ deployment'.samples >= MinSamples
              /\ raised' * 100 > MaxErrorRate * deployment'.samples
         /\ deployment.status # "promoted" /\ deployment'.status = "promoted" =>
              /\ agreements' + mute' + deployment'.disagreements >= MinSamples
              /\ (deployment'.shadows - agreements' - mute') * 100
                     <= MaxDisagreementRate * deployment'.shadows
<1>e. Earning' /\ TypeOK'
  BY StepEarned, StepTyped
<1>1. /\ deployment'.errors \in Nat /\ deployment'.samples \in Nat /\ deployment'.errors <= raised'
      /\ raised' \in Nat
  <2>1. IsFiniteSet(Raising') /\ deployment'.errors + Cardinality(Raising') <= raised'
    BY <1>e DEF Earning, Booked
  <2>2. Cardinality(Raising') \in Nat
    BY <2>1, FS_CardinalityType
  <2>3. deployment'.errors \in Nat /\ deployment'.samples \in Nat /\ raised' \in Nat
    BY <1>e DEF TypeOK, RowType
  <2> QED
    BY <2>1, <2>2, <2>3
<1>2. /\ agreements' \in Nat /\ mute' \in Nat /\ deployment'.disagreements \in Nat
      /\ deployment'.shadows = agreements' + mute' + deployment'.disagreements
  BY <1>e DEF Earning, TypeOK, RowType
<1>3. ASSUME NEW r \in Reviews, NEW failed \in BOOLEAN, RecordResult(failed),
             deployment.status = "running", deployment'.status = "rolled_back"
      PROVE  deployment'.samples >= MinSamples /\ raised' * 100 > MaxErrorRate * deployment'.samples
  <2>1. deployment'.samples >= MinSamples /\ deployment'.errors * 100 > MaxErrorRate * deployment'.samples
    BY <1>3, ResultCounts
  <2>2. raised' * 100 >= deployment'.errors * 100
    BY <1>1
  <2>3. MaxErrorRate * deployment'.samples \in Int
    BY <1>1, RolloutAssumption
  <2> QED
    BY <1>1, <2>1, <2>2, <2>3
<1>4. ASSUME deployment.status = "running", deployment'.status = "rolled_back"
      PROVE  \E r \in Reviews, failed \in BOOLEAN : RecordResult(failed)
  <2>1. ASSUME NEW c \in Requests PROVE ~Configure(c)
    BY <1>4, <2>1, RolloutAssumption DEF Configure, Row, RequestType
  <2>2. ASSUME NEW r \in Reviews PROVE ~ShadowRecord(r)
    BY <1>4, <2>2, ShadowRow
  <2>3. deployment' # deployment
    BY <1>4
  <2>4. PICK r \in Reviews : Count(r) \/ Error(r)
    BY <2>1, <2>2, <2>3 DEF Next, Review, Create, Choose, PickCandidate, RunReview, ShadowReview, PromotionAlert,
       ShadowAudit, CountAlert, Comment, ErrorAlert, WriteFails, Die, rowVars, vars
  <2> QED
    BY <2>3, <2>4 DEF Count, Error, Observe
<1>5. ASSUME deployment.status # "promoted", deployment'.status = "promoted"
      PROVE  \E r \in Reviews : ShadowRecord(r)
  <2>1. ASSUME NEW c \in Requests PROVE ~Configure(c)
    BY <1>5, <2>1, RolloutAssumption DEF Configure, Row, RequestType
  <2>2. ASSUME NEW r \in Reviews PROVE ~Count(r) /\ ~Error(r)
    BY <1>5, <2>2, ResultRow DEF Count, Error, Observe
  <2>3. deployment' # deployment
    BY <1>5
  <2> QED
    BY <2>1, <2>2, <2>3 DEF Next, Review, Create, Choose, PickCandidate, RunReview, ShadowReview, PromotionAlert,
       ShadowAudit, CountAlert, Comment, ErrorAlert, WriteFails, Die, rowVars, vars
<1>6. ASSUME deployment.status # "promoted", deployment'.status = "promoted"
      PROVE  /\ agreements' + mute' + deployment'.disagreements >= MinSamples
             /\ (deployment'.shadows - agreements' - mute') * 100 <= MaxDisagreementRate * deployment'.shadows
  <2>1. /\ deployment'.shadows >= MinSamples
        /\ deployment'.disagreements * 100 <= MaxDisagreementRate * deployment'.shadows
    BY <1>5, <1>6, ShadowCounts
  <2>2. deployment'.shadows - agreements' - mute' = deployment'.disagreements
    BY <1>2
  <2> QED
    BY <1>2, <2>1, <2>2
<1> QED
  BY <1>3, <1>4, <1>6

\* A verdict is earned: a rollback by attempts that raised, a promotion by
\* observations that agreed, though one review may be counted several times and
\* deployments are configured over one another.
THEOREM VerdictsEarned == Spec => VerdictEarned
<1>1. TypeOK /\ Earning /\ [Next]_vars =>
        [/\ deployment.status = "running" /\ deployment'.status = "rolled_back" =>
              /\ deployment'.samples >= MinSamples
              /\ raised' * 100 > MaxErrorRate * deployment'.samples
         /\ deployment.status # "promoted" /\ deployment'.status = "promoted" =>
              /\ agreements' + mute' + deployment'.disagreements >= MinSamples
              /\ (deployment'.shadows - agreements' - mute') * 100
                     <= MaxDisagreementRate * deployment'.shadows]_vars
  BY StepVerdict
<1>2. Spec => []Earning
  BY InitEarned, StepEarned, RolloutTypes, PTL DEF Spec
<1> QED
  BY <1>1, <1>2, RolloutTypes, PTL DEF Spec, VerdictEarned

-----------------------------------------------------------------------------
(* Intake and repairs. *)

HIDE DEF Writing, Working, AlertPhases

-----------------------------------------------------------------------------
(* Types. *)

Positions == {"idle", "claim", "supported", "refused", "submit", "complete"}
Handling  == [pc : Positions, delivery : Nat, task : Nat \cup {NoTask}]
Delivered == [version : Nat, kind : Kinds]
Task      == [delivery : Nat, diff : Nat]
Files     == UNION {[P -> Nat] : P \in SUBSET Lines}
Written   == [parent : Nat, files : Files]
Repairing == [pc : {"idle", "read", "branch", "draft"}, task : Nat \cup {NoTask}, sha : Nat,
              branch : Branches \cup {NoBranch}, found : SUBSET Lines, todo : SUBSET Paths, files : Files, passed : Written]

IntakeTypes ==
    /\ versions \in Seq([Lines -> Nat \ {0}]) /\ versions # <<>>
    /\ deliveries \in Seq(Delivered)
    /\ handler \in [Handlers -> Handling]
    /\ tasks \in Seq(Task)

FixTypes == fixer \in [Fixers -> Repairing]

-----------------------------------------------------------------------------
(* Facts about the data. *)

\* The plan with the content of one more file, and the edits made in it.
Added(files, edits, path, v) ==
    [l \in DOMAIN files \cup Of(path) |->
        IF l \in edits THEN Edited ELSE IF l \in Of(path) THEN v[l] ELSE files[l]]

\* A content read is added to the plan.
LEMMA Planned ==
    ASSUME NEW files \in Files, NEW edits, NEW path, NEW v \in [Lines -> Nat \ {0}]
    PROVE  Added(files, edits, path, v) \in Files
  <1>1. PICK P \in SUBSET Lines : files \in [P -> Nat]  BY DEF Files
  <1>2. DOMAIN files = P  BY <1>1
  <1>3. [l \in P \cup Of(path) |-> IF l \in edits THEN Edited ELSE IF l \in Of(path) THEN v[l] ELSE files[l]]
          \in [P \cup Of(path) -> Nat]
    BY <1>1 DEF Edited, Of
  <1>4. P \cup Of(path) \in SUBSET Lines  BY DEF Of
  <1>. QED  BY <1>2, <1>3, <1>4 DEF Files, Added

\* The records of a request.
LEMMA Records ==
    /\ Idle \in Handling
    /\ \A r \in Handling : r.pc \in Positions /\ r.delivery \in Nat /\ r.task \in Nat \cup {NoTask}
    /\ \A r \in Handling, p \in Positions :
          /\ [r EXCEPT !.pc = p] \in Handling
          /\ [r EXCEPT !.pc = p].pc = p
          /\ [r EXCEPT !.pc = p].delivery = r.delivery
          /\ [r EXCEPT !.pc = p].task = r.task
    /\ \A d \in Nat : [Idle EXCEPT !.pc = "claim", !.delivery = d] \in Handling
    /\ \A r \in Handling, t \in Nat : [r EXCEPT !.pc = "submit", !.task = t] \in Handling
    BY DEF Idle, Handling, Positions

\* A delivery and a task.
LEMMA Elements ==
    ASSUME IntakeTypes
    PROVE  /\ \A d \in DOMAIN deliveries : d \in Nat /\ deliveries[d] \in Delivered
           /\ \A d \in DOMAIN deliveries : deliveries[d].kind \in {"supported", "refused"} /\ deliveries[d].version \in Nat
           /\ \A t \in DOMAIN tasks : t \in Nat /\ tasks[t] \in Task
           /\ \A t \in DOMAIN tasks : tasks[t].delivery \in Nat /\ tasks[t].diff \in Nat
           /\ HeadVersion \in Nat \ {0} /\ versions[HeadVersion] \in [Lines -> Nat \ {0}]
  <1>1. \A d \in DOMAIN deliveries : d \in Nat /\ deliveries[d] \in Delivered  BY DEF IntakeTypes
  <1>2. \A t \in DOMAIN tasks : t \in Nat /\ tasks[t] \in Task  BY DEF IntakeTypes
  <1>3. HeadVersion \in Nat \ {0} /\ versions[HeadVersion] \in [Lines -> Nat \ {0}]  BY DEF IntakeTypes,
      HeadVersion
  <1>. QED  BY <1>1, <1>2, <1>3 DEF Delivered, Task, Kinds

\* The empty values are of their types.
LEMMA Empty == NoFiles \in Files /\ NoCommit \in Written /\ Resting \in Repairing
  <1>1. NoFiles \in [{} -> Nat] /\ {} \in SUBSET Lines  BY DEF NoFiles
  <1>2. NoFiles \in Files  BY <1>1 DEF Files
  <1>3. NoCommit \in Written  BY <1>2 DEF NoCommit, Written
  <1>. QED  BY <1>2, <1>3 DEF Resting, Repairing


-----------------------------------------------------------------------------
(* The intake. *)

Handled(h) == handler[h].pc \in {"supported", "refused", "submit", "complete"}

\* A request past its claim is the only one at its delivery, and the claim has
\* no task yet.
Claims ==
    /\ \A h \in Handlers : handler[h].pc # "idle" => handler[h].delivery \in DOMAIN deliveries
    /\ \A h \in Handlers : Handled(h) =>
          handler[h].delivery \in DOMAIN webhooks /\ webhooks[handler[h].delivery] = NoTask
    /\ \A h \in Handlers : handler[h].pc \in {"supported", "submit", "complete"} =>
          deliveries[handler[h].delivery].kind = "supported"
    /\ \A g, h \in Handlers :
          Handled(g) /\ Handled(h) /\ handler[g].delivery = handler[h].delivery => g = h

\* Tasks are made of claimed deliveries, one of each, by the request that has
\* the claim.
Origins ==
    /\ \A t \in DOMAIN tasks :
          /\ tasks[t].delivery \in DOMAIN webhooks \cap DOMAIN deliveries
          /\ deliveries[tasks[t].delivery].kind = "supported"
    /\ \A s, t \in DOMAIN tasks : tasks[s].delivery = tasks[t].delivery => s = t
    /\ \A h \in Handlers : handler[h].pc = "supported" =>
          \A t \in DOMAIN tasks : tasks[t].delivery # handler[h].delivery
    /\ \A h \in Handlers : handler[h].pc \in {"submit", "complete"} =>
          /\ handler[h].task \in DOMAIN tasks
          /\ tasks[handler[h].task].delivery = handler[h].delivery
    /\ \A h \in Handlers : handler[h].pc = "complete" => handler[h].task \in queued
    /\ queued \subseteq DOMAIN tasks
    /\ \A d \in DOMAIN webhooks : webhooks[d] # NoTask =>
          webhooks[d] \in queued /\ tasks[webhooks[d]].delivery = d

\* A diff is fetched of a head not older than the delivery.
Diffs ==
    /\ reports \subseteq queued
    /\ \A d \in DOMAIN deliveries : deliveries[d].version <= HeadVersion
    /\ \A t \in DOMAIN tasks : tasks[t].diff # 0 => tasks[t].diff >= deliveries[tasks[t].delivery].version
    /\ \A t \in reports : tasks[t].diff # 0

\* A step of the intake keeps its types.
LEMMA IntakeTypesStep ==
    ASSUME IntakeTypes, Claims, Intake
    PROVE  IntakeTypes'
  <1>. USE DEF IntakeTypes
  <1>1. ASSUME NEW changed \in Changes, NEW kind \in Kinds, Push(changed, kind) PROVE IntakeTypes'
    <2>1. Len(versions) \in Nat /\ versions[Len(versions)] \in [Lines -> Nat \ {0}]  OBVIOUS
    <2>2. [l \in Lines |-> IF l \in changed THEN Len(versions) + 1 ELSE versions[Len(versions)][l]] \in [Lines -> Nat \ {0}]
      BY <2>1
    <2>3. versions' \in Seq([Lines -> Nat \ {0}])  BY <1>1, <2>2 DEF Push, HeadVersion
    <2>5. Len(versions') = Len(versions) + 1  BY <1>1 DEF Push
    <2>6. versions' # <<>>  BY <2>1, <2>5
    <2>4. deliveries' \in Seq(Delivered)  BY <1>1, <2>1 DEF Push, HeadVersion, Delivered
    <2>. QED  BY <1>1, <2>3, <2>4, <2>6 DEF Push
  <1>2. ASSUME NEW h \in Handlers, NEW d \in DOMAIN deliveries, Receive(h, d) PROVE IntakeTypes'
    <2>1. [Idle EXCEPT !.pc = "claim", !.delivery = d] \in Handling  BY Elements, Records
    <2>. QED  BY <1>2, <2>1 DEF Receive, Proceed, rest
  <1>3. ASSUME NEW h \in Handlers, Claim(h) PROVE IntakeTypes'
    <2>1. handler' \in [Handlers -> Handling]
      <3>1. CASE Claimed(handler[h].delivery)  BY <1>3, <3>1, Records DEF Claim, Proceed
      <3>2. CASE ~Claimed(handler[h].delivery)
        <4>1. handler[h].delivery \in DOMAIN deliveries  BY <1>3 DEF Claim, At, Claims
        <4>2. deliveries[handler[h].delivery].kind \in Positions  BY <4>1, Elements DEF Positions
        <4>3. [handler[h] EXCEPT !.pc = deliveries[handler[h].delivery].kind] \in Handling
          BY <4>2, Records
        <4>. QED  BY <1>3, <3>2, <4>3 DEF Claim, Proceed
      <3>. QED  BY <3>1, <3>2
    <2>. QED  BY <1>3, <2>1 DEF Claim, rest
  <1>4. ASSUME NEW h \in Handlers, Refuse(h) PROVE IntakeTypes'
    BY <1>4, Records DEF Refuse, Proceed, rest
  <1>5. ASSUME NEW h \in Handlers, CreateTask(h) PROVE IntakeTypes'
    <2>1. [delivery |-> handler[h].delivery, diff |-> 0] \in Task  BY Records DEF Task
    <2>2. tasks' \in Seq(Task)  BY <1>5, <2>1 DEF CreateTask
    <2>3. [handler[h] EXCEPT !.pc = "submit", !.task = Len(tasks) + 1] \in Handling
      <3>1. Len(tasks) + 1 \in Nat  OBVIOUS
      <3>. QED  BY <3>1, Records
    <2>4. handler' \in [Handlers -> Handling]  BY <1>5, <2>3 DEF CreateTask, Proceed
    <2>. QED  BY <1>5, <2>2, <2>4 DEF CreateTask, rest
  <1>6. ASSUME NEW h \in Handlers, Submit(h) PROVE IntakeTypes'
    <2>1. [handler[h] EXCEPT !.pc = "complete"] \in Handling  BY Records DEF Positions
    <2>. QED  BY <1>6, <2>1 DEF Submit, Proceed, rest
  <1>7. ASSUME NEW h \in Handlers, Complete(h) PROVE IntakeTypes'
    BY <1>7, Records DEF Complete, Proceed, rest
  <1>8. ASSUME NEW h \in Handlers, Break(h) PROVE IntakeTypes'
    BY <1>8, Records DEF Break, Proceed
  <1>9. ASSUME NEW t \in DOMAIN tasks, Fetch(t) PROVE IntakeTypes'
    <2>1. [tasks[t] EXCEPT !.diff = HeadVersion] \in Task
      <3>1. tasks[t] \in Task /\ HeadVersion \in Nat  BY Elements
      <3>. QED  BY <3>1 DEF Task
    <2>2. tasks' \in Seq(Task)  BY <1>9, <2>1 DEF Fetch
    <2>. QED  BY <1>9, <2>2 DEF Fetch, rest
  <1>10. ASSUME NEW t \in DOMAIN tasks, Report(t) PROVE IntakeTypes'  BY <1>10 DEF Report
  <1>. QED  BY <1>1, <1>2, <1>3, <1>4, <1>5, <1>6, <1>7, <1>8, <1>9, <1>10 DEF Intake

\* The INSERT of a delivery that was not claimed.
LEMMA Claiming ==
    ASSUME IntakeTypes, Claims, NEW h \in Handlers, Claim(h), ~Claimed(handler[h].delivery)
    PROVE  /\ handler[h].delivery \in DOMAIN deliveries
           /\ \A g \in Handlers : handler'[g].delivery = handler[g].delivery
           /\ handler'[h].pc = deliveries[handler[h].delivery].kind
           /\ handler'[h].pc \in {"supported", "refused"}
           /\ \A g \in Handlers \ {h} : handler'[g] = handler[g]
           /\ webhooks' = [e \in DOMAIN webhooks \cup {handler[h].delivery} |->
                              IF e = handler[h].delivery THEN NoTask ELSE webhooks[e]]
           /\ UNCHANGED <<deliveries, tasks, queued>>
  <1>1. handler[h].delivery \in DOMAIN deliveries  BY DEF Claim, At, Claims
  <1>2. deliveries[handler[h].delivery].kind \in {"supported", "refused"}  BY <1>1, Elements
  <1>3. /\ handler' = [handler EXCEPT ![h] = [handler[h] EXCEPT !.pc = deliveries[handler[h].delivery].kind]]
        /\ webhooks' = [e \in DOMAIN webhooks \cup {handler[h].delivery} |->
                           IF e = handler[h].delivery THEN NoTask ELSE webhooks[e]]
        /\ UNCHANGED <<deliveries, tasks, queued>>
    BY DEF Claim, Proceed, rest
  <1>4. handler \in [Handlers -> Handling] /\ handler[h] \in Handling  BY DEF IntakeTypes
  <1>5. \A g \in Handlers \ {h} : handler'[g] = handler[g]  BY <1>3, <1>4
  <1>6. handler'[h] = [handler[h] EXCEPT !.pc = deliveries[handler[h].delivery].kind]  BY <1>3, <1>4
  <1>7. handler'[h].delivery = handler[h].delivery /\ handler'[h].pc = deliveries[handler[h].delivery].kind
    BY <1>4, <1>6 DEF Handling
  <1>. QED  BY <1>1, <1>2, <1>3, <1>5, <1>7

\* A claim is taken by one request, and it stays its own until it has ended.
LEMMA ClaimsStep ==
    ASSUME IntakeTypes, Claims, Intake
    PROVE  Claims'
  <1>. USE DEF IntakeTypes, Claims, Handled, At, Proceed
  <1>1. ASSUME NEW changed \in Changes, NEW kind \in Kinds, Push(changed, kind) PROVE Claims'
    <2>1. \A d \in DOMAIN deliveries : d \in DOMAIN deliveries' /\ deliveries'[d] = deliveries[d]
      BY <1>1 DEF Push
    <2>. QED  BY <1>1, <2>1 DEF Push
  <1>2. ASSUME NEW h \in Handlers, NEW d \in DOMAIN deliveries, Receive(h, d) PROVE Claims'
    BY <1>2 DEF Receive, Idle, rest
  <1>3. ASSUME NEW h \in Handlers, Claim(h) PROVE Claims'
    <2>1. CASE Claimed(handler[h].delivery)
      <3>1. handler' = [handler EXCEPT ![h] = Idle] /\ UNCHANGED <<webhooks, deliveries>>
        BY <1>3, <2>1 DEF Claim, rest
      <3>. QED  BY <3>1 DEF Idle
    <2>2. CASE ~Claimed(handler[h].delivery)
      <3>1. \A g \in Handlers : Handled(g) => handler[g].delivery # handler[h].delivery
        BY <2>2 DEF Claimed
      <3>2. /\ \A g \in Handlers : handler'[g].delivery = handler[g].delivery
            /\ handler'[h].pc = deliveries[handler[h].delivery].kind
            /\ \A g \in Handlers \ {h} : handler'[g] = handler[g]
            /\ webhooks' = [e \in DOMAIN webhooks \cup {handler[h].delivery} |->
                               IF e = handler[h].delivery THEN NoTask ELSE webhooks[e]]
            /\ deliveries' = deliveries
        BY <1>3, <2>2, Claiming
      <3>3. handler[h].delivery \in DOMAIN deliveries  BY <1>3, <2>2, Claiming
      <3>4. deliveries[handler[h].delivery].kind \in {"supported", "refused"}
        BY <3>3, Elements
      <3>5. \A g \in Handlers \ {h} : Handled(g)' <=> Handled(g)  BY <3>2
      <3>6. (\A g \in Handlers : handler[g].pc # "idle" => handler[g].delivery \in DOMAIN deliveries)'
        BY <3>2, <3>3
      <3>7. (\A g \in Handlers : Handled(g) =>
              handler[g].delivery \in DOMAIN webhooks /\ webhooks[handler[g].delivery] = NoTask)'
        BY <3>1, <3>2, <3>5
      <3>8. (\A g \in Handlers : handler[g].pc \in {"supported", "submit", "complete"} =>
              deliveries[handler[g].delivery].kind = "supported")'
        BY <3>2, <3>4
      <3>9. (\A f, g \in Handlers :
              Handled(f) /\ Handled(g) /\ handler[f].delivery = handler[g].delivery => f = g)'
        <4>1. ASSUME NEW f \in Handlers, NEW g \in Handlers, Handled(f)', Handled(g)',
                     handler'[f].delivery = handler'[g].delivery
              PROVE  f = g
          <5>1. handler[f].delivery = handler[g].delivery  BY <3>2, <4>1
          <5>2. f = h \/ Handled(f)  BY <3>5, <4>1
          <5>3. g = h \/ Handled(g)  BY <3>5, <4>1
          <5>. QED  BY <3>1, <5>1, <5>2, <5>3
        <4>. QED  BY <4>1
      <3>. QED  BY <3>6, <3>7, <3>8, <3>9
    <2>. QED  BY <2>1, <2>2
  <1>4. ASSUME NEW h \in Handlers, Refuse(h) PROVE Claims'
    BY <1>4 DEF Refuse, Completed, Idle, rest
  <1>5. ASSUME NEW h \in Handlers, CreateTask(h) PROVE Claims'
    <2>1. \A g \in Handlers : /\ handler'[g].delivery = handler[g].delivery
                              /\ handler'[g].pc = IF g = h THEN "submit" ELSE handler[g].pc
      BY <1>5 DEF CreateTask, Handling
    <2>. QED  BY <1>5, <2>1 DEF CreateTask, rest
  <1>6. ASSUME NEW h \in Handlers, Submit(h) PROVE Claims'
    <2>1. \A g \in Handlers : /\ handler'[g].delivery = handler[g].delivery
                              /\ handler'[g].pc = IF g = h THEN "complete" ELSE handler[g].pc
      BY <1>6 DEF Submit, Handling
    <2>. QED  BY <1>6, <2>1 DEF Submit, rest
  <1>7. ASSUME NEW h \in Handlers, Complete(h) PROVE Claims'
    <2>1. \A g \in Handlers : Handled(g)' => g # h /\ handler'[g] = handler[g]
      BY <1>7 DEF Complete, Idle
    <2>2. \A g \in Handlers \ {h} : Handled(g) => webhooks'[handler[g].delivery] = webhooks[handler[g].delivery]
      BY <1>7 DEF Complete, Completed
    <2>3. DOMAIN webhooks' = DOMAIN webhooks /\ deliveries' = deliveries  BY <1>7 DEF Complete,
        Completed, rest
    <2>. QED  BY <1>7, <2>1, <2>2, <2>3 DEF Complete, Idle
  <1>8. ASSUME NEW h \in Handlers, Break(h) PROVE Claims'  BY <1>8 DEF Break, Idle
  <1>9. ASSUME NEW t \in DOMAIN tasks, Fetch(t) \/ Report(t) PROVE Claims'
    BY <1>9 DEF Fetch, Report, rest
  <1>. QED  BY <1>1, <1>2, <1>3, <1>4, <1>5, <1>6, <1>7, <1>8, <1>9 DEF Intake

\* A task is made once, of a delivery that its request has claimed.
LEMMA OriginsStep ==
    ASSUME IntakeTypes, Claims, Origins, Intake
    PROVE  Origins'
  <1>. USE DEF Origins, At, Proceed
  <1>1. ASSUME NEW changed \in Changes, NEW kind \in Kinds, Push(changed, kind) PROVE Origins'
    <2>1. \A d \in DOMAIN deliveries : d \in DOMAIN deliveries' /\ deliveries'[d] = deliveries[d]
      BY <1>1 DEF Push, IntakeTypes
    <2>. QED  BY <1>1, <2>1 DEF Push
  <1>2. ASSUME NEW h \in Handlers, NEW d \in DOMAIN deliveries, Receive(h, d) PROVE Origins'
    <2>1. \A g \in Handlers : handler'[g].pc = "claim" \/ handler'[g] = handler[g]
      BY <1>2 DEF Receive, Idle, IntakeTypes
    <2>. QED  BY <1>2, <2>1 DEF Receive, rest
  <1>3. ASSUME NEW h \in Handlers, Claim(h) PROVE Origins'
    <2>1. CASE Claimed(handler[h].delivery)
      <3>1. \A g \in Handlers : handler'[g].pc = "idle" \/ handler'[g] = handler[g]
        BY <1>3, <2>1 DEF Claim, Idle, IntakeTypes
      <3>. QED  BY <1>3, <2>1, <3>1 DEF Claim, rest
    <2>2. CASE ~Claimed(handler[h].delivery)
      <3>1. \A t \in DOMAIN tasks : tasks[t].delivery # handler[h].delivery  BY <2>2 DEF Claimed
      <3>2. /\ \A g \in Handlers : handler'[g].delivery = handler[g].delivery
            /\ \A g \in Handlers \ {h} : handler'[g] = handler[g]
            /\ handler'[h].pc \in {"supported", "refused"}
            /\ webhooks' = [e \in DOMAIN webhooks \cup {handler[h].delivery} |->
                               IF e = handler[h].delivery THEN NoTask ELSE webhooks[e]]
            /\ UNCHANGED <<deliveries, tasks, queued>>
        BY <1>3, <2>2, Claiming
      <3>. QED  BY <3>1, <3>2
    <2>. QED  BY <2>1, <2>2
  <1>4. ASSUME NEW h \in Handlers, Refuse(h) PROVE Origins'
    <2>1. \A g \in Handlers : handler'[g].pc = "idle" \/ handler'[g] = handler[g]
      BY <1>4 DEF Refuse, Idle, IntakeTypes
    <2>. QED  BY <1>4, <2>1 DEF Refuse, Completed, rest
  <1>5. ASSUME NEW h \in Handlers, CreateTask(h) PROVE Origins'
    <2>. DEFINE t == Len(tasks) + 1
    <2>1. /\ DOMAIN tasks' = DOMAIN tasks \cup {t} /\ t \notin DOMAIN tasks
          /\ \A s \in DOMAIN tasks : tasks'[s] = tasks[s]
          /\ tasks'[t].delivery = handler[h].delivery
      BY <1>5 DEF CreateTask, IntakeTypes
    <2>2. /\ \A g \in Handlers \ {h} : handler'[g] = handler[g]
          /\ handler'[h].pc = "submit" /\ handler'[h].task = t /\ handler'[h].delivery = handler[h].delivery
      BY <1>5 DEF CreateTask, IntakeTypes, Handling
    <2>3. /\ handler[h].delivery \in DOMAIN deliveries \cap DOMAIN webhooks
          /\ deliveries[handler[h].delivery].kind = "supported"
          /\ \A g \in Handlers \ {h} : Handled(g) => handler[g].delivery # handler[h].delivery
      BY <1>5 DEF CreateTask, Claims, Handled
    <2>4. \A s \in DOMAIN tasks : tasks[s].delivery # handler[h].delivery  BY <1>5 DEF CreateTask
    <2>5. UNCHANGED <<webhooks, deliveries, queued>>  BY <1>5 DEF CreateTask, rest
    <2>. HIDE DEF t
    <2>6. (\A r \in DOMAIN tasks :
             /\ tasks[r].delivery \in DOMAIN webhooks \cap DOMAIN deliveries
             /\ deliveries[tasks[r].delivery].kind = "supported")'
      BY <2>1, <2>3, <2>5
    <2>7. (\A r, s \in DOMAIN tasks : tasks[r].delivery = tasks[s].delivery => r = s)'
      BY <2>1, <2>4
    <2>8. (\A g \in Handlers : handler[g].pc = "supported" =>
             \A r \in DOMAIN tasks : tasks[r].delivery # handler[g].delivery)'
      BY <2>1, <2>2, <2>3 DEF Handled
    <2>9. (\A g \in Handlers : handler[g].pc \in {"submit", "complete"} =>
             handler[g].task \in DOMAIN tasks /\ tasks[handler[g].task].delivery = handler[g].delivery)'
      BY <2>1, <2>2
    <2>10. (\A g \in Handlers : handler[g].pc = "complete" => handler[g].task \in queued)'
      BY <2>2, <2>5
    <2>11. (queued \subseteq DOMAIN tasks /\ \A d \in DOMAIN webhooks : webhooks[d] # NoTask =>
              webhooks[d] \in queued /\ tasks[webhooks[d]].delivery = d)'
      BY <2>1, <2>5
    <2>. QED  BY <2>6, <2>7, <2>8, <2>9, <2>10, <2>11
  <1>6. ASSUME NEW h \in Handlers, Submit(h) PROVE Origins'
    <2>1. \A g \in Handlers : /\ handler'[g].pc = IF g = h THEN "complete" ELSE handler[g].pc
                              /\ handler'[g].task = handler[g].task /\ handler'[g].delivery = handler[g].delivery
      <3>1. handler' = [handler EXCEPT ![h] = [handler[h] EXCEPT !.pc = "complete"]]  BY <1>6 DEF Submit
      <3>2. handler \in [Handlers -> Handling] /\ handler[h] \in Handling  BY DEF IntakeTypes
      <3>3. handler'[h] = [handler[h] EXCEPT !.pc = "complete"]  BY <3>1, <3>2
      <3>4. \A g \in Handlers \ {h} : handler'[g] = handler[g]  BY <3>1, <3>2
      <3>5. /\ handler'[h].pc = "complete"
            /\ handler'[h].task = handler[h].task /\ handler'[h].delivery = handler[h].delivery
        BY <3>2, <3>3 DEF Handling
      <3>. QED  BY <3>4, <3>5
    <2>2. /\ queued' = queued \cup {handler[h].task} /\ handler[h].pc = "submit"
          /\ UNCHANGED <<tasks, webhooks, deliveries>>
      BY <1>6 DEF Submit, rest
    <2>. QED  BY <2>1, <2>2
  <1>7. ASSUME NEW h \in Handlers, Complete(h) PROVE Origins'
    <2>1. \A g \in Handlers : handler'[g].pc = "idle" \/ handler'[g] = handler[g]
      BY <1>7 DEF Complete, Idle, IntakeTypes
    <2>2. /\ webhooks' = [webhooks EXCEPT ![handler[h].delivery] = handler[h].task]
          /\ handler[h].pc = "complete" /\ UNCHANGED <<tasks, queued, deliveries>>
      BY <1>7 DEF Complete, Completed, rest
    <2>. QED  BY <2>1, <2>2
  <1>8. ASSUME NEW h \in Handlers, Break(h) PROVE Origins'
    <2>1. \A g \in Handlers : handler'[g].pc = "idle" \/ handler'[g] = handler[g]
      BY <1>8 DEF Break, Idle, IntakeTypes
    <2>. QED  BY <1>8, <2>1 DEF Break
  <1>9. ASSUME NEW t \in DOMAIN tasks, Fetch(t) PROVE Origins'
    <2>1. DOMAIN tasks' = DOMAIN tasks /\ \A s \in DOMAIN tasks : tasks'[s].delivery = tasks[s].delivery
      BY <1>9, Elements DEF Fetch, Task
    <2>. QED  BY <1>9, <2>1 DEF Fetch, rest
  <1>10. ASSUME NEW t \in DOMAIN tasks, Report(t) PROVE Origins'  BY <1>10 DEF Report
  <1>. QED  BY <1>1, <1>2, <1>3, <1>4, <1>5, <1>6, <1>7, <1>8, <1>9, <1>10 DEF Intake

\* A task reads a version no older than its delivery.
LEMMA DiffsStep ==
    ASSUME IntakeTypes, Origins, Diffs, Intake
    PROVE  Diffs'
  <1>. USE DEF Diffs
  <1>1. ASSUME NEW changed \in Changes, NEW kind \in Kinds, Push(changed, kind) PROVE Diffs'
    <2>1. HeadVersion' = HeadVersion + 1 /\ HeadVersion \in Nat
      BY <1>1 DEF Push, HeadVersion, IntakeTypes
    <2>2. /\ \A d \in DOMAIN deliveries : deliveries'[d] = deliveries[d]
          /\ \A d \in DOMAIN deliveries' \ DOMAIN deliveries : deliveries'[d].version = HeadVersion + 1
      BY <1>1 DEF Push, IntakeTypes
    <2>3. \A d \in DOMAIN deliveries' : deliveries'[d].version <= HeadVersion'
      BY <2>1, <2>2, Elements
    <2>. QED  BY <1>1, <2>2, <2>3 DEF Push, Origins
  <1>2. ASSUME NEW h \in Handlers,
               \/ \E d \in DOMAIN deliveries : Receive(h, d)
               \/ Claim(h) \/ Refuse(h) \/ Complete(h) \/ Break(h)
        PROVE  Diffs'
    <2>1. UNCHANGED <<versions, deliveries, tasks, queued, reports>>
      BY <1>2 DEF Receive, Claim, Refuse, Complete, Break, rest
    <2>. QED  BY <2>1 DEF HeadVersion
  <1>3. ASSUME NEW h \in Handlers, CreateTask(h) PROVE Diffs'
    <2>1. /\ \A s \in DOMAIN tasks : s \in DOMAIN tasks' /\ tasks'[s] = tasks[s]
          /\ \A s \in DOMAIN tasks' \ DOMAIN tasks : tasks'[s].diff = 0
      BY <1>3 DEF CreateTask, IntakeTypes
    <2>2. UNCHANGED <<versions, deliveries, queued, reports>>  BY <1>3 DEF CreateTask, rest
    <2>. QED  BY <2>1, <2>2 DEF Origins, HeadVersion
  <1>4. ASSUME NEW h \in Handlers, Submit(h) PROVE Diffs'
    <2>1. UNCHANGED <<versions, deliveries, tasks, reports>> /\ queued \subseteq queued'
      BY <1>4 DEF Submit, rest
    <2>. QED  BY <2>1 DEF HeadVersion
  <1>5. ASSUME NEW t \in DOMAIN tasks, Fetch(t) PROVE Diffs'
    <2>1. /\ tasks[t].diff = 0 /\ UNCHANGED <<versions, deliveries, queued, reports>>
          /\ DOMAIN tasks' = DOMAIN tasks
          /\ tasks'[t].diff = HeadVersion /\ tasks'[t].delivery = tasks[t].delivery
          /\ \A s \in DOMAIN tasks \ {t} : tasks'[s] = tasks[s]
      BY <1>5, Elements DEF Fetch, rest, Task
    <2>2. tasks[t].delivery \in DOMAIN deliveries  BY DEF Origins
    <2>3. HeadVersion >= deliveries[tasks[t].delivery].version  BY <2>2, Elements
    <2>4. (\A s \in DOMAIN tasks : tasks[s].diff # 0 => tasks[s].diff >= deliveries[tasks[s].delivery].version)'
      BY <2>1, <2>3
    <2>5. HeadVersion' = HeadVersion /\ HeadVersion # 0  BY <2>1, Elements DEF HeadVersion
    <2>6. (\A s \in reports : tasks[s].diff # 0)'  BY <2>1, <2>5 DEF Origins
    <2>. QED  BY <2>1, <2>4, <2>5, <2>6
  <1>6. ASSUME NEW t \in DOMAIN tasks, Report(t) PROVE Diffs'
    BY <1>6 DEF Report, HeadVersion
  <1>. QED  BY <1>1, <1>2, <1>3, <1>4, <1>5, <1>6 DEF Intake

\* A repair changes nothing of the intake.
LEMMA IntakeRests ==
    ASSUME UNCHANGED intakeVars
    PROVE  /\ IntakeTypes => IntakeTypes'
           /\ Claims => Claims'
           /\ Origins => Origins'
           /\ Diffs => Diffs'
    BY DEF intakeVars, IntakeTypes, Claims, Handled, Origins, Diffs, HeadVersion

\* The inductive invariant of the intake.
Intaken == IntakeTypes /\ Claims /\ Origins /\ Diffs

\* The claims, the origins of tasks and their diffs hold whatever the handlers,
\* errors and deaths of the process (service.py, handle_github_webhook).
THEOREM IntakeHolds == PullSpec => []Intaken
  <1>1. PullInit => Intaken
    <2>. SUFFICES ASSUME PullInit PROVE Intaken  OBVIOUS
    <2>. USE DEF PullInit, IntakeInit
    <2>1. IntakeTypes
      <3>1. [l \in Lines |-> 1] \in [Lines -> Nat \ {0}]  OBVIOUS
      <3>2. [version |-> 1, kind |-> "supported"] \in Delivered  BY DEF Delivered, Kinds
      <3>3. versions \in Seq([Lines -> Nat \ {0}]) /\ versions # <<>>  BY <3>1
      <3>4. deliveries \in Seq(Delivered)  BY <3>2
      <3>5. handler \in [Handlers -> Handling]
        <4>1. Idle \in Handling  BY Records
        <4>. QED  BY <4>1
      <3>6. tasks \in Seq(Task)  OBVIOUS
      <3>. QED  BY <3>3, <3>4, <3>5, <3>6 DEF IntakeTypes
    <2>2. Claims  BY DEF Claims, Handled, Idle
    <2>3. Origins  BY DEF Origins, Idle
    <2>4. Diffs  BY DEF Diffs, HeadVersion
    <2>. QED  BY <2>1, <2>2, <2>3, <2>4 DEF Intaken
  <1>2. Intaken /\ [PullNext]_pullVars => Intaken'
    <2>. SUFFICES ASSUME Intaken, [PullNext]_pullVars PROVE Intaken'  OBVIOUS
    <2>1. CASE Intake
      BY <2>1, IntakeTypesStep, ClaimsStep, OriginsStep, DiffsStep DEF Intaken
    <2>2. CASE Fix
      <3>1. UNCHANGED intakeVars  BY <2>2 DEF Fix, StartFix, ReadFile, Verify, Publish, Draft, Abort
      <3>. QED  BY <3>1, IntakeRests DEF Intaken
    <2>3. CASE UNCHANGED pullVars
      <3>1. UNCHANGED intakeVars  BY <2>3 DEF pullVars
      <3>. QED  BY <3>1, IntakeRests DEF Intaken
    <2>. QED  BY <2>1, <2>2, <2>3 DEF PullNext
  <1>. QED  BY <1>1, <1>2, PTL DEF PullSpec

\* However often a delivery is sent, and whatever fails, one task at most is
\* queued for it, which is the one it is answered with.
THEOREM DeliveriesBacked == PullSpec => []DeliveryBacked
  <1>1. Intaken => DeliveryBacked
    <2>. SUFFICES ASSUME Intaken PROVE DeliveryBacked  OBVIOUS
    <2>. USE DEF Intaken
    <2>1. \A s, t \in queued : tasks[s].delivery = tasks[t].delivery => s = t  BY DEF Origins
    <2>2. \A t \in queued : deliveries[tasks[t].delivery].kind = "supported"  BY DEF Origins
    <2>3. \A d \in DOMAIN webhooks :
             webhooks[d] # NoTask => webhooks[d] \in queued /\ tasks[webhooks[d]].delivery = d
      BY DEF Origins
    <2>4. \A t \in reports : tasks[t].diff >= deliveries[tasks[t].delivery].version
      BY DEF Origins, Diffs
    <2>. QED  BY <2>1, <2>2, <2>3, <2>4 DEF DeliveryBacked
  <1>. QED  BY <1>1, IntakeHolds, PTL

-----------------------------------------------------------------------------
(* Repairs. *)

\* The branch only grows: nothing older comes back to a line.
Growing ==
    /\ \A i \in DOMAIN versions, l \in Lines : versions[i][l] <= i
    /\ \A i, j \in DOMAIN versions : i <= j => \A l \in Lines : versions[i][l] <= versions[j][l]

\* Files keep what a version of the repository has, but for edits of reported lines.
Keeps(files, found, base) ==
    \A l \in DOMAIN files :
        /\ l \in Lines
        /\ files[l] = Edited => l \in found
        /\ files[l] # Edited => files[l] >= base[l]

\* A request has read each file of its plan after the head it stands on, and
\* what it is about to publish is what it has verified.
Planning ==
    \A f \in Fixers : fixer[f].pc # "idle" =>
        /\ fixer[f].sha \in DOMAIN versions
        /\ Keeps(fixer[f].files, fixer[f].found, versions[fixer[f].sha])
        /\ fixer[f].pc = "branch" => fixer[f].passed = Commit(f)

\* And so it is on the branches.
Published ==
    \A b \in DOMAIN branches :
        LET commit == branches[b].commit
        IN /\ commit = branches[b].passed
           /\ commit.parent \in DOMAIN versions
           /\ Keeps(commit.files, branches[b].found, versions[commit.parent])

\* The inductive invariant of repairs.
Repaired == FixTypes /\ Growing /\ Planning /\ Published

\* A step of the fixer, or a push, lets the branches only grow.
LEMMA GrowingStep ==
    ASSUME IntakeTypes, Growing, Intake \/ UNCHANGED intakeVars
    PROVE  /\ Growing'
           /\ \A i \in DOMAIN versions : i \in DOMAIN versions' /\ versions'[i] = versions[i]
  <1>1. ASSUME NEW changed \in Changes, NEW kind \in Kinds, Push(changed, kind)
        PROVE  /\ Growing'
               /\ \A i \in DOMAIN versions : i \in DOMAIN versions' /\ versions'[i] = versions[i]
    <2>. DEFINE n == HeadVersion
                new == [l \in Lines |-> IF l \in changed THEN n + 1 ELSE versions[n][l]]
    <2>1. /\ versions' = Append(versions, new) /\ n = Len(versions) /\ n \in Nat \ {0}
          /\ DOMAIN versions = 1 .. n /\ versions \in Seq([Lines -> Nat \ {0}])
      BY <1>1, Elements DEF Push, HeadVersion, IntakeTypes
    <2>2. \A i \in DOMAIN versions, l \in Lines : versions[i][l] \in Nat  BY <2>1
    <2>3. \A l \in Lines : versions[n][l] <= new[l] /\ new[l] <= n + 1 /\ new[l] \in Nat
      BY <2>1, <2>2 DEF Growing
    <2>. HIDE DEF n, new
    <2>4. /\ DOMAIN versions' = DOMAIN versions \cup {n + 1} /\ n + 1 \notin DOMAIN versions
          /\ \A i \in DOMAIN versions : versions'[i] = versions[i]
          /\ versions'[n + 1] = new
      BY <2>1
    <2>5. (\A i \in DOMAIN versions, l \in Lines : versions[i][l] <= i)'
      BY <2>3, <2>4 DEF Growing
    <2>6. \A i \in DOMAIN versions, l \in Lines : versions[i][l] <= new[l]
      <3>. SUFFICES ASSUME NEW i \in DOMAIN versions, NEW l \in Lines PROVE versions[i][l] <= new[l]
        OBVIOUS
      <3>1. i <= n /\ n \in DOMAIN versions /\ i \in Nat  BY <2>1
      <3>2. versions[i][l] <= versions[n][l]  BY <3>1 DEF Growing
      <3>3. versions[i][l] \in Nat /\ versions[n][l] \in Nat /\ new[l] \in Nat  BY <2>2, <2>3, <3>1
      <3>. QED  BY <2>3, <3>2, <3>3
    <2>7. (\A i, j \in DOMAIN versions : i <= j => \A l \in Lines : versions[i][l] <= versions[j][l])'
      <3>. SUFFICES ASSUME NEW i \in DOMAIN versions', NEW j \in DOMAIN versions', i <= j, NEW l \in Lines
                    PROVE  versions'[i][l] <= versions'[j][l]
        OBVIOUS
      <3>1. CASE j \in DOMAIN versions
        <4>1. i \in DOMAIN versions  BY <2>1, <2>4, <3>1
        <4>. QED  BY <2>4, <3>1, <4>1 DEF Growing
      <3>2. CASE j = n + 1 /\ i \in DOMAIN versions  BY <2>4, <2>6, <3>2
      <3>3. CASE j = n + 1 /\ i = n + 1  BY <2>3, <2>4, <3>3
      <3>. QED  BY <2>4, <3>1, <3>2, <3>3
    <2>. QED  BY <2>4, <2>5, <2>7 DEF Growing
  <1>2. CASE UNCHANGED versions  BY <1>2 DEF Growing
  <1>3. CASE Intake
    <2>1. \/ UNCHANGED versions
          \/ \E changed \in Changes, kind \in Kinds : Push(changed, kind)
      BY <1>3 DEF Intake, Receive, Claim, Refuse, CreateTask, Submit, Complete, Break, Fetch,
          Report, rest
    <2>. QED  BY <1>1, <1>2, <2>1
  <1>. QED  BY <1>2, <1>3 DEF intakeVars

\* While nobody repairs, pushes leave plans and branches standing.
LEMMA FixesRest ==
    ASSUME IntakeTypes, Repaired, Intake \/ UNCHANGED intakeVars, UNCHANGED fixVars
    PROVE  Repaired'
  <1>1. /\ Growing'
        /\ \A i \in DOMAIN versions : i \in DOMAIN versions' /\ versions'[i] = versions[i]
    BY GrowingStep DEF Repaired
  <1>2. FixTypes'  BY DEF Repaired, FixTypes, fixVars
  <1>3. Planning'  BY <1>1 DEF Repaired, Planning, fixVars, Commit
  <1>4. Published'  BY <1>1 DEF Repaired, Published, fixVars
  <1>. QED  BY <1>1, <1>2, <1>3, <1>4 DEF Repaired

\* A request that moves, moves to a record of its kind and leaves the others.
LEMMA Moved ==
    ASSUME FixTypes, NEW f \in Fixers, NEW next \in Repairing, Move(f, next)
    PROVE  /\ fixer' \in [Fixers -> Repairing]
           /\ fixer'[f] = next
           /\ \A g \in Fixers \ {f} : fixer'[g] = fixer[g]
    BY DEF FixTypes, Move

\* A step of one repair leaves what the others have planned.
LEMMA PlanningKept ==
    ASSUME Planning, UNCHANGED versions, NEW f \in Fixers,
           \A g \in Fixers \ {f} : fixer'[g] = fixer[g],
           fixer'[f].pc # "idle" =>
              /\ fixer'[f].sha \in DOMAIN versions
              /\ Keeps(fixer'[f].files, fixer'[f].found, versions[fixer'[f].sha])
              /\ fixer'[f].pc = "branch" => fixer'[f].passed = Commit(f)'
    PROVE  Planning'
    BY DEF Planning, Commit

\* A step of a repair keeps what it has planned on its head, and tested.
LEMMA FixStep ==
    ASSUME IntakeTypes, Repaired, Fix, reports \subseteq Nat
    PROVE  Repaired'
  <1>. USE DEF Repaired
  <1>1. UNCHANGED intakeVars /\ UNCHANGED versions
    BY DEF Fix, StartFix, ReadFile, Verify, Publish, Draft, Abort, intakeVars
  <1>2. Growing'  BY <1>1, GrowingStep
  <1>3. ASSUME NEW f \in Fixers, NEW t \in reports, NEW b \in Branches, NEW found \in Findings,
               StartFix(f, t, b, found)
        PROVE  Repaired'
    <2>. DEFINE next == [Resting EXCEPT !.pc = "read", !.task = t, !.sha = HeadVersion, !.branch = b,
                                !.found = found, !.todo = {l[1] : l \in found}]
    <2>1. HeadVersion \in Nat /\ HeadVersion \in DOMAIN versions  BY Elements DEF HeadVersion,
        IntakeTypes
    <2>2. next \in Repairing /\ next.pc = "read" /\ next.sha = HeadVersion /\ next.files = NoFiles
      <3>1. found \in SUBSET Lines /\ {l[1] : l \in found} \in SUBSET Paths
        BY FixesAssumption DEF Paths
      <3>. QED  BY <2>1, <3>1, Empty DEF Resting, Repairing
    <2>. HIDE DEF next
    <2>3. Move(f, next) /\ UNCHANGED branches  BY <1>3 DEF StartFix, github, next
    <2>4. /\ fixer' \in [Fixers -> Repairing] /\ fixer'[f] = next
          /\ \A g \in Fixers \ {f} : fixer'[g] = fixer[g]
      BY <2>2, <2>3, Moved
    <2>5. Planning'  BY <1>1, <2>1, <2>2, <2>4, PlanningKept DEF NoFiles, Keeps
    <2>6. FixTypes' /\ Published'  BY <1>1, <2>3, <2>4 DEF FixTypes, Published
    <2>. QED  BY <1>2, <2>5, <2>6
  <1>4. ASSUME NEW f \in Fixers, NEW path \in Paths, NEW edits \in SUBSET Of(path), ReadFile(f, path, edits)
        PROVE  Repaired'
    <2>. DEFINE old == fixer[f]
                files == IF edits = {} THEN old.files
                         ELSE [l \in DOMAIN old.files \cup Of(path) |->
                                 IF l \in edits THEN Edited ELSE IF l \in Of(path) THEN ReadNow(f, l) ELSE old.files[l]]
                next == [old EXCEPT !.todo = @ \ {path}, !.files = files]
    <2>1. /\ old \in Repairing /\ old.pc = "read" /\ old.files \in Files
          /\ edits \subseteq old.found
      BY <1>4 DEF FixTypes, ReadFile, Standing, Repairing
    <2>2. /\ versions[HeadVersion] \in [Lines -> Nat \ {0}] /\ HeadVersion \in Nat
          /\ \A l \in Lines : ReadNow(f, l) = versions[HeadVersion][l] /\ ReadNow(f, l) \in Nat
      BY Elements DEF ReadNow
    <2>3. files \in Files
      <3>1. CASE edits = {}  BY <2>1, <3>1
      <3>2. CASE edits # {}
        <4>. DEFINE head == versions[HeadVersion]
        <4>1. files = Added(old.files, edits, path, head)  BY <3>2 DEF ReadNow, Added
        <4>2. head \in [Lines -> Nat \ {0}] /\ old.files \in Files  BY <2>1, <2>2
        <4>. HIDE DEF files, head, old
        <4>3. Added(old.files, edits, path, head) \in Files  BY <4>2, Planned, Zenon
        <4>. QED  BY <4>1, <4>3
      <3>. QED  BY <3>1, <3>2
    <2>4. /\ old.sha \in DOMAIN versions
          /\ Keeps(old.files, old.found, versions[old.sha])
      BY <2>1 DEF Planning
    <2>5. \A l \in Of(path) : l \in Lines /\ ReadNow(f, l) >= versions[old.sha][l]
      <3>. SUFFICES ASSUME NEW l \in Of(path) PROVE l \in Lines /\ ReadNow(f, l) >= versions[old.sha][l]
        OBVIOUS
      <3>1. HeadVersion \in DOMAIN versions /\ old.sha <= HeadVersion /\ l \in Lines
        BY <2>4 DEF HeadVersion, IntakeTypes, Of
      <3>2. versions[old.sha][l] <= versions[HeadVersion][l]  BY <2>4, <3>1 DEF Growing
      <3>3. versions[old.sha][l] \in Nat  BY <2>4, <3>1 DEF IntakeTypes
      <3>. QED  BY <2>2, <3>1, <3>2, <3>3
    <2>6. Keeps(files, old.found, versions[old.sha])
      <3>1. CASE edits = {}  BY <2>4, <3>1
      <3>2. CASE edits # {}
        <4>. SUFFICES ASSUME NEW l \in DOMAIN files
                      PROVE  /\ l \in Lines
                             /\ files[l] = Edited => l \in old.found
                             /\ files[l] # Edited => files[l] >= versions[old.sha][l]
          BY DEF Keeps
        <4>1. /\ l \in DOMAIN old.files \cup Of(path)
              /\ files[l] = IF l \in edits THEN Edited ELSE IF l \in Of(path) THEN ReadNow(f, l) ELSE old.files[l]
          BY <3>2
        <4>. HIDE DEF files
        <4>2. CASE l \in edits  BY <2>1, <2>5, <4>1, <4>2
        <4>3. CASE l \in Of(path) /\ l \notin edits
          <5>1. files[l] = ReadNow(f, l) /\ l \in Lines  BY <2>5, <4>1, <4>3
          <5>2. files[l] # Edited  BY <2>2, <5>1 DEF Edited
          <5>. QED  BY <2>5, <4>3, <5>1, <5>2
        <4>4. CASE l \notin Of(path) /\ l \notin edits
          <5>1. l \in DOMAIN old.files /\ files[l] = old.files[l]  BY <4>1, <4>4
          <5>. QED  BY <2>4, <5>1 DEF Keeps
        <4>. QED  BY <4>2, <4>3, <4>4
      <3>. QED  BY <3>1, <3>2
    <2>7. Move(f, next) /\ UNCHANGED branches  BY <1>4 DEF ReadFile, github
    <2>. HIDE DEF files
    <2>8. /\ next \in Repairing /\ next.pc = "read" /\ next.sha = old.sha /\ next.files = files
          /\ next.found = old.found
      BY <2>1, <2>3 DEF Repairing
    <2>. HIDE DEF next
    <2>9. /\ fixer' \in [Fixers -> Repairing] /\ fixer'[f] = next
          /\ \A g \in Fixers \ {f} : fixer'[g] = fixer[g]
      BY <2>7, <2>8, Moved
    <2>10. Planning'  BY <1>1, <2>4, <2>6, <2>8, <2>9, PlanningKept
    <2>11. FixTypes' /\ Published'  BY <1>1, <2>7, <2>9 DEF FixTypes, Published
    <2>. QED  BY <1>2, <2>10, <2>11
  <1>5. ASSUME NEW f \in Fixers, NEW good \in BOOLEAN, Verify(f, good) PROVE Repaired'
    <2>. DEFINE old == fixer[f]
                next == [old EXCEPT !.pc = "branch", !.passed = [parent |-> Archived(f), files |-> old.files]]
    <2>1. old \in Repairing /\ old.pc = "read"  BY <1>5 DEF FixTypes, Verify, Standing
    <2>2. CASE Move(f, Resting)
      <3>1. /\ fixer' \in [Fixers -> Repairing] /\ fixer'[f] = Resting
            /\ \A g \in Fixers \ {f} : fixer'[g] = fixer[g]
        BY <2>2, Empty, Moved
      <3>2. Planning'  BY <1>1, <3>1, PlanningKept DEF Resting
      <3>3. FixTypes' /\ Published'  BY <1>1, <1>5, <3>1 DEF Verify, github, FixTypes, Published
      <3>. QED  BY <1>2, <3>2, <3>3
    <2>3. CASE Move(f, next)
      <3>1. /\ next \in Repairing /\ next.pc = "branch" /\ next.sha = old.sha /\ next.files = old.files
            /\ next.found = old.found
            /\ next.passed = [parent |-> old.sha, files |-> old.files]
        BY <2>1 DEF Repairing, Written, Archived
      <3>. HIDE DEF next
      <3>2. /\ fixer' \in [Fixers -> Repairing] /\ fixer'[f] = next
            /\ \A g \in Fixers \ {f} : fixer'[g] = fixer[g]
        BY <2>3, <3>1, Moved
      <3>3. fixer'[f].passed = Commit(f)'  BY <3>1, <3>2 DEF Commit
      <3>4. old.sha \in DOMAIN versions /\ Keeps(old.files, old.found, versions[old.sha])
        BY <2>1 DEF Planning
      <3>5. Planning'  BY <1>1, <3>1, <3>2, <3>3, <3>4, PlanningKept
      <3>6. FixTypes' /\ Published'  BY <1>1, <1>5, <3>2 DEF Verify, github, FixTypes, Published
      <3>. QED  BY <1>2, <3>5, <3>6
    <2>. QED  BY <1>5, <2>2, <2>3 DEF Verify
  <1>6. ASSUME NEW f \in Fixers, Publish(f) PROVE Repaired'
    <2>. DEFINE old == fixer[f]
                next == [old EXCEPT !.pc = "draft"]
                new == [commit |-> Commit(f), passed |-> old.passed, found |-> old.found]
    <2>1. old \in Repairing /\ old.pc = "branch"  BY <1>6 DEF FixTypes, Publish, Standing
    <2>2. CASE Move(f, Resting) /\ UNCHANGED branches
      <3>1. /\ fixer' \in [Fixers -> Repairing] /\ fixer'[f] = Resting
            /\ \A g \in Fixers \ {f} : fixer'[g] = fixer[g]
        BY <2>2, Empty, Moved
      <3>2. Planning'  BY <1>1, <3>1, PlanningKept DEF Resting
      <3>3. FixTypes' /\ Published'  BY <1>1, <2>2, <3>1 DEF FixTypes, Published
      <3>. QED  BY <1>2, <3>2, <3>3
    <2>3. CASE /\ old.branch \notin DOMAIN branches
               /\ branches' = [c \in DOMAIN branches \cup {old.branch} |-> IF c = old.branch THEN new ELSE branches[c]]
               /\ Move(f, next)
      <3>1. /\ next \in Repairing /\ next.pc = "draft" /\ next.sha = old.sha /\ next.files = old.files
            /\ next.found = old.found
        BY <2>1 DEF Repairing
      <3>2. /\ old.sha \in DOMAIN versions /\ old.passed = Commit(f)
            /\ Keeps(old.files, old.found, versions[old.sha])
        BY <2>1 DEF Planning
      <3>3. /\ new.commit = new.passed /\ new.commit.parent \in DOMAIN versions
            /\ Keeps(new.commit.files, new.found, versions[new.commit.parent])
        BY <3>2 DEF Commit
      <3>. HIDE DEF next, new
      <3>4. /\ fixer' \in [Fixers -> Repairing] /\ fixer'[f] = next
            /\ \A g \in Fixers \ {f} : fixer'[g] = fixer[g]
        BY <2>3, <3>1, Moved
      <3>5. Planning'  BY <1>1, <3>1, <3>2, <3>4, PlanningKept
      <3>6. Published'  BY <1>1, <2>3, <3>3 DEF Published
      <3>7. FixTypes'  BY <3>4 DEF FixTypes
      <3>. QED  BY <1>2, <3>5, <3>6, <3>7
    <2>. QED  BY <1>6, <2>2, <2>3 DEF Publish
  <1>7. ASSUME NEW f \in Fixers, Draft(f) \/ Abort(f) PROVE Repaired'
    <2>1. Move(f, Resting) /\ UNCHANGED branches  BY <1>7 DEF Draft, Abort, github
    <2>2. /\ fixer' \in [Fixers -> Repairing] /\ fixer'[f] = Resting
          /\ \A g \in Fixers \ {f} : fixer'[g] = fixer[g]
      BY <2>1, Empty, Moved
    <2>3. Planning'  BY <1>1, <2>2, PlanningKept DEF Resting
    <2>4. FixTypes' /\ Published'  BY <1>1, <2>1, <2>2 DEF FixTypes, Published
    <2>. QED  BY <1>2, <2>3, <2>4
  <1>. QED  BY <1>3, <1>4, <1>5, <1>6, <1>7 DEF Fix

\* The branches, the repairs and what they publish hold whatever is pushed meanwhile
\* and whatever fails (fixer.py, create_fix_commits).
THEOREM RepairedHolds == PullSpec => []Repaired
  <1>1. PullInit => Repaired
    <2>. SUFFICES ASSUME PullInit PROVE Repaired  OBVIOUS
    <2>1. FixTypes
      <3>1. Resting \in Repairing  BY Empty
      <3>. QED  BY <3>1 DEF PullInit, FixTypes
    <2>2. Growing
      <3>1. DOMAIN versions = {1} /\ \A l \in Lines : versions[1][l] = 1  BY DEF PullInit, IntakeInit
      <3>. QED  BY <3>1 DEF Growing
    <2>3. Planning  BY DEF PullInit, Planning, Resting
    <2>4. Published  BY DEF PullInit, Published
    <2>. QED  BY <2>1, <2>2, <2>3, <2>4 DEF Repaired
  <1>2. Intaken /\ Repaired /\ [PullNext]_pullVars => Repaired'
    <2>. SUFFICES ASSUME Intaken, Repaired, [PullNext]_pullVars PROVE Repaired'  OBVIOUS
    <2>. USE DEF Intaken
    <2>1. CASE Intake /\ UNCHANGED fixVars  BY <2>1, FixesRest
    <2>2. CASE Fix
      <3>1. reports \subseteq Nat  BY Elements DEF Origins, Diffs
      <3>. QED  BY <2>2, <3>1, FixStep
    <2>3. CASE UNCHANGED pullVars
      <3>1. UNCHANGED intakeVars /\ UNCHANGED fixVars  BY <2>3 DEF pullVars
      <3>. QED  BY <3>1, FixesRest
    <2>. QED  BY <2>1, <2>2, <2>3 DEF PullNext
  <1>. QED  BY <1>1, <1>2, IntakeHolds, PTL DEF PullSpec

\* A branch holds, on its parent, the files that were verified on that parent.
THEOREM RepairsVerified == PullSpec => []FixVerified
  <1>1. Repaired => FixVerified  BY DEF Repaired, Published, FixVerified
  <1>. QED  BY <1>1, RepairedHolds, PTL

\* No repair takes back what the author has pushed, but at the lines the report
\* names.
THEOREM PushesKept == PullSpec => []NoPushReverted
  <1>1. Repaired => NoPushReverted  BY DEF Repaired, Published, NoPushReverted, Keeps
  <1>. QED  BY <1>1, RepairedHolds, PTL

=============================================================================
