----------------------------- MODULE Annotation -----------------------------
(***************************************************************************)
(* The annotation workbench (annotation.py) over its four tables in        *)
(* store.py and postgres_store.py: public pull requests are imported,      *)
(* labelled by two reviewers who do not see each other's answer, decided   *)
(* by a third when they disagree, and exported as a dataset.               *)
(*                                                                         *)
(* A request is cut at every transaction.  A label (verdict and findings)  *)
(* is a model value; texts, URLs and the audit log are left out.           *)
(***************************************************************************)
EXTENDS Naturals, Sequences, FiniteSets

CONSTANTS
    Requests,       \* threads of the API's pool
    Cases,          \* rows an import may create: a pull request as it is spelled
    Pull,           \* the pull request of a case, spelling aside
    HoldoutPulls,   \* those whose repository falls into the holdout split
    Diffs,          \* what GitHub may answer for the pull request of a case
    Earlier,        \* what an earlier process may have left: answers per imported case
    Users,          \* users with the permission to review
    Managers,       \* those who may also manage
    Labels,         \* what a user may answer
    Names,          \* names and versions an export may have
    MaxCalls,       \* bound: calls of the annotation endpoints
    MaxMishaps      \* bound: failed calls and deaths of the process

Required == 2       \* required_reviewers of every imported case

Final == {"approved", "exported"}
Complete == Final \cup {"needs_adjudication"}
Statuses == Complete \cup {"ready", "in_review"}
Nothing == "nothing"
AnyDiff == {Nothing} \cup UNION {Diffs[c] : c \in Cases}
Holdout == {c \in Cases : Pull[c] \in HoldoutPulls}

Answer == [by : Users, label : Labels]
NoAnswer == [by |-> Nothing, label |-> Nothing]

\* At most two answers of a case, of different users.
Given(rows) ==
    /\ rows \in Seq(Answer) /\ Len(rows) <= Required
    /\ \A i, j \in DOMAIN rows : rows[i].by = rows[j].by => i = j

ASSUME AnnotationAssumption ==
    /\ Managers \subseteq Users
    /\ Nothing \notin Users \cup Labels \cup Cases
    /\ \A c \in Cases : Nothing \notin Diffs[c]
    /\ \A left \in Earlier : DOMAIN left \subseteq Cases /\ \A c \in DOMAIN left : Given(left[c])
    /\ \A left \in Earlier : Cardinality(DOMAIN left) \in 0..MaxCalls
    /\ MaxCalls \in Nat /\ MaxMishaps \in Nat

VARIABLES
    status,         \* annotation_cases.status, "absent" before the import
    diff,           \* annotation_cases.diff, as GitHub gave it
    subs,           \* annotation_submissions of a case, in order
    adjudication,   \* annotation_adjudications of a case: at most one row
    exports,        \* annotation_exports: label per case, by name
    thr,            \* what each request has read and where it stands
    calls,          \* calls begun, and cases found imported
    mishaps,        \* failed calls and deaths
    \* History, read by the properties only.
    seen,           \* cases whose other answers a user has been shown
    broken          \* cases a mishap has hit between two transactions

vars == <<status, diff, subs, adjudication, exports, thr, calls, mishaps, seen, broken>>

Idle == [pc |-> "idle", case |-> Nothing, user |-> Nothing, label |-> Nothing,
         read |-> "absent", name |-> Nothing, todo |-> {}]


Stages == {"idle", "importing", "submitting", "inserting", "counting", "moving",
           "adjudicating", "deciding", "approving", "viewing", "building", "marking"}

TypeOK ==
    /\ status \in [Cases -> Statuses \cup {"absent"}]
    /\ diff \in [Cases -> AnyDiff]
    /\ subs \in [Cases -> Seq(Answer)]
    /\ adjudication \in [Cases -> Answer \cup {NoAnswer}]
    /\ \A n \in DOMAIN exports : exports[n] \in [DOMAIN exports[n] -> Labels]
    /\ DOMAIN exports \subseteq Names
    /\ thr \in [Requests -> [pc : Stages, case : Cases \cup {Nothing}, user : Users \cup {Nothing},
                             label : Labels \cup {Nothing}, read : Statuses \cup {"absent"},
                             name : Names \cup {Nothing}, todo : SUBSET Cases]]
    /\ calls \in 0..MaxCalls
    /\ mishaps \in 0..MaxMishaps
    /\ seen \in [Users -> SUBSET Cases]
    /\ broken \subseteq Cases

Authors(c) == {subs[c][i].by : i \in DOMAIN subs[c]}
Answers(c) == {subs[c][i].label : i \in DOMAIN subs[c]}

Outcome(c) ==
    IF Len(subs[c]) # Required THEN "in_review"
    ELSE IF Cardinality(Answers(c)) = 1 THEN "approved"
    ELSE "needs_adjudication"

\* An earlier process has finished its requests: a case stands where its answers
\* put it.
Init ==
    /\ \E left \in Earlier :
          /\ subs = [c \in Cases |-> IF c \in DOMAIN left THEN left[c] ELSE <<>>]
          /\ status = [c \in Cases |-> IF c \notin DOMAIN left THEN "absent"
                                       ELSE IF subs[c] = <<>> THEN "ready" ELSE Outcome(c)]
          /\ diff \in [Cases -> AnyDiff]
          /\ \A c \in Cases : diff[c] \in IF c \in DOMAIN left THEN Diffs[c] ELSE {Nothing}
          /\ calls = Cardinality(DOMAIN left)
    /\ adjudication = [c \in Cases |-> NoAnswer]
    /\ exports = [n \in {} |-> <<>>]
    /\ thr = [r \in Requests |-> Idle]
    /\ mishaps = 0
    /\ seen = [u \in Users |-> {}]
    /\ broken = {}

At(r, stage) == thr[r].pc = stage
Go(r, next) == thr' = [thr EXCEPT ![r] = next]
Step(r, stage) == Go(r, [thr[r] EXCEPT !.pc = stage])
answers == <<diff, subs, adjudication>>
history == <<mishaps, seen, broken>>

\* A call begins on a thread of the pool that is free.
Call(r) == At(r, "idle") /\ calls < MaxCalls /\ calls' = calls + 1

-----------------------------------------------------------------------------
(* Import. *)

\* find_annotation_case ignores the case of the letters, the UNIQUE constraint
\* of the table does not.
ImportLookup(r, c) ==
    /\ Call(r)
    /\ \A d \in Cases : Pull[d] = Pull[c] => status[d] = "absent"
    /\ Go(r, [Idle EXCEPT !.pc = "importing", !.case = c])
    /\ UNCHANGED <<status, answers, exports, history>>

\* The diff is what GitHub gave between the two transactions.
ImportInsert(r) ==
    LET c == thr[r].case
    IN /\ At(r, "importing")
       /\ IF status[c] = "absent"
          THEN /\ status' = [status EXCEPT ![c] = "ready"]
               /\ \E given \in Diffs[c] : diff' = [diff EXCEPT ![c] = given]
          ELSE UNCHANGED <<status, diff>>
       /\ Go(r, Idle)
       /\ UNCHANGED <<calls, subs, adjudication, exports, history>>

-----------------------------------------------------------------------------
(* Submission. *)

SubmitRead(r, u, c, l) ==
    /\ Call(r)
    /\ status[c] \in {"ready", "in_review"}
    /\ Go(r, [Idle EXCEPT !.pc = "submitting", !.case = c, !.user = u, !.label = l])
    /\ UNCHANGED <<status, answers, exports, history>>

Open(c, u) == u \notin Authors(c) /\ Len(subs[c]) < Required

SubmitCheck(r) ==
    /\ At(r, "submitting")
    /\ IF Open(thr[r].case, thr[r].user) THEN Step(r, "inserting") ELSE Go(r, Idle)
    /\ UNCHANGED <<calls, status, answers, exports, history>>

\* Wrong: the rows are not counted again in the transaction.
SubmitInsertUncounted(r) ==
    LET c == thr[r].case
        u == thr[r].user
    IN /\ At(r, "inserting")
       /\ IF u \notin Authors(c)
          THEN /\ subs' = [subs EXCEPT ![c] = Append(@, [by |-> u, label |-> thr[r].label])]
               /\ Step(r, "counting")
          ELSE UNCHANGED subs /\ Go(r, Idle)
       /\ UNCHANGED <<calls, status, diff, adjudication, exports, history>>

\* create_annotation_submission counts the rows and inserts in one transaction
\* (on PostgreSQL under a lock of the case's row), UNIQUE(case, annotator).
SubmitInsert(r) ==
    LET c == thr[r].case
        u == thr[r].user
    IN /\ At(r, "inserting")
       /\ IF Open(c, u)
          THEN /\ subs' = [subs EXCEPT ![c] = Append(@, [by |-> u, label |-> thr[r].label])]
               /\ Step(r, "counting")
          ELSE UNCHANGED subs /\ Go(r, Idle)
       /\ UNCHANGED <<calls, status, diff, adjudication, exports, history>>

\* The rows are listed again, and the next status follows from them.
SubmitCount(r) ==
    /\ At(r, "counting")
    /\ Go(r, [thr[r] EXCEPT !.pc = "moving", !.read = Outcome(thr[r].case)])
    /\ UNCHANGED <<calls, status, answers, exports, history>>

MovesFrom(next) ==
    CASE next = "in_review" -> {"ready"}
      [] next = "needs_adjudication" -> {"ready", "in_review"}
      [] next = "approved" -> {"ready", "in_review", "needs_adjudication"}
      [] next = "exported" -> {"approved"}

\* Wrong: UPDATE without the condition on the status.
MoveAlways(c, next) == status' = [status EXCEPT ![c] = next]

\* update_annotation_case_status: one UPDATE with the statuses it may leave.
\* Anything else keeps the row, and answers well or with an error.
Move(c, next) ==
    status' = IF status[c] \in MovesFrom(next) THEN [status EXCEPT ![c] = next] ELSE status

SubmitMove(r) ==
    /\ At(r, "moving")
    /\ Move(thr[r].case, thr[r].read)
    /\ Go(r, Idle)
    /\ UNCHANGED <<calls, answers, exports, history>>

-----------------------------------------------------------------------------
(* Adjudication. *)

AdjudicateRead(r, u, c, l) ==
    /\ Call(r) /\ u \in Managers
    /\ status[c] = "needs_adjudication"
    /\ Go(r, [Idle EXCEPT !.pc = "adjudicating", !.case = c, !.user = u, !.label = l])
    /\ UNCHANGED <<status, answers, exports, history>>

AdjudicateCheck(r) ==
    /\ At(r, "adjudicating")
    /\ IF thr[r].user \in Authors(thr[r].case) THEN Go(r, Idle) ELSE Step(r, "deciding")
    /\ UNCHANGED <<calls, status, answers, exports, history>>

\* The table has one row per case.
AdjudicateInsert(r) ==
    LET c == thr[r].case
    IN /\ At(r, "deciding")
       /\ IF adjudication[c] = NoAnswer
          THEN /\ adjudication' = [adjudication EXCEPT ![c] = [by |-> thr[r].user, label |-> thr[r].label]]
               /\ Step(r, "approving")
          ELSE UNCHANGED adjudication /\ Go(r, Idle)
       /\ UNCHANGED <<calls, status, diff, subs, exports, history>>

AdjudicateMove(r) ==
    /\ At(r, "approving")
    /\ Move(thr[r].case, "approved")
    /\ Go(r, Idle)
    /\ UNCHANGED <<calls, answers, exports, history>>

-----------------------------------------------------------------------------
(* Reading a case. *)

ViewRead(r, u, c) ==
    /\ Call(r) /\ status[c] # "absent"
    /\ Go(r, [Idle EXCEPT !.pc = "viewing", !.case = c, !.user = u, !.read = status[c]])
    /\ UNCHANGED <<status, answers, exports, history>>

\* Wrong: managers need not wait for the review to be complete.
MayRevealManaged(r) ==
    LET c == thr[r].case
        u == thr[r].user
    IN \/ u \in Managers
       \/ thr[r].read \in Complete /\ c \notin Holdout /\ u \in Authors(c)

\* Others' answers are shown when the review was complete at the first read, to
\* managers, and outside the holdout split to the annotators themselves.
MayReveal(r) ==
    LET c == thr[r].case
        u == thr[r].user
    IN /\ thr[r].read \in Complete
       /\ u \in Managers \/ (c \notin Holdout /\ u \in Authors(c))

ViewAnswer(r) ==
    /\ At(r, "viewing")
    /\ seen' = IF MayReveal(r) THEN [seen EXCEPT ![thr[r].user] = @ \cup {thr[r].case}] ELSE seen
    /\ Go(r, Idle)
    /\ UNCHANGED <<calls, status, answers, exports, mishaps, broken>>

-----------------------------------------------------------------------------
(* Export. *)

\* Wrong: every case with two answers is taken.
SelectableComplete(c) == status[c] \in Complete
Selectable(c) == status[c] \in Final

\* list_annotation_cases; a request names the cases or takes all.
ExportRead(r, n, chosen) ==
    /\ Call(r)
    /\ chosen # {} /\ \A c \in chosen : Selectable(c)
    /\ Go(r, [Idle EXCEPT !.pc = "building", !.name = n, !.todo = chosen])
    /\ UNCHANGED <<status, answers, exports, history>>

\* The adjudicated label, or the first answer.
LabelOf(c) == IF adjudication[c] # NoAnswer THEN adjudication[c].label ELSE subs[c][1].label

\* The manifest refuses a diff that occurs twice, and looks at no pull request;
\* (name, version) is unique.
Sound(chosen) == \A c, d \in chosen : diff[c] = diff[d] => c = d
ExportInsert(r) ==
    LET chosen == thr[r].todo
        n == thr[r].name
    IN /\ At(r, "building")
       /\ IF Sound(chosen) /\ n \notin DOMAIN exports
          THEN /\ exports' = [m \in DOMAIN exports \cup {n} |->
                                IF m = n THEN [c \in chosen |-> LabelOf(c)] ELSE exports[m]]
               /\ Step(r, "marking")
          ELSE UNCHANGED exports /\ Go(r, Idle)
       /\ UNCHANGED <<calls, status, answers, history>>

\* One transaction per case.
ExportMark(r) ==
    /\ At(r, "marking")
    /\ \E c \in thr[r].todo :
          /\ Move(c, "exported")
          /\ Go(r, IF thr[r].todo = {c} THEN Idle ELSE [thr[r] EXCEPT !.todo = @ \ {c}])
    /\ UNCHANGED <<calls, answers, exports, history>>

-----------------------------------------------------------------------------
(* Mishaps: a transaction fails and the request with it; the process dies. *)

Half(r) == At(r, "counting") \/ At(r, "moving") \/ At(r, "approving") \/ At(r, "marking")
Hit(requests) ==
    broken' = broken \cup {c \in Cases : \E r \in requests : Half(r) /\ (c = thr[r].case \/ c \in thr[r].todo)}

CallFails(r) ==
    /\ ~At(r, "idle") /\ mishaps < MaxMishaps
    /\ mishaps' = mishaps + 1
    /\ Hit({r})
    /\ Go(r, Idle)
    /\ UNCHANGED <<calls, status, answers, exports, seen>>

Crash ==
    /\ mishaps < MaxMishaps /\ \E r \in Requests : ~At(r, "idle")
    /\ mishaps' = mishaps + 1
    /\ Hit(Requests)
    /\ thr' = [r \in Requests |-> Idle]
    /\ UNCHANGED <<calls, status, answers, exports, seen>>

Next ==
    \/ \E r \in Requests :
          \/ \E c \in Cases : ImportLookup(r, c)
          \/ ImportInsert(r)
          \/ \E u \in Users, c \in Cases, l \in Labels : SubmitRead(r, u, c, l)
          \/ SubmitCheck(r) \/ SubmitInsert(r) \/ SubmitCount(r) \/ SubmitMove(r)
          \/ \E u \in Users, c \in Cases, l \in Labels : AdjudicateRead(r, u, c, l)
          \/ AdjudicateCheck(r) \/ AdjudicateInsert(r) \/ AdjudicateMove(r)
          \/ \E u \in Users, c \in Cases : ViewRead(r, u, c)
          \/ ViewAnswer(r)
          \/ \E n \in Names, chosen \in SUBSET Cases : ExportRead(r, n, chosen)
          \/ ExportInsert(r) \/ ExportMark(r) \/ CallFails(r)
    \/ Crash

Spec == Init /\ [][Next]_vars

-----------------------------------------------------------------------------
(* Properties. *)

\* A case is final only with the answers of two reviewers that agree, or with
\* the decision of a third who gave none of them, whatever requests overlap.
Labelled ==
    \A c \in Cases : status[c] \in Final =>
        /\ Len(subs[c]) = 2 /\ Cardinality(Authors(c)) = 2
        /\ IF adjudication[c] = NoAnswer THEN Cardinality(Answers(c)) = 1
           ELSE adjudication[c].by \notin Authors(c) /\ Cardinality(Answers(c)) = 2

\* Nobody answers a case after having been shown another's answer, and only
\* managers are ever shown those of a holdout case.
Blind ==
    [][\A c \in Cases : \A u \in Users :
          /\ u \in Authors(c)' \ Authors(c) => c \notin seen[u]
          /\ c \in seen'[u] \cap Holdout => u \in Managers]_vars

\* What a dataset says of a case is the case's final label, for good: no later
\* request changes it, and no diff is in it under two labels.  A pull request may
\* be: imported by two requests that overlap, under two spellings, before and
\* after a push, it is two cases with two diffs.
DatasetStands ==
    \A n \in DOMAIN exports :
        /\ Sound(DOMAIN exports[n])
        /\ \A c \in DOMAIN exports[n] : status[c] \in Final /\ exports[n][c] = LabelOf(c)

\* With no request under way, a case stands where its rows put it, unless a
\* mishap came between two transactions of a request on it: then it stays where
\* it is, because UNIQUE refuses the request that would repair it.
Working(c) == \E r \in Requests : thr[r].case = c \/ c \in thr[r].todo
Settled ==
    \A c \in Cases : (~Working(c) /\ c \notin broken /\ status[c] # "absent") =>
        status[c] \in
            CASE subs[c] = <<>> -> {"ready"}
              [] Outcome(c) = "in_review" /\ subs[c] # <<>> -> {"in_review"}
              [] Outcome(c) = "needs_adjudication" /\ adjudication[c] = NoAnswer -> {"needs_adjudication"}
              [] Outcome(c) = "approved" \/ adjudication[c] # NoAnswer ->
                    IF \E n \in DOMAIN exports : c \in DOMAIN exports[n] THEN {"exported"} ELSE {"approved"}

=============================================================================
