------------------------- MODULE Annotation_proofs -------------------------
(***************************************************************************)
(* For any numbers of cases, users, requests, exports and mishaps: labels  *)
(* are earned and blind, datasets stand, and cases that no mishap hit      *)
(* settle where their rows put them.                                       *)
(***************************************************************************)
EXTENDS Annotation, SequenceTheorems, FiniteSetTheorems, TLAPS

Thread == [pc : Stages, case : Cases \cup {Nothing}, user : Users \cup {Nothing},
           label : Labels \cup {Nothing}, read : Statuses \cup {"absent"},
           name : Names \cup {Nothing}, todo : SUBSET Cases]

Tables ==
    /\ status \in [Cases -> Statuses \cup {"absent"}]
    /\ diff \in [Cases -> AnyDiff]
    /\ subs \in [Cases -> Seq(Answer)]
    /\ adjudication \in [Cases -> Answer \cup {NoAnswer}]
    /\ DOMAIN exports \subseteq Names
    /\ \A n \in DOMAIN exports : DOMAIN exports[n] \subseteq Cases

\* The rows of a case agree with each other.
Rows(c) ==
    /\ Len(subs[c]) <= 2
    /\ Len(subs[c]) = 2 => subs[c][1].by # subs[c][2].by
    /\ status[c] = "absent" => subs[c] = <<>>
    /\ status[c] = "in_review" => subs[c] # <<>>
    /\ status[c] = "needs_adjudication" => Outcome(c) = "needs_adjudication"
    /\ adjudication[c] # NoAnswer =>
          Outcome(c) = "needs_adjudication" /\ adjudication[c].by \notin Authors(c)
    /\ status[c] \in Final => Outcome(c) = "approved" \/ adjudication[c] # NoAnswer

Books == Tables /\ (\A c \in Cases : Rows(c)) /\ DatasetStands

\* What a request has read, and what of it is still true when it writes.
OnCase == {"importing", "submitting", "inserting", "counting", "moving", "adjudicating",
           "deciding", "approving", "viewing"}

Informed(x) ==
    /\ x.pc \in OnCase => x.case \in Cases
    /\ x.pc \in {"submitting", "inserting"} => status[x.case] # "absent"
    /\ x.pc \in {"submitting", "inserting", "adjudicating", "deciding"} => x.user \in Users /\ x.label \in Labels
    /\ x.pc \in {"counting", "moving"} => subs[x.case] # <<>>
    /\ x.pc = "moving" => x.read \in {"in_review", Outcome(x.case)}
    /\ x.pc \in {"adjudicating", "deciding", "approving"} => Outcome(x.case) = "needs_adjudication"
    /\ x.pc = "deciding" => x.user \notin Authors(x.case)
    /\ x.pc = "approving" => adjudication[x.case] # NoAnswer
    /\ x.pc = "viewing" => x.user \in Users /\ (x.read \in Complete => Len(subs[x.case]) = 2)
    /\ x.pc = "building" => x.name \in Names /\ \A c \in x.todo : status[c] \in Final
    /\ x.pc = "marking" => x.name \in DOMAIN exports /\ x.todo \subseteq DOMAIN exports[x.name]

Shown ==
    /\ seen \in [Users -> SUBSET Cases]
    /\ \A u \in Users : \A c \in seen[u] : Len(subs[c]) = 2 /\ (c \in Holdout => u \in Managers)

Sure ==
    /\ Books
    /\ thr \in [Requests -> Thread]
    /\ \A r \in Requests : Informed(thr[r])
    /\ Shown

\* Rows are added and completed, never taken back.
Grows ==
    /\ \A c \in Cases :
          /\ Len(subs[c]) = 2 => subs'[c] = subs[c]
          /\ subs[c] # <<>> => subs'[c] # <<>>
          /\ adjudication[c] # NoAnswer => adjudication'[c] = adjudication[c]
          /\ status[c] # "absent" => status'[c] # "absent" /\ diff'[c] = diff[c]
          /\ status[c] \in Final => status'[c] \in Final /\ adjudication'[c] = adjudication[c]
    /\ \A n \in DOMAIN exports : n \in DOMAIN exports' /\ exports'[n] = exports[n]

-----------------------------------------------------------------------------

\* With two answers the outcome is final or needs a third; with fewer the review
\* goes on.
LEMMA Outcomes ==
    ASSUME NEW c
    PROVE  /\ Len(subs[c]) = 2 => Outcome(c) \in {"approved", "needs_adjudication"}
           /\ Len(subs[c]) # 2 => Outcome(c) = "in_review"
BY SMT DEF Outcome, Required

\* An outcome and the authors depend on the answers only.
LEMMA SameAnswers ==
    ASSUME NEW c, subs'[c] = subs[c]
    PROVE  Outcome(c)' = Outcome(c) /\ Authors(c)' = Authors(c)
BY Zenon DEF Outcome, Answers, Authors

\* What is known about rows that only grow stays true.
LEMMA InformedStays ==
    ASSUME Books, Grows, NEW x \in Thread, Informed(x)
    PROVE  Informed(x)'
<1>1. CASE x.pc \in OnCase
    <2>. DEFINE c == x.case
    <2>1. c \in Cases
        BY <1>1, Zenon DEF Informed
    <2>2. Outcome(c) # "in_review" => Len(subs[c]) = 2 /\ subs'[c] = subs[c]
        BY <2>1, Outcomes, Zenon DEF Grows
    <2>3. Outcome(c) # "in_review" => Outcome(c)' = Outcome(c) /\ Authors(c)' = Authors(c)
        BY <2>2, SameAnswers, Zenon
    <2>. HIDE DEF c
    <2>. QED
        BY <1>1, <2>1, <2>2, <2>3, SMT DEF Informed, Grows, OnCase, c
<1>2. CASE x.pc = "building"
    BY <1>2, SMT DEF Informed, Grows, OnCase, Thread
<1>3. CASE x.pc = "marking"
    BY <1>3, SMT DEF Informed, Grows, OnCase
<1>4. CASE x.pc = "idle"
    BY <1>4, SMT DEF Informed, OnCase
<1>. QED
    BY <1>1, <1>2, <1>3, <1>4, SMT DEF Thread, Stages, OnCase

\* What the other requests know stays true.
LEMMA OthersInformed ==
    ASSUME Sure, Grows, NEW r \in Requests, NEW next \in Thread, Go(r, next), Informed(next)'
    PROVE  thr' \in [Requests -> Thread] /\ \A q \in Requests : Informed(thr[q])'
<1>1. thr' \in [Requests -> Thread] /\ thr'[r] = next /\ \A q \in Requests : q # r => thr'[q] = thr[q]
    BY SMT DEF Sure, Go
<1>2. \A q \in Requests : Informed(thr[q])'
    <2>. SUFFICES ASSUME NEW q \in Requests, q # r PROVE Informed(thr[q])'
        BY <1>1, Zenon DEF Informed
    <2>1. thr[q] \in Thread /\ Informed(thr[q]) /\ thr'[q] = thr[q]
        BY <1>1, Zenon DEF Sure
    <2>2. ASSUME NEW x \in Thread, Informed(x) PROVE Informed(x)'
        BY <2>2, InformedStays, Zenon DEF Sure
    <2>. QED
        BY <2>1, <2>2, Zenon DEF Informed
<1>. QED
    BY <1>1, <1>2, Zenon

\* A request's step is good when its write is, and what it goes on with is true.
LEMMA Carry ==
    ASSUME Sure, Books', Grows, NEW r \in Requests, NEW next \in Thread, Go(r, next), Informed(next)',
           seen' = seen
    PROVE  Sure'
<1>1. Shown'
    <2>. SUFFICES ASSUME NEW u \in Users, NEW c \in seen[u]
                  PROVE  Len(subs'[c]) = 2 /\ (c \in Holdout => u \in Managers)
        BY Zenon DEF Sure, Shown
    <2>1. c \in Cases /\ Len(subs[c]) = 2 /\ (c \in Holdout => u \in Managers)
        BY SMT DEF Sure, Shown
    <2>. QED
        BY <2>1, Zenon DEF Grows
<1>. QED
    BY <1>1, OthersInformed, Zenon DEF Sure

-----------------------------------------------------------------------------
(* The five writes. *)

\* A final case has both its answers, and its label is that of its rows.
LEMMA FinalRows ==
    ASSUME Books, NEW c \in Cases, status[c] \in Final
    PROVE  Len(subs[c]) = 2
BY Outcomes, SMT DEF Books, Rows

\* What the datasets say stays when the rows only grow and nothing is exported.
LEMMA DatasetsKept ==
    ASSUME Books, Grows, exports' = exports
    PROVE  DatasetStands'
<1>0. ASSUME NEW n \in DOMAIN exports PROVE Sound(DOMAIN exports[n])'
    <2>1. \A c \in DOMAIN exports[n] : c \in Cases /\ status[c] \in Final
        BY Zenon DEF Books, Tables, DatasetStands
    <2>2. "absent" \notin Final
        BY SMT DEF Final
    <2>3. \A c \in DOMAIN exports[n] : diff'[c] = diff[c]
        BY <2>1, <2>2, Zenon DEF Grows
    <2>4. Sound(DOMAIN exports[n])
        BY Zenon DEF Books, DatasetStands
    <2>. QED
        BY <2>3, <2>4, Zenon DEF Sound
<1>. SUFFICES ASSUME NEW n \in DOMAIN exports, NEW c \in DOMAIN exports[n]
              PROVE  status'[c] \in Final /\ exports[n][c] = LabelOf(c)'
    BY <1>0, Zenon DEF DatasetStands
<1>1. c \in Cases /\ status[c] \in Final /\ exports[n][c] = LabelOf(c)
    BY Zenon DEF Books, Tables, DatasetStands
<1>2. subs'[c] = subs[c] /\ adjudication'[c] = adjudication[c] /\ status'[c] \in Final
    BY <1>1, FinalRows, Zenon DEF Grows
<1>3. LabelOf(c)' = LabelOf(c)
    BY <1>2, Zenon DEF LabelOf
<1>. QED
    BY <1>1, <1>2, <1>3, Zenon

\* A step that writes nothing.
LEMMA NothingWritten ==
    ASSUME Books, UNCHANGED <<diff, status, subs, adjudication, exports>>
    PROVE  Books' /\ Grows
<1>1. \A c \in Cases : Rows(c)'
    BY SameAnswers, Zenon DEF Books, Rows
<1>2. Grows
    BY Zenon DEF Grows
<1>3. Tables'
    BY Zenon DEF Books, Tables
<1>. QED
    BY <1>1, <1>2, <1>3, DatasetsKept, Zenon DEF Books

\* create_annotation_submission.
LEMMA AnswerWritten ==
    ASSUME Books, NEW c \in Cases, NEW u \in Users, NEW l \in Labels, Open(c, u), status[c] # "absent",
           subs' = [subs EXCEPT ![c] = Append(@, [by |-> u, label |-> l])],
           UNCHANGED <<diff, status, adjudication, exports>>
    PROVE  Books' /\ Grows /\ subs'[c] # <<>>
           /\ \A d \in Cases : Authors(d)' = IF d = c THEN Authors(c) \cup {u} ELSE Authors(d)
<1>. DEFINE new == [by |-> u, label |-> l]
<1>1. subs \in [Cases -> Seq(Answer)] /\ new \in Answer
    BY Zenon DEF Books, Tables, Answer
<1>. HIDE DEF new
<1>2. /\ subs' \in [Cases -> Seq(Answer)] /\ subs'[c] = Append(subs[c], new)
      /\ \A d \in Cases : d # c => subs'[d] = subs[d]
    BY <1>1, SMT DEF new
<1>3. subs[c] \in Seq(Answer) /\ Len(subs[c]) \in Nat /\ Len(subs[c]) < 2 /\ u \notin Authors(c)
    BY <1>1, SMT DEF Open, Required
<1>4. /\ Len(subs'[c]) = Len(subs[c]) + 1 /\ subs'[c] # <<>>
      /\ \A i \in 1..Len(subs[c]) : subs'[c][i] = subs[c][i]
      /\ subs'[c][Len(subs[c]) + 1] = new
    BY <1>1, <1>2, <1>3, SMT
<1>5. Authors(c)' = Authors(c) \cup {u}
    <2>1. DOMAIN subs[c] = 1..Len(subs[c]) /\ DOMAIN subs'[c] = 1..(Len(subs[c]) + 1)
        BY <1>1, <1>2, <1>3, <1>4, SMT
    <2>2. new.by = u
        BY Zenon DEF new
    <2>. QED
        BY <1>3, <1>4, <2>1, <2>2, SMT DEF Authors
<1>6. \A d \in Cases : d # c => Authors(d)' = Authors(d) /\ Outcome(d)' = Outcome(d)
    BY <1>2, SameAnswers, Zenon
<1>7. Outcome(c) = "in_review" /\ adjudication[c] = NoAnswer /\ status[c] \notin Final \cup {"needs_adjudication"}
    BY <1>3, Outcomes, SMT DEF Books, Rows
<1>8. Grows
    BY <1>2, <1>3, <1>4, SMT DEF Grows
<1>9. Rows(c)'
    <2>1. Len(subs'[c]) = 2 => subs'[c][1].by # subs'[c][2].by
        <3>. SUFFICES ASSUME Len(subs'[c]) = 2 PROVE subs'[c][1].by # subs'[c][2].by
            OBVIOUS
        <3>0. Len(subs[c]) = 1 /\ Len(subs[c]) + 1 = 2 /\ 1 \in 1..Len(subs[c])
            <4>1. Len(subs[c]) + 1 = 2
                BY <1>4, Zenon
            <4>2. ASSUME NEW k \in Nat, k + 1 = 2 PROVE k = 1 /\ 1 \in 1..k
                BY <4>2, SMT
            <4>. QED
                BY <1>3, <4>1, <4>2, Zenon
        <3>1. Len(subs[c]) = 1 /\ subs'[c][1] = subs[c][1] /\ subs'[c][2] = new
            BY <1>4, <3>0, Zenon
        <3>2. subs[c][1].by \in Authors(c)
            BY <1>3, <3>1, SMT DEF Authors
        <3>3. new.by = u
            BY Zenon DEF new
        <3>. QED
            BY <1>3, <3>1, <3>2, <3>3, Zenon
    <2>2. Len(subs'[c]) <= 2
        BY <1>3, <1>4, SMT
    <2>. QED
        BY <1>4, <1>7, <2>1, <2>2, Zenon DEF Rows
<1>10. \A d \in Cases : Rows(d)'
    <2>. SUFFICES ASSUME NEW d \in Cases, d # c PROVE Rows(d)'
        BY <1>9, Zenon
    <2>. QED
        BY <1>2, <1>6, Zenon DEF Books, Rows
<1>11. Tables'
    BY <1>2, Zenon DEF Books, Tables
<1>. QED
    BY <1>4, <1>5, <1>6, <1>8, <1>10, <1>11, DatasetsKept, Zenon DEF Books

\* create_annotation_adjudication.
LEMMA DecisionWritten ==
    ASSUME Books, NEW c \in Cases, NEW u \in Users, NEW l \in Labels, u \notin Authors(c),
           Outcome(c) = "needs_adjudication", adjudication[c] = NoAnswer,
           adjudication' = [adjudication EXCEPT ![c] = [by |-> u, label |-> l]],
           UNCHANGED <<diff, status, subs, exports>>
    PROVE  Books' /\ Grows /\ adjudication'[c] # NoAnswer
<1>. DEFINE new == [by |-> u, label |-> l]
<1>1. new \in Answer /\ new.by = u
    BY Zenon DEF Answer
<1>2. new # NoAnswer
    <2>1. NoAnswer.by = Nothing
        BY Zenon DEF NoAnswer
    <2>. QED
        BY <1>1, <2>1, AnnotationAssumption, SMT
<1>3. adjudication \in [Cases -> Answer \cup {NoAnswer}]
    BY Zenon DEF Books, Tables
<1>. HIDE DEF new
<1>4. /\ adjudication' \in [Cases -> Answer \cup {NoAnswer}] /\ adjudication'[c] = new
      /\ \A d \in Cases : d # c => adjudication'[d] = adjudication[d]
    BY <1>1, <1>3, SMT DEF new
<1>5. status[c] \notin Final
    BY SMT DEF Books, Rows
<1>6. \A d \in Cases : Authors(d)' = Authors(d) /\ Outcome(d)' = Outcome(d)
    BY SameAnswers, Zenon
<1>7. Grows
    BY <1>4, <1>5, Zenon DEF Grows
<1>8. \A d \in Cases : Rows(d)'
    <2>. SUFFICES ASSUME NEW d \in Cases PROVE Rows(d)'
        OBVIOUS
    <2>1. CASE d = c
        BY <1>1, <1>4, <1>5, <1>6, <2>1, Zenon DEF Books, Rows
    <2>2. CASE d # c
        BY <1>4, <1>6, <2>2, Zenon DEF Books, Rows
    <2>. QED
        BY <2>1, <2>2, Zenon
<1>9. Tables'
    BY <1>4, Zenon DEF Books, Tables
<1>. QED
    BY <1>2, <1>4, <1>7, <1>8, <1>9, DatasetsKept, Zenon DEF Books

\* update_annotation_case_status, and what may be written by it.
LEMMA StatusWritten ==
    ASSUME Books, NEW c \in Cases, NEW next, Move(c, next),
           \/ next = "in_review" /\ subs[c] # <<>>
           \/ next = "needs_adjudication" /\ Outcome(c) = "needs_adjudication"
           \/ next = "approved" /\ (Outcome(c) = "approved" \/ adjudication[c] # NoAnswer)
           \/ next = "exported",
           UNCHANGED <<diff, subs, adjudication, exports>>
    PROVE  Books' /\ Grows
<1>1. status \in [Cases -> Statuses \cup {"absent"}]
    BY Zenon DEF Books, Tables
<1>2. next \in {"in_review", "needs_adjudication", "approved", "exported"}
    BY Zenon
<1>3. CASE status' = status
    BY <1>3, NothingWritten, Zenon
<1>4. CASE status[c] \in MovesFrom(next) /\ status' = [status EXCEPT ![c] = next]
    <2>1. /\ next = "in_review" => status[c] = "ready"
          /\ next = "needs_adjudication" => status[c] \in {"ready", "in_review"}
          /\ next = "approved" => status[c] \in {"ready", "in_review", "needs_adjudication"}
          /\ next = "exported" => status[c] = "approved"
        BY <1>4, SMT DEF MovesFrom
    <2>2. /\ status' \in [Cases -> Statuses \cup {"absent"}] /\ status'[c] = next
          /\ \A d \in Cases : d # c => status'[d] = status[d]
        BY <1>1, <1>2, <1>4, SMT DEF Statuses, Complete, Final
    <2>3. \A d \in Cases : Authors(d)' = Authors(d) /\ Outcome(d)' = Outcome(d)
        BY SameAnswers, Zenon
    <2>4. status[c] \in Final => next \in Final
        BY <2>1, SMT DEF Final
    <2>5. Grows
        BY <1>2, <2>2, <2>4, SMT DEF Grows
    <2>6. Rows(c)'
        BY <1>2, <2>1, <2>2, <2>3, SMT DEF Books, Rows, Final
    <2>7. \A d \in Cases : Rows(d)'
        <3>. SUFFICES ASSUME NEW d \in Cases, d # c PROVE Rows(d)'
            BY <2>6, Zenon
        <3>. QED
            BY <2>2, <2>3, Zenon DEF Books, Rows
    <2>8. Tables'
        BY <2>2, Zenon DEF Books, Tables
    <2>. QED
        BY <2>5, <2>7, <2>8, DatasetsKept, Zenon DEF Books
<1>. QED
    BY <1>3, <1>4, Zenon DEF Move

\* create_annotation_case.
LEMMA CaseWritten ==
    ASSUME Books, NEW c \in Cases, status[c] = "absent", status' = [status EXCEPT ![c] = "ready"],
           NEW given \in Diffs[c], diff' = [diff EXCEPT ![c] = given],
           UNCHANGED <<subs, adjudication, exports>>
    PROVE  Books' /\ Grows
<1>0. diff' \in [Cases -> AnyDiff] /\ \A d \in Cases : d # c => diff'[d] = diff[d]
    <2>1. given \in AnyDiff /\ diff \in [Cases -> AnyDiff]
        BY Zenon DEF AnyDiff, Books, Tables
    <2>. QED
        BY <2>1, Zenon
<1>1. /\ status' \in [Cases -> Statuses \cup {"absent"}] /\ status'[c] = "ready"
      /\ \A d \in Cases : d # c => status'[d] = status[d]
    BY SMT DEF Books, Tables, Statuses
<1>2. \A d \in Cases : Authors(d)' = Authors(d) /\ Outcome(d)' = Outcome(d)
    BY SameAnswers, Zenon
<1>3. Grows
    BY <1>0, <1>1, SMT DEF Grows, Final
<1>4. \A d \in Cases : Rows(d)'
    BY <1>1, <1>2, SMT DEF Books, Rows, Final
<1>5. Tables'
    BY <1>0, <1>1, Zenon DEF Books, Tables
<1>. QED
    BY <1>3, <1>4, <1>5, DatasetsKept, Zenon DEF Books

\* create_annotation_export.
LEMMA DatasetWritten ==
    ASSUME Books, NEW chosen \in SUBSET Cases, NEW n \in Names, n \notin DOMAIN exports, Sound(chosen),
           \A c \in chosen : status[c] \in Final,
           exports' = [m \in DOMAIN exports \cup {n} |->
                         IF m = n THEN [c \in chosen |-> LabelOf(c)] ELSE exports[m]],
           UNCHANGED <<diff, status, subs, adjudication>>
    PROVE  Books' /\ Grows /\ n \in DOMAIN exports' /\ DOMAIN exports'[n] = chosen
<1>. DEFINE new == [c \in chosen |-> LabelOf(c)]
<1>1. DOMAIN new = chosen /\ \A c \in chosen : new[c] = LabelOf(c)
    BY Zenon
<1>. HIDE DEF new
<1>2. /\ DOMAIN exports' = DOMAIN exports \cup {n} /\ exports'[n] = new
      /\ \A m \in DOMAIN exports : exports'[m] = exports[m]
    BY SMT DEF new
<1>3. \A c \in Cases : Authors(c)' = Authors(c) /\ Outcome(c)' = Outcome(c)
    BY SameAnswers, Zenon
<1>4. \A c : LabelOf(c)' = LabelOf(c)
    BY Zenon DEF LabelOf
<1>5. Grows
    BY <1>2, Zenon DEF Grows
<1>6. \A c \in Cases : Rows(c)'
    BY <1>3, Zenon DEF Books, Rows
<1>7. Tables'
    <2>1. \A m \in DOMAIN exports' : DOMAIN exports'[m] \subseteq Cases
        BY <1>1, <1>2, SMT DEF Books, Tables
    <2>. QED
        BY <1>2, <2>1, SMT DEF Books, Tables
<1>8. DatasetStands'
    <2>0. ASSUME NEW S, \A c, d \in S : diff[c] = diff[d] => c = d
          PROVE  \A c, d \in S : diff'[c] = diff'[d] => c = d
        BY <2>0, Zenon
    <2>. SUFFICES ASSUME NEW m \in DOMAIN exports'
                  PROVE  /\ Sound(DOMAIN exports'[m])
                         /\ \A c \in DOMAIN exports'[m] : status[c] \in Final /\ exports'[m][c] = LabelOf(c)
        BY <1>4, <2>0, Zenon DEF DatasetStands, Sound
    <2>1. CASE m = n
        BY <1>1, <1>2, <2>1, Zenon
    <2>2. CASE m \in DOMAIN exports
        BY <1>2, <2>2, Zenon DEF Books, DatasetStands
    <2>. QED
        BY <1>2, <2>1, <2>2, SMT
<1>. QED
    BY <1>1, <1>2, <1>5, <1>6, <1>7, <1>8, Zenon DEF Books

-----------------------------------------------------------------------------
(* The requests. *)

\* An idle request knows nothing.
LEMMA AtRest == Idle \in Thread /\ Informed(Idle) /\ Informed(Idle)'
<1>1. Idle \in Thread
    BY Zenon DEF Idle, Thread, Stages
<1>2. Idle.pc = "idle"
    BY Zenon DEF Idle
<1>. QED
    BY <1>1, <1>2, SMT DEF Informed, OnCase

\* A request that ends, writing nothing or something good, leaves nothing false.
LEMMA Ends ==
    ASSUME Sure, Books', Grows, NEW r \in Requests, Go(r, Idle), seen' = seen
    PROVE  Sure'
BY AtRest, Carry, Zenon

\* A case is looked up and created.
LEMMA ImportSure ==
    ASSUME Sure, NEW r \in Requests, (\E c \in Cases : ImportLookup(r, c)) \/ ImportInsert(r)
    PROVE  Sure'
<1>1. CASE \E c \in Cases : ImportLookup(r, c)
    <2>1. PICK c \in Cases : ImportLookup(r, c)
        BY <1>1, Zenon
    <2>. DEFINE next == [Idle EXCEPT !.pc = "importing", !.case = c]
    <2>2. Go(r, next) /\ seen' = seen /\ UNCHANGED <<diff, status, subs, adjudication, exports>>
        BY <2>1, Zenon DEF ImportLookup, answers, history
    <2>3. next \in Thread /\ next.pc = "importing" /\ next.case = c
        BY AtRest, Zenon DEF Thread, Stages
    <2>. HIDE DEF next
    <2>4. Informed(next)'
        BY <2>3, SMT DEF Informed, OnCase
    <2>. QED
        BY <2>2, <2>3, <2>4, NothingWritten, Carry, Zenon DEF Sure
<1>2. CASE ImportInsert(r)
    <2>. DEFINE c == thr[r].case
    <2>1. /\ Go(r, Idle) /\ seen' = seen /\ UNCHANGED <<subs, adjudication, exports>>
          /\ \/ /\ status[c] = "absent" /\ status' = [status EXCEPT ![c] = "ready"]
                /\ \E given \in Diffs[c] : diff' = [diff EXCEPT ![c] = given]
             \/ UNCHANGED <<diff, status>>
        BY <1>2, Zenon DEF ImportInsert, history
    <2>2. c \in Cases
        BY <1>2, SMT DEF Sure, Informed, OnCase, ImportInsert, At
    <2>. HIDE DEF c
    <2>3. Books' /\ Grows
        <3>1. CASE status[c] = "absent" /\ status' = [status EXCEPT ![c] = "ready"]
                   /\ \E given \in Diffs[c] : diff' = [diff EXCEPT ![c] = given]
            BY <2>1, <2>2, <3>1, CaseWritten, Zenon DEF Sure
        <3>. QED
            BY <2>1, <3>1, NothingWritten, Zenon DEF Sure
    <2>. QED
        BY <2>1, <2>3, Ends, Zenon
<1>. QED
    BY <1>1, <1>2, Zenon

\* An answer is checked and written ...
LEMMA SubmitSure ==
    ASSUME Sure, NEW r \in Requests, NEW x, x = thr[r],
           \/ \E u \in Users, c \in Cases, l \in Labels : SubmitRead(r, u, c, l)
           \/ SubmitCheck(r) \/ SubmitInsert(r)
    PROVE  Sure'
<1>. DEFINE c == x.case
<1>1. x \in Thread /\ Informed(x)
    BY Zenon DEF Sure
<1>2. CASE \E u \in Users, d \in Cases, l \in Labels : SubmitRead(r, u, d, l)
    <2>1. PICK u \in Users, d \in Cases, l \in Labels : SubmitRead(r, u, d, l)
        BY <1>2, Zenon
    <2>. DEFINE next == [Idle EXCEPT !.pc = "submitting", !.case = d, !.user = u, !.label = l]
    <2>2. /\ Go(r, next) /\ seen' = seen /\ UNCHANGED <<diff, status, subs, adjudication, exports>>
          /\ status[d] \in {"ready", "in_review"}
        BY <2>1, Zenon DEF SubmitRead, answers, history
    <2>3. next \in Thread /\ next.pc = "submitting" /\ next.case = d /\ next.user = u /\ next.label = l
        BY AtRest, Zenon DEF Thread, Stages
    <2>. HIDE DEF next
    <2>4. Informed(next)'
        BY <2>2, <2>3, SMT DEF Informed, OnCase
    <2>. QED
        BY <2>2, <2>3, <2>4, NothingWritten, Carry, Zenon DEF Sure
<1>3. CASE SubmitCheck(r)
    <2>. DEFINE next == [x EXCEPT !.pc = "inserting"]
    <2>1. /\ Go(r, next) \/ Go(r, Idle)
          /\ x.pc = "submitting" /\ seen' = seen /\ UNCHANGED <<diff, status, subs, adjudication, exports>>
        BY <1>3, SMT DEF SubmitCheck, Step, At, answers, history
    <2>2. /\ next \in Thread /\ next.pc = "inserting" /\ next.case = x.case /\ next.user = x.user
          /\ next.label = x.label
        BY <1>1, Zenon DEF Thread, Stages
    <2>. HIDE DEF next
    <2>3. Informed(next)'
        BY <1>1, <2>1, <2>2, SMT DEF Informed, OnCase
    <2>. QED
        BY <2>1, <2>2, <2>3, NothingWritten, Carry, Ends, Zenon DEF Sure
<1>4. CASE SubmitInsert(r)
    <2>1. x.pc = "inserting" /\ seen' = seen /\ UNCHANGED <<diff, status, adjudication, exports>>
        BY <1>4, Zenon DEF SubmitInsert, At, history
    <2>2. c \in Cases /\ x.user \in Users /\ x.label \in Labels /\ status[c] # "absent"
        BY <1>1, <2>1, SMT DEF Informed, OnCase
    <2>3. CASE Open(c, x.user)
        <3>. DEFINE next == [x EXCEPT !.pc = "counting"]
        <3>1. /\ Go(r, next)
              /\ subs' = [subs EXCEPT ![c] = Append(@, [by |-> x.user, label |-> x.label])]
            BY <1>4, <2>3, Zenon DEF SubmitInsert, Step
        <3>2. next \in Thread /\ next.pc = "counting" /\ next.case = c
            BY <1>1, Zenon DEF Thread, Stages
        <3>. HIDE DEF next, c
        <3>3. Books' /\ Grows /\ subs'[c] # <<>>
            BY <2>1, <2>2, <2>3, <3>1, AnswerWritten, Zenon DEF Sure
        <3>4. Informed(next)'
            BY <2>2, <3>2, <3>3, SMT DEF Informed, OnCase
        <3>. QED
            BY <2>1, <3>1, <3>2, <3>3, <3>4, Carry, Zenon
    <2>4. CASE ~Open(c, x.user)
        <3>1. Go(r, Idle) /\ subs' = subs
            BY <1>4, <2>4, Zenon DEF SubmitInsert
        <3>. QED
            BY <2>1, <3>1, NothingWritten, Ends, Zenon DEF Sure
    <2>. QED
        BY <2>3, <2>4, Zenon
<1>. QED
    BY <1>2, <1>3, <1>4, Zenon

\* ... and the case moved to where its answers put it.
LEMMA SubmitMoveSure ==
    ASSUME Sure, NEW r \in Requests, NEW x, x = thr[r], SubmitCount(r) \/ SubmitMove(r)
    PROVE  Sure'
<1>. DEFINE c == x.case
<1>1. x \in Thread /\ Informed(x)
    BY Zenon DEF Sure
<1>2. CASE SubmitCount(r)
    <2>0. PICK outcome : outcome = Outcome(c)
        OBVIOUS
    <2>. DEFINE next == [x EXCEPT !.pc = "moving", !.read = outcome]
    <2>1. Go(r, next) /\ x.pc = "counting" /\ seen' = seen /\ UNCHANGED <<diff, status, subs, adjudication, exports>>
        BY <1>2, <2>0, Zenon DEF SubmitCount, At, answers, history
    <2>2. c \in Cases /\ subs[c] # <<>> /\ outcome \in Statuses
        BY <1>1, <2>0, <2>1, Outcomes, SMT DEF Informed, OnCase, Statuses, Complete, Final
    <2>3. next \in Thread /\ next.pc = "moving" /\ next.case = c /\ next.read = outcome
        BY <1>1, <2>2, Zenon DEF Thread, Stages
    <2>4. Outcome(c)' = outcome
        BY <2>0, <2>1, SameAnswers, Zenon
    <2>. HIDE DEF next, c
    <2>5. Informed(next)'
        BY <2>1, <2>2, <2>3, <2>4, SMT DEF Informed, OnCase
    <2>. QED
        BY <2>1, <2>3, <2>5, NothingWritten, Carry, Zenon DEF Sure
<1>3. CASE SubmitMove(r)
    <2>1. /\ Go(r, Idle) /\ x.pc = "moving" /\ Move(c, x.read) /\ seen' = seen
          /\ UNCHANGED <<diff, subs, adjudication, exports>>
        BY <1>3, Zenon DEF SubmitMove, At, answers, history
    <2>2. c \in Cases /\ subs[c] # <<>> /\ x.read \in {"in_review", Outcome(c)}
        BY <1>1, <2>1, SMT DEF Informed, OnCase
    <2>3. \/ x.read = "in_review" /\ subs[c] # <<>>
          \/ x.read = "needs_adjudication" /\ Outcome(c) = "needs_adjudication"
          \/ x.read = "approved" /\ Outcome(c) = "approved"
        BY <2>2, Outcomes, SMT
    <2>. HIDE DEF c
    <2>4. Books' /\ Grows
        BY <2>1, <2>2, <2>3, StatusWritten, Zenon DEF Sure
    <2>. QED
        BY <2>1, <2>4, Ends, Zenon
<1>. QED
    BY <1>2, <1>3, Zenon

\* A third decides.
LEMMA AdjudicateSure ==
    ASSUME Sure, NEW r \in Requests, NEW x, x = thr[r],
           \/ \E u \in Users, c \in Cases, l \in Labels : AdjudicateRead(r, u, c, l)
           \/ AdjudicateCheck(r) \/ AdjudicateInsert(r) \/ AdjudicateMove(r)
    PROVE  Sure'
<1>. DEFINE c == x.case
<1>1. x \in Thread /\ Informed(x)
    BY Zenon DEF Sure
<1>2. CASE \E u \in Users, d \in Cases, l \in Labels : AdjudicateRead(r, u, d, l)
    <2>1. PICK u \in Users, d \in Cases, l \in Labels : AdjudicateRead(r, u, d, l)
        BY <1>2, Zenon
    <2>. DEFINE next == [Idle EXCEPT !.pc = "adjudicating", !.case = d, !.user = u, !.label = l]
    <2>2. /\ Go(r, next) /\ seen' = seen /\ UNCHANGED <<diff, status, subs, adjudication, exports>>
          /\ status[d] = "needs_adjudication"
        BY <2>1, Zenon DEF AdjudicateRead, answers, history
    <2>3. next \in Thread /\ next.pc = "adjudicating" /\ next.case = d /\ next.user = u /\ next.label = l
        BY AtRest, Zenon DEF Thread, Stages
    <2>4. Outcome(d)' = "needs_adjudication"
        BY <2>2, SameAnswers, Zenon DEF Sure, Books, Rows
    <2>. HIDE DEF next
    <2>5. Informed(next)'
        BY <2>3, <2>4, SMT DEF Informed, OnCase
    <2>. QED
        BY <2>2, <2>3, <2>5, NothingWritten, Carry, Zenon DEF Sure
<1>3. CASE AdjudicateCheck(r)
    <2>. DEFINE next == [x EXCEPT !.pc = "deciding"]
    <2>1. /\ Go(r, Idle) \/ (Go(r, next) /\ x.user \notin Authors(c))
          /\ x.pc = "adjudicating" /\ seen' = seen /\ UNCHANGED <<diff, status, subs, adjudication, exports>>
        BY <1>3, SMT DEF AdjudicateCheck, Step, At, answers, history
    <2>2. /\ next \in Thread /\ next.pc = "deciding" /\ next.case = c /\ next.user = x.user
          /\ next.label = x.label
        BY <1>1, Zenon DEF Thread, Stages
    <2>3. Outcome(c)' = Outcome(c) /\ Authors(c)' = Authors(c)
        BY <2>1, SameAnswers, Zenon
    <2>4. c \in Cases /\ x.user \in Users /\ x.label \in Labels /\ Outcome(c) = "needs_adjudication"
        BY <1>1, <2>1, SMT DEF Informed, OnCase
    <2>. HIDE DEF next, c
    <2>5. x.user \notin Authors(c) => Informed(next)'
        BY <2>2, <2>3, <2>4, SMT DEF Informed, OnCase
    <2>. QED
        BY <2>1, <2>2, <2>5, NothingWritten, Carry, Ends, Zenon DEF Sure
<1>4. CASE AdjudicateInsert(r)
    <2>1. x.pc = "deciding" /\ seen' = seen /\ UNCHANGED <<diff, status, subs, exports>>
        BY <1>4, Zenon DEF AdjudicateInsert, At, history
    <2>2. /\ c \in Cases /\ x.user \in Users /\ x.label \in Labels /\ Outcome(c) = "needs_adjudication"
          /\ x.user \notin Authors(c)
        BY <1>1, <2>1, SMT DEF Informed, OnCase
    <2>3. CASE adjudication[c] = NoAnswer
        <3>. DEFINE next == [x EXCEPT !.pc = "approving"]
        <3>1. Go(r, next) /\ adjudication' = [adjudication EXCEPT ![c] = [by |-> x.user, label |-> x.label]]
            BY <1>4, <2>3, Zenon DEF AdjudicateInsert, Step
        <3>2. next \in Thread /\ next.pc = "approving" /\ next.case = c
            BY <1>1, Zenon DEF Thread, Stages
        <3>3. Outcome(c)' = Outcome(c)
            BY <2>1, SameAnswers, Zenon
        <3>. HIDE DEF next, c
        <3>4. Books' /\ Grows /\ adjudication'[c] # NoAnswer
            BY <2>1, <2>2, <2>3, <3>1, DecisionWritten, Zenon DEF Sure
        <3>5. Informed(next)'
            BY <2>2, <3>2, <3>3, <3>4, SMT DEF Informed, OnCase
        <3>. QED
            BY <2>1, <3>1, <3>2, <3>4, <3>5, Carry, Zenon
    <2>4. CASE adjudication[c] # NoAnswer
        <3>1. Go(r, Idle) /\ adjudication' = adjudication
            BY <1>4, <2>4, Zenon DEF AdjudicateInsert
        <3>. QED
            BY <2>1, <3>1, NothingWritten, Ends, Zenon DEF Sure
    <2>. QED
        BY <2>3, <2>4, Zenon
<1>5. CASE AdjudicateMove(r)
    <2>1. /\ Go(r, Idle) /\ x.pc = "approving" /\ Move(c, "approved") /\ seen' = seen
          /\ UNCHANGED <<diff, subs, adjudication, exports>>
        BY <1>5, Zenon DEF AdjudicateMove, At, answers, history
    <2>2. c \in Cases /\ adjudication[c] # NoAnswer
        BY <1>1, <2>1, SMT DEF Informed, OnCase
    <2>. HIDE DEF c
    <2>3. Books' /\ Grows
        BY <2>1, <2>2, StatusWritten, Zenon DEF Sure
    <2>. QED
        BY <2>1, <2>3, Ends, Zenon
<1>. QED
    BY <1>2, <1>3, <1>4, <1>5, Zenon

\* A case is read: what is shown was complete when its status was.
LEMMA ViewSure ==
    ASSUME Sure, NEW r \in Requests, NEW x, x = thr[r],
           (\E u \in Users, c \in Cases : ViewRead(r, u, c)) \/ ViewAnswer(r)
    PROVE  Sure'
<1>1. x \in Thread /\ Informed(x)
    BY Zenon DEF Sure
<1>2. CASE \E u \in Users, c \in Cases : ViewRead(r, u, c)
    <2>1. PICK u \in Users, c \in Cases : ViewRead(r, u, c)
        BY <1>2, Zenon
    <2>2. PICK was : was = status[c]
        OBVIOUS
    <2>. DEFINE next == [Idle EXCEPT !.pc = "viewing", !.case = c, !.user = u, !.read = was]
    <2>3. Go(r, next) /\ seen' = seen /\ UNCHANGED <<diff, status, subs, adjudication, exports>>
        BY <2>1, <2>2, Zenon DEF ViewRead, answers, history
    <2>4. was \in Statuses \cup {"absent"} /\ (was \in Complete => Len(subs[c]) = 2)
        <3>1. Rows(c) /\ was \in Statuses \cup {"absent"}
            BY <2>2, Zenon DEF Sure, Books, Tables
        <3>. QED
            BY <2>2, <3>1, Outcomes, FinalRows, SMT DEF Sure, Rows, Complete
    <2>5. /\ next \in Thread /\ next.pc = "viewing" /\ next.case = c /\ next.user = u
          /\ next.read = was
        BY <2>4, AtRest, Zenon DEF Thread, Stages
    <2>. HIDE DEF next
    <2>6. Informed(next)'
        BY <2>3, <2>4, <2>5, SMT DEF Informed, OnCase
    <2>. QED
        BY <2>3, <2>5, <2>6, NothingWritten, Carry, Zenon DEF Sure
<1>3. CASE ViewAnswer(r)
    <2>1. /\ x.pc = "viewing" /\ Go(r, Idle) /\ UNCHANGED <<diff, status, subs, adjudication, exports>>
          /\ \/ seen' = seen
             \/ MayReveal(r) /\ seen' = [seen EXCEPT ![x.user] = @ \cup {x.case}]
        BY <1>3, SMT DEF ViewAnswer, At, answers
    <2>2. x.case \in Cases /\ x.user \in Users /\ (x.read \in Complete => Len(subs[x.case]) = 2)
        BY <1>1, <2>1, SMT DEF Informed, OnCase
    <2>3. MayReveal(r) => x.read \in Complete /\ (x.case \in Holdout => x.user \in Managers)
        BY SMT DEF MayReveal
    <2>4. Shown'
        BY <2>1, <2>2, <2>3, SMT DEF Sure, Shown
    <2>5. Books' /\ Grows
        BY <2>1, NothingWritten, Zenon DEF Sure
    <2>. QED
        BY <2>1, <2>4, <2>5, AtRest, OthersInformed, Zenon DEF Sure
<1>. QED
    BY <1>2, <1>3, Zenon

\* A dataset is written of final cases, which are then marked one by one.
LEMMA ExportSure ==
    ASSUME Sure, NEW r \in Requests, NEW x, x = thr[r],
           \/ \E n \in Names, chosen \in SUBSET Cases : ExportRead(r, n, chosen)
           \/ ExportInsert(r) \/ ExportMark(r)
    PROVE  Sure'
<1>1. x \in Thread /\ Informed(x) /\ x.todo \in SUBSET Cases
    BY Zenon DEF Sure, Thread
<1>2. CASE \E n \in Names, chosen \in SUBSET Cases : ExportRead(r, n, chosen)
    <2>1. PICK n \in Names, chosen \in SUBSET Cases : ExportRead(r, n, chosen)
        BY <1>2, Zenon
    <2>. DEFINE next == [Idle EXCEPT !.pc = "building", !.name = n, !.todo = chosen]
    <2>2. /\ Go(r, next) /\ seen' = seen /\ UNCHANGED <<diff, status, subs, adjudication, exports>>
          /\ \A c \in chosen : status[c] \in Final
        BY <2>1, Zenon DEF ExportRead, Selectable, answers, history
    <2>3. next \in Thread /\ next.pc = "building" /\ next.name = n /\ next.todo = chosen
        BY AtRest, Zenon DEF Thread, Stages
    <2>. HIDE DEF next
    <2>4. Informed(next)'
        BY <2>2, <2>3, SMT DEF Informed, OnCase
    <2>. QED
        BY <2>2, <2>3, <2>4, NothingWritten, Carry, Zenon DEF Sure
<1>3. CASE ExportInsert(r)
    <2>1. x.pc = "building" /\ seen' = seen /\ UNCHANGED <<diff, status, subs, adjudication>>
        BY <1>3, Zenon DEF ExportInsert, At, answers, history
    <2>2. x.name \in Names /\ \A c \in x.todo : status[c] \in Final
        BY <1>1, <2>1, SMT DEF Informed
    <2>3. CASE Sound(x.todo) /\ x.name \notin DOMAIN exports
        <3>. DEFINE next == [x EXCEPT !.pc = "marking"]
        <3>1. /\ Go(r, next)
              /\ exports' = [m \in DOMAIN exports \cup {x.name} |->
                               IF m = x.name THEN [c \in x.todo |-> LabelOf(c)] ELSE exports[m]]
            BY <1>3, <2>3, Zenon DEF ExportInsert, Step
        <3>2. next \in Thread /\ next.pc = "marking" /\ next.name = x.name /\ next.todo = x.todo
            BY <1>1, Zenon DEF Thread, Stages
        <3>. HIDE DEF next
        <3>3. Books' /\ Grows /\ x.name \in DOMAIN exports' /\ DOMAIN exports'[x.name] = x.todo
            BY <1>1, <2>1, <2>2, <2>3, <3>1, DatasetWritten, Zenon DEF Sure
        <3>4. Informed(next)'
            BY <3>2, <3>3, SMT DEF Informed, OnCase
        <3>. QED
            BY <2>1, <3>1, <3>2, <3>3, <3>4, Carry, Zenon
    <2>4. CASE ~(Sound(x.todo) /\ x.name \notin DOMAIN exports)
        <3>1. Go(r, Idle) /\ exports' = exports
            BY <1>3, <2>4, Zenon DEF ExportInsert
        <3>. QED
            BY <2>1, <3>1, NothingWritten, Ends, Zenon DEF Sure
    <2>. QED
        BY <2>3, <2>4, Zenon
<1>4. CASE ExportMark(r)
    <2>1. x.pc = "marking" /\ seen' = seen /\ UNCHANGED <<diff, subs, adjudication, exports>>
        BY <1>4, Zenon DEF ExportMark, At, answers, history
    <2>2. PICK c \in x.todo : /\ Move(c, "exported")
                              /\ Go(r, IF x.todo = {c} THEN Idle ELSE [x EXCEPT !.todo = @ \ {c}])
        BY <1>4, Zenon DEF ExportMark
    <2>. DEFINE next == [x EXCEPT !.todo = @ \ {c}]
    <2>3. Go(r, Idle) \/ Go(r, next)
        BY <2>2, SMT
    <2>4. next \in Thread /\ next.pc = "marking" /\ next.name = x.name /\ next.todo = x.todo \ {c}
        BY <1>1, <2>1, SMT DEF Thread
    <2>. HIDE DEF next
    <2>5. Books' /\ Grows
        BY <1>1, <2>1, <2>2, StatusWritten, SMT DEF Sure
    <2>6. Informed(next)'
        BY <1>1, <2>1, <2>4, SMT DEF Informed, OnCase
    <2>. QED
        BY <2>1, <2>3, <2>4, <2>5, <2>6, Carry, Ends, Zenon
<1>. QED
    BY <1>2, <1>3, <1>4, Zenon

\* A request that fails, and all requests that end with the process.
LEMMA MishapSure ==
    ASSUME Sure, (\E r \in Requests : CallFails(r)) \/ Crash
    PROVE  Sure'
<1>1. Books' /\ Grows /\ seen' = seen
    BY NothingWritten, Zenon DEF Sure, CallFails, Crash, answers
<1>2. CASE \E r \in Requests : CallFails(r)
    BY <1>1, <1>2, Ends, Zenon DEF CallFails
<1>3. CASE Crash
    <2>1. thr' \in [Requests -> Thread] /\ \A q \in Requests : thr'[q] = Idle
        BY <1>3, AtRest, Zenon DEF Crash
    <2>2. \A q \in Requests : Informed(thr[q])'
        BY <2>1, AtRest, Zenon DEF Informed
    <2>3. Shown'
        BY <1>1, <1>3, Zenon DEF Sure, Shown, Crash, answers
    <2>. QED
        BY <1>1, <2>1, <2>2, <2>3, Zenon DEF Sure
<1>. QED
    BY <1>2, <1>3, Zenon

\* A case found imported stands where its answers put it.
LEMMA InitRows ==
    ASSUME Init, NEW c \in Cases
    PROVE  /\ Given(subs[c]) /\ adjudication[c] = NoAnswer
           /\ status[c] = "absent" => subs[c] = <<>>
           /\ \/ status[c] = "absent"
              \/ status[c] = "ready" /\ subs[c] = <<>>
              \/ status[c] = Outcome(c) /\ subs[c] # <<>>
<1>1. PICK left \in Earlier :
          /\ subs = [d \in Cases |-> IF d \in DOMAIN left THEN left[d] ELSE <<>>]
          /\ status = [d \in Cases |-> IF d \notin DOMAIN left THEN "absent"
                                       ELSE IF subs[d] = <<>> THEN "ready" ELSE Outcome(d)]
    BY Zenon DEF Init
<1>2. /\ subs[c] = IF c \in DOMAIN left THEN left[c] ELSE <<>>
      /\ status[c] = IF c \notin DOMAIN left THEN "absent"
                     ELSE IF subs[c] = <<>> THEN "ready" ELSE Outcome(c)
    BY <1>1, Zenon
<1>3. Given(<<>>)
    BY SMT DEF Given, Required
<1>4. Given(subs[c])
    BY <1>2, <1>3, AnnotationAssumption, Zenon
<1>5. adjudication[c] = NoAnswer
    BY Zenon DEF Init
<1>6. \/ status[c] = "absent" /\ subs[c] = <<>>
      \/ status[c] = "ready" /\ subs[c] = <<>>
      \/ status[c] = Outcome(c) /\ subs[c] # <<>>
    BY <1>2, Zenon
<1>7. Outcome(c) # "absent"
    BY SMT DEF Outcome
<1>. QED
    BY <1>4, <1>5, <1>6, <1>7, Zenon

\* The tables start in order.
LEMMA InitSure == Init => Sure
<1>. SUFFICES ASSUME Init PROVE Sure
    OBVIOUS
<1>1. Tables
    <2>1. \A c \in Cases : subs[c] \in Seq(Answer)
        BY InitRows, Zenon DEF Given
    <2>2. \A c \in Cases : status[c] \in Statuses \cup {"absent"}
        <3>. SUFFICES ASSUME NEW c \in Cases PROVE status[c] \in Statuses \cup {"absent"}
            OBVIOUS
        <3>1. Outcome(c) \in {"in_review", "approved", "needs_adjudication"}
            BY Outcomes, Zenon
        <3>. QED
            BY <3>1, InitRows, Zenon DEF Statuses, Complete, Final
    <2>3. DOMAIN subs = Cases /\ DOMAIN status = Cases /\ subs = [c \in Cases |-> subs[c]]
          /\ status = [c \in Cases |-> status[c]]
        BY Zenon DEF Init
    <2>4. subs \in [Cases -> Seq(Answer)] /\ status \in [Cases -> Statuses \cup {"absent"}]
        BY <2>1, <2>2, <2>3, Zenon
    <2>5. diff \in [Cases -> AnyDiff]
        BY Zenon DEF Init
    <2>6. adjudication \in [Cases -> Answer \cup {NoAnswer}] /\ DOMAIN exports = {}
        BY SMT DEF Init
    <2>. QED
        BY <2>4, <2>5, <2>6, Zenon DEF Tables
<1>2. ASSUME NEW c \in Cases PROVE Rows(c)
    <2>1. Len(subs[c]) <= 2 /\ (Len(subs[c]) = 2 => subs[c][1].by # subs[c][2].by)
        <3>1. /\ subs[c] \in Seq(Answer) /\ Len(subs[c]) <= 2
              /\ \A i, j \in DOMAIN subs[c] : subs[c][i].by = subs[c][j].by => i = j
            BY InitRows, Zenon DEF Given, Required
        <3>2. Len(subs[c]) = 2 => 1 \in DOMAIN subs[c] /\ 2 \in DOMAIN subs[c]
            BY <3>1, SMT
        <3>3. 1 # 2
            OBVIOUS
        <3>. QED
            BY <3>1, <3>2, <3>3, Zenon
    <2>2. adjudication[c] = NoAnswer
        BY InitRows, Zenon
    <2>3. Outcome(c) \in {"in_review", "approved", "needs_adjudication"}
        BY Outcomes, Zenon
    <2>4. /\ status[c] = "absent" => subs[c] = <<>>
          /\ \/ status[c] = "absent"
             \/ status[c] = "ready" /\ subs[c] = <<>>
             \/ status[c] = Outcome(c) /\ subs[c] # <<>>
        BY InitRows, Zenon
    <2>. QED
        BY <2>1, <2>2, <2>3, <2>4, SMT DEF Rows, Final
<1>3. DatasetStands /\ Shown
    BY SMT DEF Init, DatasetStands, Shown
<1>4. thr \in [Requests -> Thread] /\ \A r \in Requests : thr[r] = Idle
    BY AtRest, Zenon DEF Init
<1>5. \A r \in Requests : Informed(thr[r])
    BY <1>4, AtRest, Zenon DEF Informed
<1>. QED
    BY <1>1, <1>2, <1>3, <1>4, <1>5, Zenon DEF Sure, Books

\* No step of a request and no mishap makes anything of it false.
LEMMA NextSure == Sure /\ [Next]_vars => Sure'
<1>. SUFFICES ASSUME Sure, [Next]_vars PROVE Sure'
    OBVIOUS
<1>1. CASE UNCHANGED vars
    <2>1. UNCHANGED <<diff, status, subs, adjudication, exports, thr, seen>>
        BY <1>1, Zenon DEF vars
    <2>2. Books' /\ Grows
        BY <2>1, NothingWritten, Zenon DEF Sure
    <2>3. \A r \in Requests : Informed(thr[r])'
        BY <2>1, SameAnswers, Zenon DEF Sure, Informed
    <2>. QED
        BY <2>1, <2>2, <2>3, Zenon DEF Sure, Shown
<1>2. CASE Next
    <2>1. ASSUME NEW r \in Requests,
                 \/ \E c \in Cases : ImportLookup(r, c)
                 \/ ImportInsert(r)
                 \/ \E u \in Users, c \in Cases, l \in Labels : SubmitRead(r, u, c, l)
                 \/ SubmitCheck(r) \/ SubmitInsert(r) \/ SubmitCount(r) \/ SubmitMove(r)
                 \/ \E u \in Users, c \in Cases, l \in Labels : AdjudicateRead(r, u, c, l)
                 \/ AdjudicateCheck(r) \/ AdjudicateInsert(r) \/ AdjudicateMove(r)
                 \/ \E u \in Users, c \in Cases : ViewRead(r, u, c)
                 \/ ViewAnswer(r)
                 \/ \E n \in Names, chosen \in SUBSET Cases : ExportRead(r, n, chosen)
                 \/ ExportInsert(r) \/ ExportMark(r)
          PROVE  Sure'
        <3>1. PICK x : x = thr[r]
            OBVIOUS
        <3>. QED
            BY <2>1, <3>1, ImportSure, SubmitSure, SubmitMoveSure, AdjudicateSure, ViewSure, ExportSure, Zenon
    <2>. QED
        BY <1>2, <2>1, MishapSure, Zenon DEF Next
<1>. QED
    BY <1>1, <1>2, Zenon

-----------------------------------------------------------------------------
(* What follows. *)

\* A case is final with two answers of two users, which agree, or which a third
\* has decided.
LEMMA SureLabelled == Sure => Labelled
<1>. SUFFICES ASSUME Sure, NEW c \in Cases, status[c] \in Final
              PROVE  /\ Len(subs[c]) = 2 /\ Cardinality(Authors(c)) = 2
                     /\ IF adjudication[c] = NoAnswer THEN Cardinality(Answers(c)) = 1
                        ELSE adjudication[c].by \notin Authors(c) /\ Cardinality(Answers(c)) = 2
    BY Zenon DEF Labelled
<1>1. Len(subs[c]) = 2 /\ subs[c] \in Seq(Answer) /\ Rows(c)
    BY FinalRows, Zenon DEF Sure, Books, Tables
<1>2. /\ Authors(c) = {subs[c][1].by, subs[c][2].by}
      /\ Answers(c) = {subs[c][1].label, subs[c][2].label}
    <2>1. DOMAIN subs[c] = {1, 2}
        BY <1>1, SMT
    <2>. QED
        BY <2>1, SMT DEF Authors, Answers
<1>3. ASSUME NEW a, NEW b PROVE Cardinality({a, b}) = IF a = b THEN 1 ELSE 2
    <2>1. CASE a = b
        <3>1. {a, b} = {a} /\ Cardinality({a}) = 1
            BY <2>1, FS_Singleton, Zenon
        <3>. QED
            BY <2>1, <3>1, Zenon
    <2>2. CASE a # b
        <3>1. IsFiniteSet({a}) /\ Cardinality({a}) = 1
            BY FS_Singleton, Zenon
        <3>2. b \notin {a} /\ {a, b} = {a} \cup {b}
            BY <2>2, SMT
        <3>3. Cardinality({a} \cup {b}) = Cardinality({a}) + 1
            BY <3>1, <3>2, FS_AddElement, Zenon
        <3>4. Cardinality({a, b}) = 1 + 1
            BY <3>1, <3>2, <3>3, Zenon
        <3>. QED
            BY <2>2, <3>4, SMT
    <2>. QED
        BY <2>1, <2>2, Zenon
<1>4. Cardinality(Authors(c)) = 2
    <2>1. subs[c][1].by # subs[c][2].by
        BY <1>1, Zenon DEF Rows
    <2>2. Cardinality({subs[c][1].by, subs[c][2].by}) =
              IF subs[c][1].by = subs[c][2].by THEN 1 ELSE 2
        BY <1>3, Zenon
    <2>3. Cardinality(Authors(c)) = Cardinality({subs[c][1].by, subs[c][2].by})
        BY <1>2, Zenon
    <2>. QED
        BY <2>1, <2>2, <2>3, SMT
<1>5. Cardinality(Answers(c)) \in {1, 2}
    <2>1. Cardinality({subs[c][1].label, subs[c][2].label}) =
              IF subs[c][1].label = subs[c][2].label THEN 1 ELSE 2
        BY <1>3, Zenon
    <2>2. Cardinality(Answers(c)) = Cardinality({subs[c][1].label, subs[c][2].label})
        BY <1>2, Zenon
    <2>. QED
        BY <2>1, <2>2, SMT
<1>6. Outcome(c) = IF Cardinality(Answers(c)) = 1 THEN "approved" ELSE "needs_adjudication"
    BY <1>1, SMT DEF Outcome, Required
<1>7. CASE adjudication[c] = NoAnswer
    BY <1>1, <1>4, <1>6, <1>7, SMT DEF Rows
<1>8. CASE adjudication[c] # NoAnswer
    BY <1>1, <1>4, <1>5, <1>6, <1>8, SMT DEF Rows
<1>. QED
    BY <1>1, <1>4, <1>7, <1>8, Zenon

\* The steps of one request.
RequestStep(r) ==
    \/ \E c \in Cases : ImportLookup(r, c)
    \/ ImportInsert(r)
    \/ \E u \in Users, c \in Cases, l \in Labels : SubmitRead(r, u, c, l)
    \/ SubmitCheck(r) \/ SubmitInsert(r) \/ SubmitCount(r) \/ SubmitMove(r)
    \/ \E u \in Users, c \in Cases, l \in Labels : AdjudicateRead(r, u, c, l)
    \/ AdjudicateCheck(r) \/ AdjudicateInsert(r) \/ AdjudicateMove(r)
    \/ \E u \in Users, c \in Cases : ViewRead(r, u, c)
    \/ ViewAnswer(r)
    \/ \E n \in Names, chosen \in SUBSET Cases : ExportRead(r, n, chosen)
    \/ ExportInsert(r) \/ ExportMark(r) \/ CallFails(r)

\* Only a submission writes an answer.
LEMMA OneWriter ==
    ASSUME NEW r \in Requests, RequestStep(r)
    PROVE  subs' = subs \/ SubmitInsert(r)
<1>1. ASSUME NEW c \in Cases, ImportLookup(r, c) PROVE subs' = subs
    BY <1>1, Zenon DEF ImportLookup, answers
<1>2. ASSUME ImportInsert(r) PROVE subs' = subs
    BY <1>2, Zenon DEF ImportInsert, answers
<1>3. ASSUME NEW u \in Users, NEW c \in Cases, NEW l \in Labels, SubmitRead(r, u, c, l) PROVE subs' = subs
    BY <1>3, Zenon DEF SubmitRead, answers
<1>4. ASSUME SubmitCheck(r) \/ SubmitCount(r) \/ SubmitMove(r) PROVE subs' = subs
    BY <1>4, Zenon DEF SubmitCheck, SubmitCount, SubmitMove, answers
<1>5. ASSUME NEW u \in Users, NEW c \in Cases, NEW l \in Labels, AdjudicateRead(r, u, c, l) PROVE subs' = subs
    BY <1>5, Zenon DEF AdjudicateRead, answers
<1>6. ASSUME AdjudicateCheck(r) \/ AdjudicateInsert(r) \/ AdjudicateMove(r) PROVE subs' = subs
    BY <1>6, Zenon DEF AdjudicateCheck, AdjudicateInsert, AdjudicateMove, answers
<1>7. ASSUME NEW u \in Users, NEW c \in Cases, ViewRead(r, u, c) PROVE subs' = subs
    BY <1>7, Zenon DEF ViewRead, answers
<1>8. ASSUME NEW n \in Names, NEW chosen \in SUBSET Cases, ExportRead(r, n, chosen) PROVE subs' = subs
    BY <1>8, Zenon DEF ExportRead, answers
<1>9. ASSUME ViewAnswer(r) \/ ExportInsert(r) \/ ExportMark(r) \/ CallFails(r) PROVE subs' = subs
    BY <1>9, Zenon DEF ViewAnswer, ExportInsert, ExportMark, CallFails, answers
<1>. QED
    BY <1>1, <1>2, <1>3, <1>4, <1>5, <1>6, <1>7, <1>8, <1>9, Zenon DEF RequestStep

\* Only a submission adds an author, to a case that is open and therefore has
\* not been shown.
LEMMA SureBlind ==
    ASSUME Sure, Next, NEW c \in Cases, NEW u \in Users
    PROVE  /\ u \in Authors(c)' \ Authors(c) => c \notin seen[u]
           /\ c \in seen'[u] \cap Holdout => u \in Managers
<1>1. Sure'
    BY NextSure, Zenon
<1>2. CASE subs' = subs
    BY <1>1, <1>2, SameAnswers, Zenon DEF Sure, Shown
<1>3. CASE \E r \in Requests : SubmitInsert(r)
    <2>1. PICK r \in Requests : SubmitInsert(r)
        BY <1>3, Zenon
    <2>2. PICK d, w : d = thr[r].case /\ w = thr[r].user
        OBVIOUS
    <2>3. CASE ~Open(d, w)
        <3>1. subs' = subs
            BY <2>1, <2>2, <2>3, Zenon DEF SubmitInsert
        <3>. QED
            BY <1>2, <3>1, Zenon
    <2>4. CASE Open(d, w)
        <3>1. subs' = [subs EXCEPT ![d] = Append(@, [by |-> thr[r].user, label |-> thr[r].label])]
            BY <2>1, <2>2, <2>4, Zenon DEF SubmitInsert
        <3>2. c # d => Authors(c)' = Authors(c)
            <4>1. c # d => subs'[c] = subs[c]
                BY <3>1, SMT DEF Sure, Books, Tables
            <4>. QED
                BY <4>1, SameAnswers, Zenon
        <3>3. c = d => c \notin seen[u]
            BY <2>4, SMT DEF Open, Required, Sure, Shown
        <3>. QED
            BY <1>1, <3>2, <3>3, SMT DEF Sure, Shown
    <2>. QED
        BY <2>3, <2>4, Zenon
<1>4. CASE Crash
    <2>1. subs' = subs
        BY <1>4, Zenon DEF Crash, answers
    <2>. QED
        BY <1>2, <2>1, Zenon
<1>5. ASSUME NEW r \in Requests, RequestStep(r) PROVE subs' = subs \/ SubmitInsert(r)
    BY <1>5, OneWriter, Zenon
<1>. QED
    BY <1>2, <1>3, <1>4, <1>5, Zenon DEF Next, RequestStep

\* update_annotation_case_status under the rows of both tables: no order of
\* submissions and decisions makes a label final that nobody earned.
THEOREM LabelsEarned == Spec => []Labelled
BY InitSure, NextSure, SureLabelled, PTL DEF Spec

\* create_annotation_export: an exported label is the case's for good.
THEOREM DatasetsHold == Spec => []DatasetStands
<1>1. Sure => DatasetStands
    BY Zenon DEF Sure, Books
<1>. QED
    BY <1>1, InitSure, NextSure, PTL DEF Spec

\* get_case's rule of who may see what, by the status read first: answers are
\* given blind, and those of the holdout stay with the managers.
THEOREM AnswersBlind == Spec => Blind
<1>1. Sure /\ [Next]_vars =>
         [\A c \in Cases : \A u \in Users :
             /\ u \in Authors(c)' \ Authors(c) => c \notin seen[u]
             /\ c \in seen'[u] \cap Holdout => u \in Managers]_vars
    BY SureBlind, Zenon
<1>. QED
    BY <1>1, InitSure, NextSure, PTL DEF Spec, Blind

-----------------------------------------------------------------------------
(* Cases settle: a case that is not where its rows put it is owed a write by *)
(* a request under way, unless a mishap took that request.                   *)

Counts(x, c) == x.case = c /\ x.pc \in {"counting", "moving"}
Moves(x, c) == x.case = c /\ (x.pc = "counting" \/ (x.pc = "moving" /\ x.read = Outcome(c)))
Approves(x, c) == x.case = c /\ x.pc = "approving"
Marks(x, c) == x.pc = "marking" /\ c \in x.todo
Owing == {"counting", "moving", "approving", "marking"}

Exported(c) == \E n \in DOMAIN exports : c \in DOMAIN exports[n]
Uncounted(c) == status[c] = "ready" /\ subs[c] # <<>>
Unmoved(c) == status[c] \in {"ready", "in_review"} /\ Outcome(c) # "in_review"
Undecided(c) == adjudication[c] # NoAnswer /\ status[c] \notin Final
Unmarked(c) == Exported(c) /\ status[c] # "exported"

Due(c) ==
    /\ Uncounted(c) => \E r \in Requests : Counts(thr[r], c)
    /\ Unmoved(c) => \E r \in Requests : Moves(thr[r], c)
    /\ Undecided(c) => \E r \in Requests : Approves(thr[r], c)
    /\ Unmarked(c) => \E r \in Requests : Marks(thr[r], c)

Settling ==
    /\ \A c \in Cases : status[c] = "exported" => Exported(c)
    /\ \A c \in Cases \ broken : Due(c)

\* A request goes from x to y without dropping what a case is owed: y owes it,
\* or it was owed before and not by x.
Hand(x, y, c) ==
    /\ status'[c] = "exported" => status[c] = "exported" \/ Exported(c)
    /\ Exported(c) => Exported(c)'
    /\ Uncounted(c)' => Counts(y, c) \/ (Uncounted(c) /\ ~Counts(x, c))
    /\ Unmoved(c)' => \/ Moves(y, c)'
                      \/ Unmoved(c) /\ ~Moves(x, c) /\ Outcome(c)' = Outcome(c)
    /\ Undecided(c)' => Approves(y, c) \/ (Undecided(c) /\ ~Approves(x, c))
    /\ Unmarked(c)' => Marks(y, c) \/ (Unmarked(c) /\ ~Marks(x, c))

Hands(r) == \E y : Go(r, y) /\ \A c \in Cases : Hand(thr[r], y, c)

\* What is handed on stays owed.
LEMMA Handover ==
    ASSUME Sure, NEW r \in Requests, NEW y, Go(r, y), NEW c \in Cases, Due(c), Hand(thr[r], y, c)
    PROVE  Due(c)'
<1>1. thr'[r] = y /\ \A q \in Requests : q # r => thr'[q] = thr[q]
    BY SMT DEF Sure, Go
<1>2. Uncounted(c)' => \E q \in Requests : Counts(thr'[q], c)
    <2>1. CASE Counts(y, c)
        BY <1>1, <2>1, Zenon
    <2>2. ASSUME Uncounted(c), ~Counts(thr[r], c) PROVE \E q \in Requests : Counts(thr'[q], c)
        <3>1. PICK q \in Requests : Counts(thr[q], c)
            BY <2>2, Zenon DEF Due
        <3>. QED
            BY <1>1, <2>2, <3>1, Zenon
    <2>. QED
        BY <2>1, <2>2, Zenon DEF Hand
<1>3. Unmoved(c)' => \E q \in Requests : Moves(thr[q], c)'
    <2>1. CASE Moves(y, c)'
        BY <1>1, <2>1, Zenon DEF Moves
    <2>2. ASSUME Unmoved(c), ~Moves(thr[r], c), Outcome(c)' = Outcome(c)
          PROVE  \E q \in Requests : Moves(thr[q], c)'
        <3>1. PICK q \in Requests : Moves(thr[q], c)
            BY <2>2, Zenon DEF Due
        <3>. QED
            BY <1>1, <2>2, <3>1, Zenon DEF Moves
    <2>. QED
        BY <2>1, <2>2, Zenon DEF Hand
<1>4. Undecided(c)' => \E q \in Requests : Approves(thr'[q], c)
    <2>1. CASE Approves(y, c)
        BY <1>1, <2>1, Zenon
    <2>2. ASSUME Undecided(c), ~Approves(thr[r], c) PROVE \E q \in Requests : Approves(thr'[q], c)
        <3>1. PICK q \in Requests : Approves(thr[q], c)
            BY <2>2, Zenon DEF Due
        <3>. QED
            BY <1>1, <2>2, <3>1, Zenon
    <2>. QED
        BY <2>1, <2>2, Zenon DEF Hand
<1>5. Unmarked(c)' => \E q \in Requests : Marks(thr'[q], c)
    <2>1. CASE Marks(y, c)
        BY <1>1, <2>1, Zenon
    <2>2. ASSUME Unmarked(c), ~Marks(thr[r], c) PROVE \E q \in Requests : Marks(thr'[q], c)
        <3>1. PICK q \in Requests : Marks(thr[q], c)
            BY <2>2, Zenon DEF Due
        <3>. QED
            BY <1>1, <2>2, <3>1, Zenon
    <2>. QED
        BY <2>1, <2>2, Zenon DEF Hand
<1>. QED
    BY <1>2, <1>3, <1>4, <1>5, Zenon DEF Due, Counts, Approves, Marks

\* A case whose rows, status and datasets stay needs only what x owed it.
LEMMA Untouched ==
    ASSUME NEW x, NEW y, NEW c \in Cases,
           status'[c] = status[c], subs'[c] = subs[c], adjudication'[c] = adjudication[c],
           Exported(c)' <=> Exported(c),
           Counts(x, c) => Counts(y, c), Moves(x, c) => Moves(y, c),
           Approves(x, c) => Approves(y, c), Marks(x, c) => Marks(y, c)
    PROVE  Hand(x, y, c)
<1>1. Outcome(c)' = Outcome(c)
    BY SameAnswers, Zenon
<1>2. Moves(y, c) => Moves(y, c)'
    BY <1>1, Zenon DEF Moves
<1>. QED
    BY <1>1, <1>2, Zenon DEF Hand, Uncounted, Unmoved, Undecided, Unmarked

\* Reads and refused writes of a request that owes nothing.
LEMMA Quiet ==
    ASSUME NEW r \in Requests, NEW y, Go(r, y), thr[r].pc \notin Owing,
           UNCHANGED <<status, subs, adjudication, exports>>
    PROVE  Hands(r)
<1>. SUFFICES ASSUME NEW c \in Cases PROVE Hand(thr[r], y, c)
    BY Zenon DEF Hands
<1>1. ~Counts(thr[r], c) /\ ~Moves(thr[r], c) /\ ~Approves(thr[r], c) /\ ~Marks(thr[r], c)
    BY SMT DEF Owing, Counts, Moves, Approves, Marks
<1>2. Exported(c)' <=> Exported(c)
    BY Zenon DEF Exported
<1>. QED
    BY <1>1, <1>2, Untouched, Zenon

\* A case is created with no rows.
LEMMA ImportHands ==
    ASSUME Sure, NEW r \in Requests, NEW x, x = thr[r],
           (\E c \in Cases : ImportLookup(r, c)) \/ ImportInsert(r)
    PROVE  Hands(r)
<1>1. CASE \E c \in Cases : ImportLookup(r, c)
    <2>1. PICK c \in Cases : ImportLookup(r, c)
        BY <1>1, Zenon
    <2>2. x.pc = "idle" /\ UNCHANGED <<status, subs, adjudication, exports>>
        BY <2>1, Zenon DEF ImportLookup, Call, At, answers
    <2>3. \E y : Go(r, y)
        BY <2>1, Zenon DEF ImportLookup
    <2>. QED
        BY <2>2, <2>3, Quiet, SMT DEF Owing
<1>2. CASE ImportInsert(r)
    <2>1. /\ Go(r, Idle) /\ x.pc = "importing" /\ UNCHANGED <<subs, adjudication, exports>>
          /\ \/ status[x.case] = "absent" /\ status' = [status EXCEPT ![x.case] = "ready"]
             \/ status' = status
        BY <1>2, SMT DEF ImportInsert, At, answers
    <2>2. ASSUME NEW c \in Cases PROVE Hand(x, Idle, c)
        <3>1. ~Counts(x, c) /\ ~Moves(x, c) /\ ~Approves(x, c) /\ ~Marks(x, c)
            BY <2>1, SMT DEF Counts, Moves, Approves, Marks
        <3>2. Exported(c)' <=> Exported(c)
            BY <2>1, Zenon DEF Exported
        <3>3. CASE status'[c] = status[c]
            BY <2>1, <3>1, <3>2, <3>3, Untouched, Zenon
        <3>4. CASE status'[c] # status[c]
            <4>1. status[c] = "absent" /\ status'[c] = "ready"
                BY <2>1, <3>4, SMT DEF Sure, Books, Tables
            <4>2. subs[c] = <<>> /\ Outcome(c) = "in_review" /\ adjudication[c] = NoAnswer
                <5>1. Rows(c)
                    BY Zenon DEF Sure, Books
                <5>. QED
                    BY <4>1, <5>1, Outcomes, SMT DEF Rows
            <4>3. ~Exported(c)
                BY <4>1, SMT DEF Sure, Books, DatasetStands, Exported, Final
            <4>4. Outcome(c)' = Outcome(c)
                BY <2>1, SameAnswers, Zenon
            <4>. QED
                BY <2>1, <3>2, <4>1, <4>2, <4>3, <4>4, SMT DEF Hand, Uncounted, Unmoved, Undecided, Unmarked
        <3>. QED
            BY <3>3, <3>4, Zenon
    <2>. QED
        BY <2>1, <2>2, Zenon DEF Hands
<1>. QED
    BY <1>1, <1>2, Zenon

\* The request that writes an answer owes the case its count.
LEMMA SubmitHands ==
    ASSUME Sure, NEW r \in Requests, NEW x, x = thr[r],
           \/ \E u \in Users, c \in Cases, l \in Labels : SubmitRead(r, u, c, l)
           \/ SubmitCheck(r) \/ SubmitInsert(r)
    PROVE  Hands(r)
<1>1. CASE \E u \in Users, c \in Cases, l \in Labels : SubmitRead(r, u, c, l)
    <2>1. PICK u \in Users, c \in Cases, l \in Labels : SubmitRead(r, u, c, l)
        BY <1>1, Zenon
    <2>2. x.pc = "idle" /\ UNCHANGED <<status, subs, adjudication, exports>>
        BY <2>1, Zenon DEF SubmitRead, Call, At, answers
    <2>3. \E y : Go(r, y)
        BY <2>1, Zenon DEF SubmitRead
    <2>. QED
        BY <2>2, <2>3, Quiet, SMT DEF Owing
<1>2. CASE SubmitCheck(r)
    <2>1. /\ x.pc = "submitting" /\ UNCHANGED <<status, subs, adjudication, exports>>
          /\ Go(r, [x EXCEPT !.pc = "inserting"]) \/ Go(r, Idle)
        BY <1>2, SMT DEF SubmitCheck, Step, At, answers
    <2>. QED
        BY <2>1, Quiet, SMT DEF Owing
<1>3. CASE SubmitInsert(r)
    <2>1. x.pc = "inserting" /\ UNCHANGED <<status, adjudication, exports>>
        BY <1>3, Zenon DEF SubmitInsert, At
    <2>2. CASE ~Open(x.case, x.user)
        <3>1. Go(r, Idle) /\ subs' = subs
            BY <1>3, <2>2, Zenon DEF SubmitInsert
        <3>. QED
            BY <2>1, <3>1, Quiet, SMT DEF Owing
    <2>3. CASE Open(x.case, x.user)
        <3>. DEFINE y == [x EXCEPT !.pc = "counting"]
        <3>1. /\ Go(r, y)
              /\ subs' = [subs EXCEPT ![x.case] = Append(@, [by |-> x.user, label |-> x.label])]
            BY <1>3, <2>3, Zenon DEF SubmitInsert, Step
        <3>2. y.pc = "counting" /\ y.case = x.case
            BY Zenon DEF Sure, Thread
        <3>. HIDE DEF y
        <3>3. ASSUME NEW c \in Cases PROVE Hand(x, y, c)
            <4>1. ~Counts(x, c) /\ ~Moves(x, c) /\ ~Approves(x, c) /\ ~Marks(x, c)
                BY <2>1, SMT DEF Counts, Moves, Approves, Marks
            <4>2. Exported(c)' <=> Exported(c)
                BY <2>1, Zenon DEF Exported
            <4>3. CASE c # x.case
                <5>1. subs'[c] = subs[c]
                    BY <3>1, <4>3, SMT DEF Sure, Books, Tables
                <5>. QED
                    BY <2>1, <4>1, <4>2, <5>1, Untouched, Zenon
            <4>4. CASE c = x.case
                <5>1. Counts(y, c) /\ Moves(y, c)'
                    BY <3>2, <4>4, SMT DEF Counts, Moves
                <5>. QED
                    BY <2>1, <4>1, <4>2, <5>1, Zenon DEF Hand, Undecided, Unmarked
            <4>. QED
                BY <4>3, <4>4, Zenon
        <3>. QED
            BY <3>1, <3>3, Zenon DEF Hands
    <2>. QED
        BY <2>2, <2>3, Zenon
<1>. QED
    BY <1>1, <1>2, <1>3, Zenon

\* The count is taken along, and the move it asks for is made.
LEMMA SubmitMoveHands ==
    ASSUME Sure, NEW r \in Requests, NEW x, x = thr[r], SubmitCount(r) \/ SubmitMove(r)
    PROVE  Hands(r)
<1>1. x \in Thread /\ Informed(x)
    BY Zenon DEF Sure
<1>2. CASE SubmitCount(r)
    <2>0. PICK outcome : outcome = Outcome(x.case)
        OBVIOUS
    <2>. DEFINE y == [x EXCEPT !.pc = "moving", !.read = outcome]
    <2>1. Go(r, y) /\ x.pc = "counting" /\ UNCHANGED <<status, subs, adjudication, exports>>
        BY <1>2, <2>0, Zenon DEF SubmitCount, At, answers
    <2>2. y.pc = "moving" /\ y.case = x.case /\ y.read = outcome
        BY <1>1, Zenon DEF Thread
    <2>. HIDE DEF y
    <2>3. ASSUME NEW c \in Cases PROVE Hand(x, y, c)
        <3>1. /\ Counts(x, c) => Counts(y, c)
              /\ ~Approves(x, c) /\ ~Marks(x, c)
            BY <2>1, <2>2, SMT DEF Counts, Approves, Marks
        <3>2. Moves(x, c) => Moves(y, c)
            BY <2>0, <2>2, Zenon DEF Moves
        <3>3. Exported(c)' <=> Exported(c)
            BY <2>1, Zenon DEF Exported
        <3>. QED
            BY <2>1, <3>1, <3>2, <3>3, Untouched, Zenon
    <2>. QED
        BY <2>1, <2>3, Zenon DEF Hands
<1>3. CASE SubmitMove(r)
    <2>1. /\ Go(r, Idle) /\ x.pc = "moving" /\ Move(x.case, x.read)
          /\ UNCHANGED <<subs, adjudication, exports>>
        BY <1>3, Zenon DEF SubmitMove, At, answers
    <2>2. x.case \in Cases /\ x.read \in {"in_review", Outcome(x.case)}
        BY <1>1, <2>1, SMT DEF Informed, OnCase
    <2>3. ASSUME NEW c \in Cases PROVE Hand(x, Idle, c)
        <3>1. ~Approves(x, c) /\ ~Marks(x, c)
            BY <2>1, SMT DEF Approves, Marks
        <3>2. Exported(c)' <=> Exported(c)
            BY <2>1, Zenon DEF Exported
        <3>3. CASE c # x.case
            <4>1. status'[c] = status[c] /\ ~Counts(x, c) /\ ~Moves(x, c)
                BY <2>1, <3>3, SMT DEF Sure, Books, Tables, Move, Counts, Moves
            <4>. QED
                BY <2>1, <3>1, <3>2, <4>1, Untouched, Zenon
        <3>4. CASE c = x.case
            <4>1. PICK o, m, was : o = Outcome(c) /\ m = x.read /\ was = status[c]
                OBVIOUS
            <4>2. /\ o \in {"in_review", "approved", "needs_adjudication"} /\ m \in {"in_review", o}
                  /\ was \in Statuses \cup {"absent"}
                BY <2>2, <3>4, <4>1, Outcomes, SMT DEF Sure, Books, Tables
            <4>3. status'[c] = IF was \in MovesFrom(m) THEN m ELSE was
                BY <2>1, <2>2, <3>4, <4>1, SMT DEF Sure, Books, Tables, Move
            <4>4. /\ status'[c] # "ready" \/ was = "absent"
                  /\ status'[c] \in {"ready", "in_review"} /\ o # "in_review" =>
                        was \in {"ready", "in_review"} /\ m # o
                  /\ status'[c] \notin Final => was \notin Final
                  /\ status'[c] = "exported" <=> was = "exported"
                BY <4>2, <4>3, SMT DEF MovesFrom, Final, Statuses, Complete
            <4>5. Exported(c) => was \in Final
                BY <4>1, SMT DEF Sure, Books, DatasetStands, Exported
            <4>6. m # o => ~Moves(x, c)
                BY <2>1, <4>1, SMT DEF Moves
            <4>7. Outcome(c)' = Outcome(c)
                BY <2>1, SameAnswers, Zenon
            <4>8. status'[c] # "ready"
                BY <1>1, <2>1, <3>4, <4>1, <4>2, <4>3, <4>4, SMT DEF Informed, Rows, Sure, Books, MovesFrom
            <4>. QED
                BY <2>1, <3>1, <3>2, <4>1, <4>4, <4>5, <4>6, <4>7, <4>8, Zenon
                    DEF Hand, Uncounted, Unmoved, Undecided, Unmarked
        <3>. QED
            BY <3>3, <3>4, Zenon
    <2>. QED
        BY <2>1, <2>3, Zenon DEF Hands
<1>. QED
    BY <1>2, <1>3, Zenon

\* The request that writes a decision owes the case its approval, and makes it.
LEMMA AdjudicateHands ==
    ASSUME Sure, NEW r \in Requests, NEW x, x = thr[r],
           \/ \E u \in Users, c \in Cases, l \in Labels : AdjudicateRead(r, u, c, l)
           \/ AdjudicateCheck(r) \/ AdjudicateInsert(r) \/ AdjudicateMove(r)
    PROVE  Hands(r)
<1>1. x \in Thread /\ Informed(x)
    BY Zenon DEF Sure
<1>2. CASE \E u \in Users, c \in Cases, l \in Labels : AdjudicateRead(r, u, c, l)
    <2>1. PICK u \in Users, c \in Cases, l \in Labels : AdjudicateRead(r, u, c, l)
        BY <1>2, Zenon
    <2>2. x.pc = "idle" /\ UNCHANGED <<status, subs, adjudication, exports>>
        BY <2>1, Zenon DEF AdjudicateRead, Call, At, answers
    <2>3. \E y : Go(r, y)
        BY <2>1, Zenon DEF AdjudicateRead
    <2>. QED
        BY <2>2, <2>3, Quiet, SMT DEF Owing
<1>3. CASE AdjudicateCheck(r)
    <2>1. /\ x.pc = "adjudicating" /\ UNCHANGED <<status, subs, adjudication, exports>>
          /\ Go(r, [x EXCEPT !.pc = "deciding"]) \/ Go(r, Idle)
        BY <1>3, SMT DEF AdjudicateCheck, Step, At, answers
    <2>. QED
        BY <2>1, Quiet, SMT DEF Owing
<1>4. CASE AdjudicateInsert(r)
    <2>1. x.pc = "deciding" /\ UNCHANGED <<status, subs, exports>>
        BY <1>4, Zenon DEF AdjudicateInsert, At
    <2>2. CASE adjudication[x.case] # NoAnswer
        <3>1. Go(r, Idle) /\ adjudication' = adjudication
            BY <1>4, <2>2, Zenon DEF AdjudicateInsert
        <3>. QED
            BY <2>1, <3>1, Quiet, SMT DEF Owing
    <2>3. CASE adjudication[x.case] = NoAnswer
        <3>. DEFINE y == [x EXCEPT !.pc = "approving"]
        <3>1. /\ Go(r, y)
              /\ adjudication' = [adjudication EXCEPT ![x.case] = [by |-> x.user, label |-> x.label]]
            BY <1>4, <2>3, Zenon DEF AdjudicateInsert, Step
        <3>2. y.pc = "approving" /\ y.case = x.case
            BY <1>1, Zenon DEF Thread
        <3>. HIDE DEF y
        <3>3. ASSUME NEW c \in Cases PROVE Hand(x, y, c)
            <4>1. ~Counts(x, c) /\ ~Moves(x, c) /\ ~Approves(x, c) /\ ~Marks(x, c)
                BY <2>1, SMT DEF Counts, Moves, Approves, Marks
            <4>2. Exported(c)' <=> Exported(c)
                BY <2>1, Zenon DEF Exported
            <4>3. CASE c # x.case
                <5>1. adjudication'[c] = adjudication[c]
                    BY <3>1, <4>3, SMT DEF Sure, Books, Tables
                <5>. QED
                    BY <2>1, <4>1, <4>2, <5>1, Untouched, Zenon
            <4>4. CASE c = x.case
                <5>1. Approves(y, c)
                    BY <3>2, <4>4, SMT DEF Approves
                <5>2. Outcome(c)' = Outcome(c)
                    BY <2>1, SameAnswers, Zenon
                <5>. QED
                    BY <2>1, <4>1, <4>2, <5>1, <5>2, Zenon DEF Hand, Uncounted, Unmoved, Unmarked
            <4>. QED
                BY <4>3, <4>4, Zenon
        <3>. QED
            BY <3>1, <3>3, Zenon DEF Hands
    <2>. QED
        BY <2>2, <2>3, Zenon
<1>5. CASE AdjudicateMove(r)
    <2>1. /\ Go(r, Idle) /\ x.pc = "approving" /\ Move(x.case, "approved")
          /\ UNCHANGED <<subs, adjudication, exports>>
        BY <1>5, Zenon DEF AdjudicateMove, At, answers
    <2>2. x.case \in Cases /\ Outcome(x.case) = "needs_adjudication"
        BY <1>1, <2>1, SMT DEF Informed, OnCase
    <2>3. ASSUME NEW c \in Cases PROVE Hand(x, Idle, c)
        <3>1. ~Counts(x, c) /\ ~Moves(x, c) /\ ~Marks(x, c)
            BY <2>1, SMT DEF Counts, Moves, Marks
        <3>2. Exported(c)' <=> Exported(c)
            BY <2>1, Zenon DEF Exported
        <3>3. CASE c # x.case
            <4>1. status'[c] = status[c] /\ ~Approves(x, c)
                BY <2>1, <3>3, SMT DEF Sure, Books, Tables, Move, Approves
            <4>. QED
                BY <2>1, <3>1, <3>2, <4>1, Untouched, Zenon
        <3>4. CASE c = x.case
            <4>1. PICK was : was = status[c]
                OBVIOUS
            <4>2. was \in Statuses
                <5>1. Rows(c) /\ was \in Statuses \cup {"absent"}
                    BY <4>1, Zenon DEF Sure, Books, Tables
                <5>2. subs[c] # <<>>
                    <6>1. Len(subs[c]) = 2
                        BY <2>2, <3>4, Outcomes, Zenon
                    <6>2. Len(<<>>) # 2
                        BY SMT
                    <6>. QED
                        BY <6>1, <6>2, Zenon
                <5>. QED
                    BY <4>1, <5>1, <5>2, SMT DEF Rows
            <4>3. status'[c] = IF was \in MovesFrom("approved") THEN "approved" ELSE was
                BY <2>1, <2>2, <3>4, <4>1, SMT DEF Sure, Books, Tables, Move
            <4>4. /\ status'[c] \in Final
                  /\ status'[c] = "exported" <=> was = "exported"
                BY <4>2, <4>3, SMT DEF MovesFrom, Final, Statuses, Complete
            <4>. QED
                BY <2>1, <3>1, <3>2, <4>1, <4>4, SMT
                    DEF Hand, Uncounted, Unmoved, Undecided, Unmarked, Final
        <3>. QED
            BY <3>3, <3>4, Zenon
    <2>. QED
        BY <2>1, <2>3, Zenon DEF Hands
<1>. QED
    BY <1>2, <1>3, <1>4, <1>5, Zenon

\* A reader owes nothing.
LEMMA ViewHands ==
    ASSUME Sure, NEW r \in Requests, NEW x, x = thr[r],
           (\E u \in Users, c \in Cases : ViewRead(r, u, c)) \/ ViewAnswer(r)
    PROVE  Hands(r)
<1>1. CASE \E u \in Users, c \in Cases : ViewRead(r, u, c)
    <2>1. PICK u \in Users, c \in Cases : ViewRead(r, u, c)
        BY <1>1, Zenon
    <2>2. x.pc = "idle" /\ UNCHANGED <<status, subs, adjudication, exports>>
        BY <2>1, Zenon DEF ViewRead, Call, At, answers
    <2>3. \E y : Go(r, y)
        BY <2>1, Zenon DEF ViewRead
    <2>. QED
        BY <2>2, <2>3, Quiet, SMT DEF Owing
<1>2. CASE ViewAnswer(r)
    <2>1. x.pc = "viewing" /\ Go(r, Idle) /\ UNCHANGED <<status, subs, adjudication, exports>>
        BY <1>2, Zenon DEF ViewAnswer, At, answers
    <2>. QED
        BY <2>1, Quiet, SMT DEF Owing
<1>. QED
    BY <1>1, <1>2, Zenon

\* The request that writes a dataset owes its cases their marks, and makes them.
LEMMA ExportHands ==
    ASSUME Sure, NEW r \in Requests, NEW x, x = thr[r],
           \/ \E n \in Names, chosen \in SUBSET Cases : ExportRead(r, n, chosen)
           \/ ExportInsert(r) \/ ExportMark(r)
    PROVE  Hands(r)
<1>1. x \in Thread /\ Informed(x) /\ x.todo \in SUBSET Cases
    BY Zenon DEF Sure, Thread
<1>2. CASE \E n \in Names, chosen \in SUBSET Cases : ExportRead(r, n, chosen)
    <2>1. PICK n \in Names, chosen \in SUBSET Cases : ExportRead(r, n, chosen)
        BY <1>2, Zenon
    <2>2. x.pc = "idle" /\ UNCHANGED <<status, subs, adjudication, exports>>
        BY <2>1, Zenon DEF ExportRead, Call, At, answers
    <2>3. \E y : Go(r, y)
        BY <2>1, Zenon DEF ExportRead
    <2>. QED
        BY <2>2, <2>3, Quiet, SMT DEF Owing
<1>3. CASE ExportInsert(r)
    <2>1. x.pc = "building" /\ UNCHANGED <<status, subs, adjudication>>
        BY <1>3, Zenon DEF ExportInsert, At, answers
    <2>2. CASE ~(Sound(x.todo) /\ x.name \notin DOMAIN exports)
        <3>1. Go(r, Idle) /\ exports' = exports
            BY <1>3, <2>2, Zenon DEF ExportInsert
        <3>. QED
            BY <2>1, <3>1, Quiet, SMT DEF Owing
    <2>3. CASE Sound(x.todo) /\ x.name \notin DOMAIN exports
        <3>. DEFINE y == [x EXCEPT !.pc = "marking"]
        <3>1. /\ Go(r, y)
              /\ exports' = [m \in DOMAIN exports \cup {x.name} |->
                               IF m = x.name THEN [c \in x.todo |-> LabelOf(c)] ELSE exports[m]]
            BY <1>3, <2>3, Zenon DEF ExportInsert, Step
        <3>2. y.pc = "marking" /\ y.todo = x.todo
            BY <1>1, Zenon DEF Thread
        <3>. HIDE DEF y
        <3>3. ASSUME NEW c \in Cases PROVE Hand(x, y, c)
            <4>1. ~Counts(x, c) /\ ~Moves(x, c) /\ ~Approves(x, c) /\ ~Marks(x, c)
                BY <2>1, SMT DEF Counts, Moves, Approves, Marks
            <4>2. Exported(c)' <=> Exported(c) \/ c \in x.todo
                <5>1. DOMAIN exports' = DOMAIN exports \cup {x.name} /\ DOMAIN exports'[x.name] = x.todo
                    BY <3>1, SMT
                <5>2. \A m \in DOMAIN exports : m # x.name /\ exports'[m] = exports[m]
                    BY <2>3, <3>1, SMT
                <5>. QED
                    BY <5>1, <5>2, Zenon DEF Exported
            <4>3. Outcome(c)' = Outcome(c)
                BY <2>1, SameAnswers, Zenon
            <4>4. c \in x.todo => Marks(y, c)
                BY <3>2, Zenon DEF Marks
            <4>. QED
                BY <2>1, <4>1, <4>2, <4>3, <4>4, Zenon DEF Hand, Uncounted, Unmoved, Undecided, Unmarked
        <3>. QED
            BY <3>1, <3>3, Zenon DEF Hands
    <2>. QED
        BY <2>2, <2>3, Zenon
<1>4. CASE ExportMark(r)
    <2>1. x.pc = "marking" /\ UNCHANGED <<subs, adjudication, exports>>
        BY <1>4, Zenon DEF ExportMark, At, answers
    <2>2. PICK d \in x.todo : /\ Move(d, "exported")
                              /\ Go(r, IF x.todo = {d} THEN Idle ELSE [x EXCEPT !.todo = @ \ {d}])
        BY <1>4, Zenon DEF ExportMark
    <2>3. PICK y : Go(r, y) /\ \A c \in x.todo \ {d} : Marks(y, c)
        <3>1. CASE x.todo = {d}
            BY <2>2, <3>1, SMT
        <3>2. CASE x.todo # {d}
            <4>. DEFINE y == [x EXCEPT !.todo = @ \ {d}]
            <4>1. Go(r, y)
                BY <2>2, <3>2, Zenon
            <4>2. y.pc = "marking" /\ y.todo = x.todo \ {d}
                BY <1>1, <2>1, Zenon DEF Thread
            <4>. QED
                BY <4>1, <4>2, Zenon DEF Marks
        <3>. QED
            BY <3>1, <3>2, Zenon
    <2>4. Exported(d) /\ status[d] \in Final /\ d \in Cases
        <3>1. x.name \in DOMAIN exports /\ d \in DOMAIN exports[x.name]
            BY <1>1, <2>1, SMT DEF Informed
        <3>. QED
            BY <1>1, <3>1, Zenon DEF Exported, Sure, Books, DatasetStands
    <2>5. \A c \in Cases : status'[c] = IF c = d THEN "exported" ELSE status[c]
        BY <2>2, <2>4, SMT DEF Move, MovesFrom, Final, Sure, Books, Tables
    <2>6. ASSUME NEW c \in Cases PROVE Hand(x, y, c)
        <3>1. ~Counts(x, c) /\ ~Moves(x, c) /\ ~Approves(x, c)
            BY <2>1, SMT DEF Counts, Moves, Approves
        <3>2. Exported(c)' <=> Exported(c)
            BY <2>1, Zenon DEF Exported
        <3>3. CASE c # d
            <4>1. status'[c] = status[c] /\ (Marks(x, c) => Marks(y, c))
                BY <2>3, <2>5, <3>3, SMT DEF Sure, Books, Tables, Marks
            <4>. QED
                BY <2>1, <3>1, <3>2, <4>1, Untouched, Zenon
        <3>4. CASE c = d
            <4>1. status'[c] = "exported"
                BY <2>5, <3>4, SMT DEF Sure, Books, Tables
            <4>. QED
                BY <2>4, <3>2, <3>4, <4>1, SMT DEF Hand, Uncounted, Unmoved, Undecided, Unmarked, Final
        <3>. QED
            BY <3>3, <3>4, Zenon
    <2>. QED
        BY <2>3, <2>6, Zenon DEF Hands
<1>. QED
    BY <1>2, <1>3, <1>4, Zenon

\* A request that fails breaks the cases it owed.
LEMMA FailureDue ==
    ASSUME Sure, Settling, NEW r \in Requests, CallFails(r), NEW c \in Cases, c \notin broken'
    PROVE  Due(c)'
<1>1. /\ Go(r, Idle) /\ UNCHANGED <<status, subs, adjudication, exports>>
      /\ c \notin broken /\ ~(Half(r) /\ (c = thr[r].case \/ c \in thr[r].todo))
    BY Zenon DEF CallFails, Hit, answers
<1>2. ~Counts(thr[r], c) /\ ~Moves(thr[r], c) /\ ~Approves(thr[r], c) /\ ~Marks(thr[r], c)
    BY <1>1, SMT DEF Half, At, Counts, Moves, Approves, Marks
<1>3. Exported(c)' <=> Exported(c)
    BY <1>1, Zenon DEF Exported
<1>4. Hand(thr[r], Idle, c)
    BY <1>1, <1>2, <1>3, Untouched, Zenon
<1>. QED
    BY <1>1, <1>4, Handover, Zenon DEF Settling

\* With the process all requests end: a case that none of them has left broken
\* is owed nothing.
LEMMA CrashDue ==
    ASSUME Sure, Settling, Crash, NEW c \in Cases, c \notin broken'
    PROVE  Due(c)'
<1>1. /\ UNCHANGED <<status, subs, adjudication, exports>> /\ c \notin broken
      /\ \A r \in Requests : ~(Half(r) /\ (c = thr[r].case \/ c \in thr[r].todo))
    BY Zenon DEF Crash, Hit, answers
<1>2. \A r \in Requests :
          ~Counts(thr[r], c) /\ ~Moves(thr[r], c) /\ ~Approves(thr[r], c) /\ ~Marks(thr[r], c)
    BY <1>1, SMT DEF Half, At, Counts, Moves, Approves, Marks
<1>3. ~Uncounted(c) /\ ~Unmoved(c) /\ ~Undecided(c) /\ ~Unmarked(c)
    BY <1>1, <1>2, Zenon DEF Settling, Due
<1>4. Outcome(c)' = Outcome(c) /\ (Exported(c)' <=> Exported(c))
    BY <1>1, SameAnswers, Zenon DEF Exported
<1>. QED
    BY <1>1, <1>3, <1>4, Zenon DEF Due, Uncounted, Unmoved, Undecided, Unmarked

\* No request but one that fails leaves a case broken.
LEMMA NotBroken ==
    ASSUME NEW r \in Requests, RequestStep(r), ~CallFails(r)
    PROVE  broken' = broken
<1>1. ASSUME NEW c \in Cases, ImportLookup(r, c) PROVE broken' = broken
    BY <1>1, Zenon DEF ImportLookup, history
<1>2. ASSUME ImportInsert(r) \/ SubmitCheck(r) \/ SubmitInsert(r) PROVE broken' = broken
    BY <1>2, Zenon DEF ImportInsert, SubmitCheck, SubmitInsert, history
<1>3. ASSUME NEW u \in Users, NEW c \in Cases, NEW l \in Labels, SubmitRead(r, u, c, l) PROVE broken' = broken
    BY <1>3, Zenon DEF SubmitRead, history
<1>4. ASSUME SubmitCount(r) \/ SubmitMove(r) \/ AdjudicateCheck(r) PROVE broken' = broken
    BY <1>4, Zenon DEF SubmitCount, SubmitMove, AdjudicateCheck, history
<1>5. ASSUME NEW u \in Users, NEW c \in Cases, NEW l \in Labels, AdjudicateRead(r, u, c, l) PROVE broken' = broken
    BY <1>5, Zenon DEF AdjudicateRead, history
<1>6. ASSUME AdjudicateInsert(r) \/ AdjudicateMove(r) \/ ViewAnswer(r) PROVE broken' = broken
    BY <1>6, Zenon DEF AdjudicateInsert, AdjudicateMove, ViewAnswer, history
<1>7. ASSUME NEW u \in Users, NEW c \in Cases, ViewRead(r, u, c) PROVE broken' = broken
    BY <1>7, Zenon DEF ViewRead, history
<1>8. ASSUME NEW n \in Names, NEW chosen \in SUBSET Cases, ExportRead(r, n, chosen) PROVE broken' = broken
    BY <1>8, Zenon DEF ExportRead, history
<1>9. ASSUME ExportInsert(r) \/ ExportMark(r) PROVE broken' = broken
    BY <1>9, Zenon DEF ExportInsert, ExportMark, history
<1>. QED
    BY <1>1, <1>2, <1>3, <1>4, <1>5, <1>6, <1>7, <1>8, <1>9, Zenon DEF RequestStep

\* Every step of a request that does not fail hands on what it owes.
LEMMA AllHand ==
    ASSUME Sure, NEW r \in Requests, RequestStep(r), ~CallFails(r)
    PROVE  Hands(r)
<1>1. PICK x : x = thr[r]
    OBVIOUS
<1>. QED
    BY <1>1, ImportHands, SubmitHands, SubmitMoveHands, AdjudicateHands, ViewHands, ExportHands, Zenon
        DEF RequestStep

\* What a case is owed is owed until it is written or lost to a mishap.
LEMMA NextSettling == Sure /\ Settling /\ [Next]_vars => Settling'
<1>. SUFFICES ASSUME Sure, Settling, [Next]_vars PROVE Settling'
    OBVIOUS
<1>1. ASSUME NEW r \in Requests, RequestStep(r), ~CallFails(r) PROVE Settling'
    <2>1. PICK y : Go(r, y) /\ \A c \in Cases : Hand(thr[r], y, c)
        BY <1>1, AllHand, Zenon DEF Hands
    <2>2. broken' = broken
        BY <1>1, NotBroken, Zenon
    <2>3. \A c \in Cases \ broken' : Due(c)'
        BY <2>1, <2>2, Handover, Zenon DEF Settling
    <2>4. \A c \in Cases : status'[c] = "exported" => Exported(c)'
        BY <2>1, Zenon DEF Settling, Hand
    <2>. QED
        BY <2>3, <2>4, Zenon DEF Settling
<1>2. ASSUME NEW r \in Requests, CallFails(r) PROVE Settling'
    <2>1. \A c \in Cases : status'[c] = "exported" => Exported(c)'
        BY <1>2, Zenon DEF Settling, CallFails, Exported
    <2>. QED
        BY <1>2, <2>1, FailureDue, Zenon DEF Settling
<1>3. CASE Crash
    <2>1. \A c \in Cases : status'[c] = "exported" => Exported(c)'
        BY <1>3, Zenon DEF Settling, Crash, Exported
    <2>. QED
        BY <1>3, <2>1, CrashDue, Zenon DEF Settling
<1>4. CASE UNCHANGED vars
    <2>1. UNCHANGED <<status, subs, adjudication, exports, thr, broken>>
        BY <1>4, Zenon DEF vars
    <2>2. ASSUME NEW c \in Cases, Due(c) PROVE Due(c)'
        <3>1. Outcome(c)' = Outcome(c)
            BY <2>1, SameAnswers, Zenon
        <3>2. /\ Uncounted(c)' <=> Uncounted(c)
              /\ Unmoved(c)' <=> Unmoved(c)
              /\ Undecided(c)' <=> Undecided(c)
              /\ Unmarked(c)' <=> Unmarked(c)
            BY <2>1, <3>1, Zenon DEF Uncounted, Unmoved, Undecided, Unmarked, Exported
        <3>3. \A r \in Requests :
                  /\ Counts(thr[r], c)' <=> Counts(thr[r], c)
                  /\ Moves(thr[r], c)' <=> Moves(thr[r], c)
                  /\ Approves(thr[r], c)' <=> Approves(thr[r], c)
                  /\ Marks(thr[r], c)' <=> Marks(thr[r], c)
            BY <2>1, <3>1, Zenon DEF Counts, Moves, Approves, Marks
        <3>. QED
            BY <2>2, <3>2, <3>3, Zenon DEF Due
    <2>3. \A c \in Cases \ broken' : Due(c)'
        BY <2>1, <2>2, Zenon DEF Settling
    <2>. QED
        BY <2>1, <2>3, Zenon DEF Settling, Exported
<1>. QED
    BY <1>1, <1>2, <1>3, <1>4, Zenon DEF Next, RequestStep

\* Nothing is owed to a case that is not there yet, or that an earlier process
\* has left.
LEMMA InitSettling == Init => Settling
<1>. SUFFICES ASSUME Init PROVE Settling
    OBVIOUS
<1>1. \A c \in Cases : ~Exported(c)
    BY SMT DEF Init, Exported
<1>2. ASSUME NEW c \in Cases PROVE status[c] # "exported" /\ Due(c)
    <2>1. /\ adjudication[c] = NoAnswer
          /\ \/ status[c] = "absent"
             \/ status[c] = "ready" /\ subs[c] = <<>>
             \/ status[c] = Outcome(c) /\ subs[c] # <<>>
        BY InitRows, Zenon
    <2>2. subs[c] = <<>> => Outcome(c) = "in_review"
        <3>1. Len(<<>>) # 2
            BY SMT
        <3>. QED
            BY <3>1, Outcomes, Zenon
    <2>3. Outcome(c) \in {"in_review", "approved", "needs_adjudication"}
        BY Outcomes, Zenon
    <2>4. ~Uncounted(c) /\ ~Undecided(c) /\ ~Unmarked(c)
        BY <2>1, <2>3, <1>1, SMT DEF Uncounted, Undecided, Unmarked
    <2>5. ~Unmoved(c)
        <3>1. CASE status[c] = Outcome(c)
            <4>1. ASSUME NEW o, o \in {"ready", "in_review"}, o \in {"in_review", "approved", "needs_adjudication"}
                  PROVE  o = "in_review"
                BY <4>1, SMT
            <4>. QED
                BY <2>3, <3>1, <4>1, Zenon DEF Unmoved
        <3>2. CASE status[c] = "absent"
            <4>1. "absent" \notin {"ready", "in_review"}
                BY SMT
            <4>. QED
                BY <3>2, <4>1, Zenon DEF Unmoved
        <3>. QED
            BY <2>1, <2>2, <3>1, <3>2, Zenon DEF Unmoved
    <2>6. status[c] # "exported"
        BY <2>1, <2>3, SMT
    <2>. QED
        BY <2>4, <2>5, <2>6, Zenon DEF Due
<1>. QED
    BY <1>1, <1>2, Zenon DEF Settling

\* Where nothing is owed, the rows decide.
LEMMA SettlingSettled == Sure /\ Settling => Settled
<1>. SUFFICES ASSUME Sure, Settling, NEW c \in Cases, ~Working(c), c \notin broken, status[c] # "absent"
              PROVE  status[c] \in
                CASE subs[c] = <<>> -> {"ready"}
                  [] Outcome(c) = "in_review" /\ subs[c] # <<>> -> {"in_review"}
                  [] Outcome(c) = "needs_adjudication" /\ adjudication[c] = NoAnswer -> {"needs_adjudication"}
                  [] Outcome(c) = "approved" \/ adjudication[c] # NoAnswer ->
                        IF \E n \in DOMAIN exports : c \in DOMAIN exports[n] THEN {"exported"} ELSE {"approved"}
    BY Zenon DEF Settled
<1>1. ~Uncounted(c) /\ ~Unmoved(c) /\ ~Undecided(c) /\ ~Unmarked(c)
    <2>1. \A r \in Requests :
              ~Counts(thr[r], c) /\ ~Moves(thr[r], c) /\ ~Approves(thr[r], c) /\ ~Marks(thr[r], c)
        BY Zenon DEF Working, Counts, Moves, Approves, Marks
    <2>. QED
        BY <2>1, Zenon DEF Settling, Due
<1>2. Rows(c) /\ status[c] \in Statuses
    BY SMT DEF Sure, Books, Tables
<1>3. status[c] = "exported" => Exported(c)
    BY Zenon DEF Settling
<1>. DEFINE s == status[c]
            o == Outcome(c)
<1>4. o \in {"in_review", "approved", "needs_adjudication"}
    BY Outcomes, Zenon
<1>5. CASE subs[c] = <<>>
    <2>1. o = "in_review"
        BY <1>5, Outcomes, SMT
    <2>2. s = "ready"
        BY <1>2, <1>5, <2>1, SMT DEF Rows, Statuses, Complete, Final
    <2>3. adjudication[c] = NoAnswer
        BY <1>2, <2>1, Zenon DEF Rows
    <2>. QED
        BY <1>5, <2>1, <2>2, <2>3, SMT
<1>6. CASE subs[c] # <<>> /\ o = "in_review"
    <2>1. s = "in_review"
        BY <1>1, <1>2, <1>6, SMT DEF Rows, Statuses, Complete, Final, Uncounted
    <2>2. adjudication[c] = NoAnswer
        BY <1>2, <1>6, Zenon DEF Rows
    <2>. QED
        BY <1>6, <2>1, <2>2, SMT
<1>7. CASE subs[c] # <<>> /\ o = "needs_adjudication" /\ adjudication[c] = NoAnswer
    <2>1. s = "needs_adjudication"
        BY <1>1, <1>2, <1>7, SMT DEF Rows, Statuses, Complete, Final, Unmoved
    <2>. QED
        BY <1>7, <2>1, SMT
<1>8. CASE subs[c] # <<>> /\ o # "in_review" /\ (o = "approved" \/ adjudication[c] # NoAnswer)
    <2>1. s \in Final
        BY <1>1, <1>2, <1>4, <1>8, SMT DEF Rows, Statuses, Complete, Final, Unmoved, Undecided
    <2>2. s = "exported" <=> Exported(c)
        BY <1>1, <1>3, Zenon DEF Unmarked
    <2>3. s \in IF Exported(c) THEN {"exported"} ELSE {"approved"}
        BY <2>1, <2>2, SMT DEF Final
    <2>. HIDE DEF s, o
    <2>. QED
        BY <1>8, <2>3, SMT DEF Exported, s, o
<1>. QED
    BY <1>4, <1>5, <1>6, <1>7, <1>8, Zenon

\* Submissions, decisions and exports write in two transactions each, and yet a
\* case that no mishap hit ends where its rows put it.
THEOREM CasesSettle == Spec => []Settled
BY InitSure, NextSure, InitSettling, NextSettling, SettlingSettled, PTL DEF Spec

=============================================================================
