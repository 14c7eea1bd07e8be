------------------------ MODULE ReviewHarness_proofs ------------------------
(***************************************************************************)
(* What the harness promises for any number of tasks, runners, runs,       *)
(* retries and upsets.  Types hold always, and the stages are recorded in  *)
(* order whenever writes are reliable, whatever runs overlap.  Completed   *)
(* nodes, the trace and final states are safe when the runs of a task      *)
(* follow one another, whatever writes fail and whoever dies.              *)
(***************************************************************************)
EXTENDS ReviewHarness, TLAPS

-----------------------------------------------------------------------------
(* Types. *)

Event == [step : Nat, state : States]
Context == [phase : Phases, task : Tasks \cup {NoTask}, ctx : States \ Final, seen : SUBSET Nodes,
            node : 0 .. 4, offset : Nat, steps : 0 .. MaxSteps, step : Nat]

\* The largest step of a trace exists.
Topped ==
    \A t \in Tasks : \E n \in {0} \cup {trace[t][i].step : i \in DOMAIN trace[t]} :
        \A i \in DOMAIN trace[t] : trace[t][i].step <= n

\* A run that is under way has a task, a node that is executed is one of the
\* three, and it is executed in its own state.
Place(x) == x.phase \notin Ended =>
    /\ x.task \in Tasks
    /\ x.phase \in {"handler", "body", "save", "redo", "cancel"} => x.node \in Nodes
    /\ x.phase = "node" => x.node \in 1 .. 4
    /\ x.phase \in {"body", "save"} => x.ctx = Stages[x.node]
Placed == \A r \in Runners : Place(run[r])

Typed == TypeOK /\ Topped /\ Placed

\* The fields of a run, one or two of which a step changes.
LEMMA Fields ==
    ASSUME NEW x \in Context
    PROVE  /\ \A p \in Phases :
                /\ [x EXCEPT !.phase = p] \in Context
                /\ [x EXCEPT !.phase = p, !.step = @ + 1] \in Context
                /\ \A s \in States \ Final :
                      /\ [x EXCEPT !.phase = p, !.ctx = s] \in Context
                      /\ [x EXCEPT !.phase = p, !.ctx = s, !.step = @ + 1] \in Context
                /\ \A d \in SUBSET Nodes, k \in 0 .. 4 :
                      [x EXCEPT !.phase = p, !.seen = d, !.node = k, !.offset = 1] \in Context
                /\ \A k \in 0 .. 4 : [x EXCEPT !.phase = p, !.offset = 1, !.node = k] \in Context
                /\ [x EXCEPT !.phase = p, !.offset = @ + 1] \in Context
                /\ x.steps < MaxSteps => [x EXCEPT !.phase = p, !.steps = @ + 1] \in Context
  <1>0. x.step + 1 \in Nat /\ x.offset + 1 \in Nat  BY DEF Context
  <1>1. ASSUME NEW p \in Phases
        PROVE  /\ [x EXCEPT !.phase = p] \in Context
               /\ [x EXCEPT !.phase = p, !.step = @ + 1] \in Context
               /\ [x EXCEPT !.phase = p, !.offset = @ + 1] \in Context
    <2>1. [x EXCEPT !.phase = p] \in Context  BY DEF Context
    <2>2. [x EXCEPT !.phase = p, !.step = x.step + 1] \in Context  BY <1>0 DEF Context
    <2>3. [x EXCEPT !.phase = p, !.offset = x.offset + 1] \in Context  BY <1>0 DEF Context
    <2>. QED  BY <2>1, <2>2, <2>3
  <1>2. ASSUME NEW p \in Phases, NEW s \in States \ Final
        PROVE  /\ [x EXCEPT !.phase = p, !.ctx = s] \in Context
               /\ [x EXCEPT !.phase = p, !.ctx = s, !.step = @ + 1] \in Context
    <2>1. [x EXCEPT !.phase = p, !.ctx = s] \in Context  BY DEF Context
    <2>2. [x EXCEPT !.phase = p, !.ctx = s, !.step = x.step + 1] \in Context  BY <1>0 DEF Context
    <2>. QED  BY <2>1, <2>2
  <1>3. ASSUME NEW p \in Phases, NEW k \in 0 .. 4
        PROVE  /\ [x EXCEPT !.phase = p, !.offset = 1, !.node = k] \in Context
               /\ \A d \in SUBSET Nodes :
                     [x EXCEPT !.phase = p, !.seen = d, !.node = k, !.offset = 1] \in Context
    BY DEF Context
  <1>4. ASSUME NEW p \in Phases, x.steps < MaxSteps
        PROVE  [x EXCEPT !.phase = p, !.steps = @ + 1] \in Context
    <2>1. x.steps + 1 \in 0 .. MaxSteps  BY <1>4, HarnessAssumption DEF Context
    <2>. QED  BY <2>1 DEF Context
  <1>. QED  BY <1>1, <1>2, <1>3, <1>4

\* What run[r] is made of when a run begins or its process dies.
LEMMA NewRun ==
    /\ Idle \in Context
    /\ \A t \in Tasks, n \in Nat :
          /\ [Idle EXCEPT !.phase = "returned", !.task = t] \in Context
          /\ [Idle EXCEPT !.phase = "begun", !.task = t, !.step = n] \in Context
  <1>1. Idle \in Context
    BY HarnessAssumption DEF Idle, Context, Phases, States, Final
  <1>2. ASSUME NEW t \in Tasks, NEW n \in Nat
        PROVE  /\ [Idle EXCEPT !.phase = "returned", !.task = t] \in Context
               /\ [Idle EXCEPT !.phase = "begun", !.task = t, !.step = n] \in Context
    BY <1>1 DEF Context, Phases
  <1>. QED  BY <1>1, <1>2

\* The next node that is not checkpointed, 4 when there is none.
LEMMA NextNodeFacts ==
    ASSUME NEW seen \in SUBSET Nodes, NEW k \in 0 .. 3
    PROVE  /\ NextNode(seen, k) \in k + 1 .. 4
           /\ NextNode(seen, k) \notin seen
           /\ k + 1 .. NextNode(seen, k) - 1 \subseteq seen
  <1>1. \E n \in k + 1 .. 4 : n \notin seen /\ k + 1 .. n - 1 \subseteq seen
    <2>1. CASE k + 1 \notin seen
      <3>1. k + 1 \in k + 1 .. 4 /\ k + 1 .. (k + 1) - 1 = {}  OBVIOUS
      <3>. QED  BY <2>1, <3>1
    <2>2. CASE k + 1 \in seen /\ k + 2 \notin seen
      <3>1. k + 2 \in k + 1 .. 4 /\ k + 1 .. (k + 2) - 1 = {k + 1}  BY <2>2 DEF Nodes
      <3>. QED  BY <2>2, <3>1
    <2>3. CASE k + 1 \in seen /\ k + 2 \in seen /\ k + 3 \notin seen
      <3>1. k + 3 \in k + 1 .. 4 /\ k + 1 .. (k + 3) - 1 = {k + 1, k + 2}  BY <2>3 DEF Nodes
      <3>. QED  BY <2>3, <3>1
    <2>4. CASE k + 1 \in seen /\ k + 2 \in seen /\ k + 3 \in seen
      <3>1. k = 0 /\ 4 \notin seen /\ k + 1 .. 4 - 1 = {k + 1, k + 2, k + 3}  BY <2>4 DEF Nodes
      <3>. QED  BY <2>4, <3>1
    <2>. QED  BY <2>1, <2>2, <2>3, <2>4
  <1>. QED  BY <1>1 DEF NextNode

\* _ctx.step starts at no less than any step recorded.
LEMMA LastStepFacts ==
    ASSUME TypeOK, Topped, NEW t \in Tasks
    PROVE  /\ LastStep(t) \in Nat
           /\ \A i \in DOMAIN trace[t] : trace[t][i].step <= LastStep(t)
  <1>1. \A i \in DOMAIN trace[t] : trace[t][i].step \in Nat
    <2>1. trace[t] \in Seq(Event)  BY DEF TypeOK, Event
    <2>2. \A i \in DOMAIN trace[t] : trace[t][i] \in Event  BY <2>1
    <2>. QED  BY <2>2 DEF Event
  <1>2. /\ LastStep(t) \in {0} \cup {trace[t][i].step : i \in DOMAIN trace[t]}
        /\ \A i \in DOMAIN trace[t] : trace[t][i].step <= LastStep(t)
    BY DEF LastStep, Topped
  <1>. QED  BY <1>1, <1>2

\* What a write of state and event does.
LEMMA Recorded ==
    ASSUME TypeOK, NEW t \in Tasks, NEW n \in Nat, NEW s \in States, Record(t, n, s)
    PROVE  /\ state' \in [Tasks -> States] /\ trace' \in [Tasks -> Seq(Event)]
           /\ state'[t] = s
           /\ \A u \in Tasks \ {t} : state'[u] = state[u] /\ trace'[u] = trace[u]
           /\ DOMAIN trace'[t] = DOMAIN trace[t] \cup {Len(trace[t]) + 1}
           /\ DOMAIN trace[t] = 1 .. Len(trace[t]) /\ Len(trace[t]) \in Nat
           /\ Len(trace'[t]) = Len(trace[t]) + 1
           /\ \A i \in DOMAIN trace[t] : trace'[t][i] = trace[t][i]
           /\ trace'[t][Len(trace[t]) + 1] = [step |-> n, state |-> s]
  <1>1. state \in [Tasks -> States] /\ trace \in [Tasks -> Seq(Event)]  BY DEF TypeOK, Event
  <1>2. trace[t] \in Seq(Event) /\ [step |-> n, state |-> s] \in Event  BY <1>1 DEF Event
  <1>. DEFINE e == [step |-> n, state |-> s]
  <1>. HIDE DEF e
  <1>3. e \in Event /\ trace[t] \in Seq(Event)  BY <1>2 DEF e
  <1>4. Append(trace[t], e) \in Seq(Event)  BY <1>3
  <1>5. state' = [state EXCEPT ![t] = s] /\ trace' = [trace EXCEPT ![t] = Append(@, e)]
    BY DEF Record, e
  <1>6. trace'[t] = Append(trace[t], e) /\ \A u \in Tasks \ {t} : trace'[u] = trace[u]
    BY <1>1, <1>5
  <1>7. state' \in [Tasks -> States] /\ trace' \in [Tasks -> Seq(Event)]  BY <1>1, <1>4, <1>5
  <1>8. state'[t] = s /\ \A u \in Tasks \ {t} : state'[u] = state[u]  BY <1>1, <1>5
  <1>9. /\ DOMAIN trace'[t] = DOMAIN trace[t] \cup {Len(trace[t]) + 1}
        /\ DOMAIN trace[t] = 1 .. Len(trace[t]) /\ Len(trace[t]) \in Nat
        /\ Len(trace'[t]) = Len(trace[t]) + 1
        /\ \A i \in DOMAIN trace[t] : trace'[t][i] = trace[t][i]
        /\ trace'[t][Len(trace[t]) + 1] = e
    BY <1>3, <1>6
  <1>. QED  BY <1>6, <1>7, <1>8, <1>9 DEF e

\* A run's step changes its own variables and no other run's.
LEMMA Moved ==
    ASSUME TypeOK, NEW r \in Runners, NEW y \in Context, Local(r, y)
    PROVE  /\ run' \in [Runners -> Context]
           /\ run'[r] = y
           /\ \A q \in Runners \ {r} : run'[q] = run[q]
    BY DEF TypeOK, Context, Local

\* A step that writes no state and no event.
LEMMA QuietTyped ==
    ASSUME Typed, NEW r \in Runners, NEW y \in Context, Place(y), Local(r, y),
           UNCHANGED <<state, report, trace, cancelled>>,
           ckpt' \in [Tasks -> [Nodes -> {"none", "failed", "completed"}]],
           cases' \subseteq Tasks, upsets' \in Nat, runs' \in Nat
    PROVE  Typed'
  <1>1. run' \in [Runners -> Context] /\ Placed'
    BY Moved DEF Typed, Placed, Place
  <1>2. TypeOK'  BY <1>1 DEF Typed, TypeOK, Context
  <1>3. Topped'  BY DEF Typed, Topped
  <1>. QED  BY <1>1, <1>2, <1>3 DEF Typed

\* A step that writes a state with the event of a step's number.
LEMMA WroteTyped ==
    ASSUME Typed, NEW r \in Runners, NEW y \in Context, Place(y), Local(r, y),
           NEW t \in Tasks, NEW n \in Nat, NEW s \in States, Record(t, n, s),
           report' \subseteq Tasks, UNCHANGED <<cancelled, ckpt, cases, upsets>>, runs' \in Nat
    PROVE  Typed'
  <1>0. /\ \A u \in Tasks \ {t} : state'[u] = state[u] /\ trace'[u] = trace[u]
        /\ DOMAIN trace'[t] = DOMAIN trace[t] \cup {Len(trace[t]) + 1}
        /\ \A i \in DOMAIN trace[t] : trace'[t][i] = trace[t][i]
        /\ trace'[t][Len(trace[t]) + 1] = [step |-> n, state |-> s]
    BY Recorded DEF Typed
  <1>1. run' \in [Runners -> Context] /\ Placed'
    BY Moved DEF Typed, Placed, Place
  <1>2. TypeOK'  BY <1>1, Recorded DEF Typed, TypeOK, Context, Event
  <1>3. Topped'
    <2>. SUFFICES ASSUME NEW u \in Tasks
                  PROVE  \E m \in {0} \cup {trace'[u][i].step : i \in DOMAIN trace'[u]} :
                            \A i \in DOMAIN trace'[u] : trace'[u][i].step <= m
      BY DEF Topped
    <2>1. CASE u # t
      <3>1. trace'[u] = trace[u]  BY <1>0, <2>1
      <3>. QED  BY <3>1 DEF Typed, Topped
    <2>2. CASE u = t
      <3>1. PICK m \in {0} \cup {trace[t][i].step : i \in DOMAIN trace[t]} :
               \A i \in DOMAIN trace[t] : trace[t][i].step <= m
        BY DEF Typed, Topped
      <3>2. m \in Nat /\ \A i \in DOMAIN trace[t] : trace[t][i].step \in Nat
        <4>1. trace[t] \in Seq(Event)  BY DEF Typed, TypeOK, Event
        <4>2. \A i \in DOMAIN trace[t] : trace[t][i] \in Event  BY <4>1
        <4>. QED  BY <3>1, <4>2 DEF Event
      <3>. DEFINE k == Len(trace[t]) + 1
      <3>3. /\ DOMAIN trace'[t] = DOMAIN trace[t] \cup {k}
            /\ \A i \in DOMAIN trace[t] : trace'[t][i] = trace[t][i]
            /\ trace'[t][k].step = n
        BY <1>0
      <3>. HIDE DEF k
      <3>4. CASE m <= n
        <4>1. n \in {0} \cup {trace'[t][i].step : i \in DOMAIN trace'[t]}  BY <3>3
        <4>2. \A i \in DOMAIN trace'[t] : trace'[t][i].step <= n  BY <3>1, <3>2, <3>3, <3>4
        <4>. QED  BY <2>2, <4>1, <4>2
      <3>5. CASE n < m
        <4>1. m \in {0} \cup {trace'[t][i].step : i \in DOMAIN trace'[t]}  BY <3>1, <3>3
        <4>2. \A i \in DOMAIN trace'[t] : trace'[t][i].step <= m  BY <3>1, <3>2, <3>3, <3>5
        <4>. QED  BY <2>2, <4>1, <4>2
      <3>. QED  BY <3>2, <3>4, <3>5
    <2>. QED  BY <2>1, <2>2
  <1>. QED  BY <1>1, <1>2, <1>3 DEF Typed

\* Every step of a run keeps the types.
LEMMA AdvanceTyped ==
    ASSUME Typed, NEW r \in Runners, Advance(r) \/ Die(r), UNCHANGED runs
    PROVE  Typed'
  <1>. DEFINE x == run[r]
  <1>0. /\ x \in Context /\ Place(x) /\ upsets \in Nat /\ runs' \in Nat /\ cases \subseteq Tasks
        /\ ckpt \in [Tasks -> [Nodes -> {"none", "failed", "completed"}]]
        /\ report \subseteq Tasks
    BY DEF Typed, TypeOK, Placed, Context
  <1>. DEFINE Quiet == /\ UNCHANGED <<state, report, trace, cancelled>>
                       /\ ckpt' \in [Tasks -> [Nodes -> {"none", "failed", "completed"}]]
                       /\ cases' \subseteq Tasks /\ upsets' \in Nat
  <1>1. ASSUME NEW y \in Context, Place(y), Local(r, y), Quiet PROVE Typed'
    BY <1>0, <1>1, QuietTyped
  <1>. HIDE DEF Quiet
  <1>2. ASSUME NEW p \in Phases, WriteFails(r, p), Place([x EXCEPT !.phase = p]) PROVE Typed'
    <2>1. [x EXCEPT !.phase = p] \in Context  BY <1>0, Fields
    <2>2. Local(r, [x EXCEPT !.phase = p]) /\ Quiet
      BY <1>0, <1>2 DEF WriteFails, Upset, store, Quiet
    <2>. QED  BY <1>1, <1>2, <2>1, <2>2
  <1>32. ASSUME NEW p \in Phases, ReadFails(r, p), Place([x EXCEPT !.phase = p]) PROVE Typed'
    <2>1. [x EXCEPT !.phase = p] \in Context  BY <1>0, Fields
    <2>2. Local(r, [x EXCEPT !.phase = p]) /\ Quiet
      BY <1>0, <1>32 DEF ReadFails, Upset, store, Quiet
    <2>. QED  BY <1>1, <1>32, <2>1, <2>2
  <1>3. ASSUME NEW p \in Phases, EventFails(r, p), Place([x EXCEPT !.phase = p, !.step = @ + 1]) PROVE Typed'
    <2>1. [x EXCEPT !.phase = p, !.step = @ + 1] \in Context  BY <1>0, Fields
    <2>2. Local(r, [x EXCEPT !.phase = p, !.step = @ + 1]) /\ Quiet
      BY <1>0, <1>3 DEF EventFails, Upset, store, Quiet
    <2>. QED  BY <1>1, <1>3, <2>1, <2>2
  <1>4. ASSUME NEW p \in Phases, NEW s \in States, x.phase \notin Ended,
               Local(r, [x EXCEPT !.phase = p, !.step = @ + 1]), Place([x EXCEPT !.phase = p, !.step = @ + 1]),
               Record(x.task, x.step + 1, s), report' \subseteq Tasks, UNCHANGED <<cancelled, ckpt, cases, upsets>>
        PROVE  Typed'
    <2>1. [x EXCEPT !.phase = p, !.step = @ + 1] \in Context  BY <1>0, Fields
    <2>2. x.task \in Tasks /\ x.step + 1 \in Nat  BY <1>0, <1>4 DEF Place, Context
    <2>. QED  BY <1>0, <1>4, <2>1, <2>2, WroteTyped
  <1>5. ASSUME NEW k \in Nodes, NEW status \in {"failed", "completed"}, SaveCheckpoint(x.task, k, status)
        PROVE  ckpt' \in [Tasks -> [Nodes -> {"none", "failed", "completed"}]]
    BY <1>0, <1>5 DEF SaveCheckpoint
  <1>30. CASE LoadContext(r) /\ ReadFails(r, "raised")
    <2>1. Place([x EXCEPT !.phase = "raised"])  BY <1>0, <1>30 DEF LoadContext, At, Place, Context, Ended
    <2>. QED  BY <1>30, <1>32, <2>1 DEF Phases
  <1>6. CASE LoadContext(r) /\ ~ReadFails(r, "raised")
    <2>1. PICK c \in States \ Final : Local(r, [x EXCEPT !.phase = "context", !.ctx = c])
      <3>. DEFINE done == Completed(x.task)
                  c == CASE 3 \in done               -> "REVIEWING"
                         [] 2 \in done /\ 3 \notin done -> "EXECUTING"
                         [] done = {1}               -> "PLANNING"
                         [] done = {}                -> "PENDING"
      <3>1. done \in SUBSET {1, 2, 3}  BY DEF Completed, Nodes
      <3>2. c \in {"PENDING", "PLANNING", "EXECUTING", "REVIEWING"}
        <4>1. 3 \in done \/ (2 \in done /\ 3 \notin done) \/ done = {1} \/ done = {}  BY <3>1
        <4>. HIDE DEF done
        <4>. QED  BY <4>1
      <3>3. c \in States \ Final  BY <3>2 DEF States, Final
      <3>4. Local(r, [x EXCEPT !.phase = "context", !.ctx = c])  BY <1>6 DEF LoadContext
      <3>. QED  BY <3>3, <3>4
    <2>2. [x EXCEPT !.phase = "context", !.ctx = c] \in Context  BY <1>0, Fields DEF Phases
    <2>3. Place([x EXCEPT !.phase = "context", !.ctx = c])
      BY <1>0, <1>6 DEF LoadContext, At, Place, Context, Ended
    <2>4. Quiet  BY <1>0, <1>6 DEF LoadContext, store, Quiet
    <2>. QED  BY <1>1, <2>1, <2>2, <2>3, <2>4
  <1>31. CASE LoadCheckpoints(r) /\ ReadFails(r, "unread")
    <2>1. Place([x EXCEPT !.phase = "unread"])  BY <1>0, <1>31 DEF LoadCheckpoints, At, Place, Context, Ended
    <2>. QED  BY <1>31, <1>32, <2>1 DEF Phases
  <1>7. CASE LoadCheckpoints(r) /\ ~ReadFails(r, "unread")
    <2>. DEFINE done == Completed(x.task)
                y == [x EXCEPT !.phase = "node", !.seen = done, !.node = NextNode(done, 0), !.offset = 1]
    <2>1. done \in SUBSET Nodes  BY DEF Completed
    <2>2. NextNode(done, 0) \in 1 .. 4  BY <2>1, NextNodeFacts
    <2>3. y \in Context
      <3>1. NextNode(done, 0) \in 0 .. 4  BY <2>2
      <3>. HIDE DEF done
      <3>. QED  BY <1>0, <2>1, <3>1, Fields DEF Phases
    <2>4. Place(y)
      <3>. HIDE DEF done
      <3>. QED  BY <1>0, <1>7, <2>2 DEF LoadCheckpoints, At, Place, Context, Ended
    <2>5. Local(r, y) /\ Quiet  BY <1>0, <1>7 DEF LoadCheckpoints, store, Quiet
    <2>. QED  BY <1>1, <2>3, <2>4, <2>5
  <1>33. CASE GuardFails(r)
    <2>1. Place([x EXCEPT !.phase = "unread"])  BY <1>0, <1>33 DEF GuardFails, At, Place, Context, Ended
    <2>. QED  BY <1>32, <1>33, <2>1 DEF GuardFails, Phases
  <1>8. CASE GuardCancelled(r)
    <2>. DEFINE y == [x EXCEPT !.phase = "cancel"]
    <2>1. y \in Context  BY <1>0, <1>8, Fields DEF GuardCancelled, Phases
    <2>2. Place(y)  BY <1>0, <1>8 DEF GuardCancelled, At, Place, Context, Ended, Nodes
    <2>3. Local(r, y) /\ Quiet  BY <1>0, <1>8 DEF GuardCancelled, store, Quiet
    <2>. QED  BY <1>1, <2>1, <2>2, <2>3
  <1>9. CASE GuardBudget(r)
    <2>. DEFINE y == [x EXCEPT !.phase = "fail"]
    <2>1. y \in Context  BY <1>0, <1>9, Fields DEF GuardBudget, Phases
    <2>2. Place(y)  BY <1>0, <1>9 DEF GuardBudget, At, Place, Context, Ended, Nodes
    <2>3. Local(r, y) /\ Quiet  BY <1>0, <1>9 DEF GuardBudget, store, Quiet
    <2>. QED  BY <1>1, <2>1, <2>2, <2>3
  <1>10. CASE StartNode(r)
    <2>. DEFINE y == [x EXCEPT !.phase = "handler", !.steps = @ + 1]
    <2>1. y \in Context  BY <1>0, <1>10, Fields DEF StartNode, Phases
    <2>2. Place(y)  BY <1>0, <1>10 DEF StartNode, At, Place, Context, Ended, Nodes
    <2>3. Local(r, y) /\ Quiet  BY <1>0, <1>10 DEF StartNode, store, Quiet
    <2>. QED  BY <1>1, <2>1, <2>2, <2>3
  <1>11. CASE AllNodesDone(r)
    <2>. DEFINE y == [x EXCEPT !.phase = "finish"]
    <2>1. y \in Context  BY <1>0, <1>11, Fields DEF AllNodesDone, Phases
    <2>2. Place(y)  BY <1>0, <1>11 DEF AllNodesDone, At, Place, Context, Ended, Nodes
    <2>3. Local(r, y) /\ Quiet  BY <1>0, <1>11 DEF AllNodesDone, store, Quiet
    <2>. QED  BY <1>1, <2>1, <2>2, <2>3
  <1>12. CASE RejectDiff(r)
    <2>. DEFINE y == [x EXCEPT !.phase = "fail"]
    <2>1. y \in Context  BY <1>0, <1>12, Fields DEF RejectDiff, Phases
    <2>2. Place(y)  BY <1>0, <1>12 DEF RejectDiff, At, Place, Context, Ended, Nodes
    <2>3. Local(r, y) /\ Quiet  BY <1>0, <1>12 DEF RejectDiff, store, Quiet
    <2>. QED  BY <1>1, <2>1, <2>2, <2>3
  <1>13. CASE NoTransition(r)
    <2>. DEFINE y == [x EXCEPT !.phase = "body"]
    <2>1. y \in Context  BY <1>0, <1>13, Fields DEF NoTransition, Phases
    <2>2. Place(y)  BY <1>0, <1>13 DEF NoTransition, At, Place, Context, Ended, Nodes, MayTransit, Target
    <2>3. Local(r, y) /\ Quiet  BY <1>0, <1>13 DEF NoTransition, store, Quiet
    <2>. QED  BY <1>1, <2>1, <2>2, <2>3
  <1>14. CASE BadTransition(r)
    <2>. DEFINE y == [x EXCEPT !.phase = "redo"]
    <2>1. y \in Context  BY <1>0, <1>14, Fields DEF BadTransition, Phases
    <2>2. Place(y)  BY <1>0, <1>14 DEF BadTransition, At, Place, Context, Ended, Nodes, MayTransit
    <2>3. Local(r, y) /\ Quiet  BY <1>0, <1>14 DEF BadTransition, store, Quiet
    <2>. QED  BY <1>1, <2>1, <2>2, <2>3
  <1>15. CASE NodeReturns(r)
    <2>. DEFINE y == [x EXCEPT !.phase = "save"]
    <2>1. y \in Context  BY <1>0, <1>15, Fields DEF NodeReturns, Phases
    <2>2. Place(y)  BY <1>0, <1>15 DEF NodeReturns, At, Place, Context, Ended, Nodes
    <2>3. Local(r, y) /\ Quiet  BY <1>0, <1>15 DEF NodeReturns, store, Quiet
    <2>. QED  BY <1>1, <2>1, <2>2, <2>3
  <1>16. CASE Transition(r)
    <2>. DEFINE y == [x EXCEPT !.phase = "body", !.ctx = Target(r), !.step = @ + 1]
    <2>1. x.phase = "handler" /\ x.node \in {1, 2, 3} /\ x.task \in Tasks
      BY <1>0, <1>16 DEF Transition, MayTransit, At, Place, Ended, Nodes
    <2>2. Target(r) = Stages[x.node] /\ Target(r) \in States \ Final
      BY <2>1 DEF Target, Stages, States, Final
    <2>3. y \in Context  BY <1>0, <2>2, Fields DEF Phases
    <2>4. Place(y)  BY <1>0, <2>1, <2>2 DEF Place, Context, Ended, Nodes
    <2>5. /\ Local(r, y) /\ Record(x.task, x.step + 1, Target(r))
          /\ UNCHANGED <<report, cancelled, ckpt, cases, upsets>>
      BY <1>16 DEF Transition
    <2>6. x.step + 1 \in Nat /\ Target(r) \in States  BY <1>0, <2>2 DEF Context
    <2>. HIDE DEF y
    <2>. QED  BY <1>0, <2>1, <2>3, <2>4, <2>5, <2>6, WroteTyped
  <1>17. CASE TransitionFails(r)
    <2>. DEFINE y == [x EXCEPT !.phase = "redo", !.ctx = Target(r), !.step = @ + 1]
    <2>1. x.phase = "handler" /\ x.node \in {1, 2, 3} /\ x.task \in Tasks
      BY <1>0, <1>17 DEF TransitionFails, MayTransit, At, Place, Ended, Nodes
    <2>2. Target(r) \in States \ Final  BY <2>1 DEF Target, Stages, States, Final
    <2>3. y \in Context  BY <1>0, <2>2, Fields DEF Phases
    <2>4. Place(y)  BY <1>0, <2>1, <2>2 DEF Place, Context, Ended, Nodes
    <2>5. Local(r, y) /\ Quiet  BY <1>0, <1>17 DEF TransitionFails, Upset, store, Quiet
    <2>. QED  BY <1>1, <2>3, <2>4, <2>5
  <1>18. CASE NodeRaises(r)
    <2>1. PICK p \in {"redo", "fail"} : Local(r, [x EXCEPT !.phase = p])  BY <1>18 DEF NodeRaises
    <2>2. [x EXCEPT !.phase = p] \in Context  BY <1>0, Fields DEF Phases
    <2>3. Place([x EXCEPT !.phase = p])  BY <1>0, <1>18 DEF NodeRaises, At, Place, Context, Ended, Nodes
    <2>4. Quiet  BY <1>0, <1>18 DEF NodeRaises, store, Quiet
    <2>. QED  BY <1>1, <2>1, <2>2, <2>3, <2>4
  <1>19. CASE SaveNode(r)
    <2>1. x.phase = "save" /\ x.node \in 1 .. 3 /\ x.node \in Nodes /\ x.task \in Tasks
      BY <1>0, <1>19 DEF SaveNode, At, Place, Ended, Nodes
    <2>2. CASE WriteFails(r, "redo")
      <3>1. Place([x EXCEPT !.phase = "redo"])  BY <1>0, <2>1 DEF Place, Context, Ended
      <3>. QED  BY <1>2, <2>2, <3>1 DEF Phases
    <2>3. CASE /\ SaveCheckpoint(x.task, x.node, "completed") /\ GoOn(r)
               /\ UNCHANGED <<state, report, trace, cancelled, cases, upsets>>
      <3>. DEFINE k == NextNode(x.seen, x.node)
                  y == [x EXCEPT !.phase = "node", !.offset = 1, !.node = k]
      <3>1. k \in x.node + 1 .. 4  BY <1>0, <2>1, NextNodeFacts DEF Context
      <3>2. k \in 1 .. 4 /\ k \in 0 .. 4  BY <2>1, <3>1
      <3>3. Local(r, y)  BY <2>3 DEF GoOn
      <3>. HIDE DEF k
      <3>4. y \in Context  BY <1>0, <3>2, Fields DEF Phases
      <3>5. Place(y)  BY <1>0, <2>1, <3>2 DEF Place, Context, Ended
      <3>6. Quiet  BY <1>0, <1>5, <2>1, <2>3 DEF Quiet
      <3>. QED  BY <1>1, <3>3, <3>4, <3>5, <3>6
    <2>. QED  BY <1>19, <2>2, <2>3 DEF SaveNode
  <1>20. CASE RetryNode(r)
    <2>1. x.phase = "redo" /\ x.node \in 1 .. 3 /\ x.node \in Nodes /\ x.task \in Tasks
      BY <1>0, <1>20 DEF RetryNode, At, Place, Ended, Nodes
    <2>2. CASE WriteFails(r, "fail")
      <3>1. Place([x EXCEPT !.phase = "fail"])  BY <1>0, <2>1 DEF Place, Context, Ended
      <3>. QED  BY <1>2, <2>2, <3>1 DEF Phases
    <2>3. CASE /\ SaveCheckpoint(x.task, x.node, "failed")
               /\ Local(r, IF x.offset <= NodeRetries
                             THEN [x EXCEPT !.phase = "node", !.offset = @ + 1]
                             ELSE [x EXCEPT !.phase = "fail"])
               /\ UNCHANGED <<state, report, trace, cancelled, cases, upsets>>
      <3>1. Quiet  BY <1>0, <1>5, <2>1, <2>3 DEF Quiet
      <3>2. CASE Local(r, [x EXCEPT !.phase = "node", !.offset = @ + 1])
        <4>. DEFINE y == [x EXCEPT !.phase = "node", !.offset = @ + 1]
        <4>1. y \in Context  BY <1>0, Fields DEF Phases
        <4>2. Place(y)  BY <1>0, <2>1 DEF Place, Context, Ended
        <4>. QED  BY <1>1, <3>1, <3>2, <4>1, <4>2
      <3>3. CASE Local(r, [x EXCEPT !.phase = "fail"])
        <4>. DEFINE y == [x EXCEPT !.phase = "fail"]
        <4>1. y \in Context  BY <1>0, Fields DEF Phases
        <4>2. Place(y)  BY <1>0, <2>1 DEF Place, Context, Ended
        <4>. QED  BY <1>1, <3>1, <3>3, <4>1, <4>2
      <3>. QED  BY <2>3, <3>2, <3>3
    <2>. QED  BY <1>20, <2>2, <2>3 DEF RetryNode
  <1>21. CASE Succeed(r)
    <2>1. x.phase = "finish" /\ x.phase \notin Ended /\ x.task \in Tasks
      BY <1>0, <1>21 DEF Succeed, At, Place, Ended
    <2>2. CASE EventFails(r, "fail")
      <3>1. Place([x EXCEPT !.phase = "fail", !.step = @ + 1])  BY <1>0, <2>1 DEF Place, Context, Ended
      <3>. QED  BY <1>3, <2>2, <3>1 DEF Phases
    <2>3. CASE ~EventFails(r, "fail")
      <3>1. /\ Record(x.task, x.step + 1, "SUCCESS")
            /\ Local(r, [x EXCEPT !.phase = "returned", !.step = @ + 1])
            /\ report' = report \cup {x.task} /\ UNCHANGED <<cancelled, ckpt, cases, upsets>>
        BY <1>21, <2>3 DEF Succeed
      <3>2. Place([x EXCEPT !.phase = "returned", !.step = @ + 1])  BY <1>0, <2>1 DEF Place, Context, Ended
      <3>3. report' \subseteq Tasks  BY <1>0, <2>1, <3>1
      <3>4. "returned" \in Phases /\ "SUCCESS" \in States  BY DEF Phases, States
      <3>. QED  BY <1>4, <2>1, <3>1, <3>2, <3>3, <3>4
    <2>. QED  BY <2>2, <2>3
  <1>22. CASE RecordCancel(r)
    <2>1. x.phase = "cancel" /\ x.phase \notin Ended /\ x.task \in Tasks
      BY <1>0, <1>22 DEF RecordCancel, At, Place, Ended
    <2>2. CASE EventFails(r, "raised")
      <3>1. Place([x EXCEPT !.phase = "raised", !.step = @ + 1])  BY <1>0, <2>1 DEF Place, Context, Ended
      <3>. QED  BY <1>3, <2>2, <3>1 DEF Phases
    <2>3. CASE ~EventFails(r, "raised")
      <3>1. /\ Record(x.task, x.step + 1, "CANCELLED")
            /\ Local(r, [x EXCEPT !.phase = "raised", !.step = @ + 1])
            /\ report' = report /\ UNCHANGED <<cancelled, ckpt, cases, upsets>>
        BY <1>22, <2>3 DEF RecordCancel
      <3>2. Place([x EXCEPT !.phase = "raised", !.step = @ + 1])  BY <1>0, <2>1 DEF Place, Context, Ended
      <3>3. report' \subseteq Tasks  BY <1>0, <2>1, <3>1
      <3>4. "raised" \in Phases /\ "CANCELLED" \in States  BY DEF Phases, States
      <3>. QED  BY <1>4, <2>1, <3>1, <3>2, <3>3, <3>4
    <2>. QED  BY <2>2, <2>3
  <1>23. CASE RecordFailure(r)
    <2>1. x.phase \in {"fail", "unread"} /\ x.phase \notin Ended /\ x.task \in Tasks
      BY <1>0, <1>23 DEF RecordFailure, At, Place, Ended
    <2>2. CASE EventFails(r, "raised")
      <3>1. Place([x EXCEPT !.phase = "raised", !.step = @ + 1])  BY <1>0, <2>1 DEF Place, Context, Ended
      <3>. QED  BY <1>3, <2>2, <3>1 DEF Phases
    <2>3. CASE ~EventFails(r, "raised")
      <3>1. /\ Record(x.task, x.step + 1, "FAILED")
            /\ Local(r, [x EXCEPT !.phase = "note", !.step = @ + 1])
            /\ report' = report /\ UNCHANGED <<cancelled, ckpt, cases, upsets>>
        BY <1>23, <2>3 DEF RecordFailure
      <3>2. Place([x EXCEPT !.phase = "note", !.step = @ + 1])  BY <1>0, <2>1 DEF Place, Context, Ended
      <3>3. report' \subseteq Tasks  BY <1>0, <2>1, <3>1
      <3>4. "note" \in Phases /\ "FAILED" \in States  BY DEF Phases, States
      <3>. QED  BY <1>4, <2>1, <3>1, <3>2, <3>3, <3>4
    <2>. QED  BY <2>2, <2>3
  <1>24. CASE NoteFailure(r)
    <2>1. x.phase = "note" /\ x.task \in Tasks  BY <1>0, <1>24 DEF NoteFailure, At, Place, Ended
    <2>2. Place([x EXCEPT !.phase = "raised"])  BY <1>0 DEF Place, Context, Ended
    <2>3. CASE WriteFails(r, "raised")  BY <1>2, <2>2, <2>3 DEF Phases
    <2>4. CASE ~WriteFails(r, "raised")
      <3>1. Local(r, [x EXCEPT !.phase = "raised"]) /\ Quiet
        BY <1>0, <1>24, <2>1, <2>4 DEF NoteFailure, Quiet
      <3>2. [x EXCEPT !.phase = "raised"] \in Context  BY <1>0, Fields DEF Phases
      <3>. QED  BY <1>1, <2>2, <3>1, <3>2
    <2>. QED  BY <2>3, <2>4
  <1>25. CASE Die(r)
    <2>1. Idle \in Context /\ Place(Idle)  BY NewRun DEF Idle, Place, Ended
    <2>2. Local(r, Idle) /\ Quiet  BY <1>0, <1>25 DEF Die, Upset, store, Quiet
    <2>. QED  BY <1>1, <2>1, <2>2
  <1>. QED  BY <1>6, <1>7, <1>8, <1>30, <1>31, <1>33, <1>9, <1>10, <1>11, <1>12, <1>13,
               <1>14, <1>15, <1>16, <1>17, <1>18, <1>19, <1>20, <1>21, <1>22, <1>23, <1>24, <1>25
           DEF Advance, Node

\* A run that begins is typed and in its place.
LEMMA BeginTyped ==
    ASSUME Typed, NEW r \in Runners, NEW t \in Tasks, Begin(r, t), runs' \in Nat
    PROVE  Typed'
  <1>1. LastStep(t) \in Nat  BY LastStepFacts DEF Typed
  <1>. DEFINE y == IF Finished(t) THEN [Idle EXCEPT !.phase = "returned", !.task = t]
                                  ELSE [Idle EXCEPT !.phase = "begun", !.task = t, !.step = LastStep(t)]
  <1>2. y \in Context  BY <1>1, NewRun
  <1>3. Place(y)  BY DEF Place, Idle, Ended
  <1>4. Local(r, y) /\ UNCHANGED <<store, upsets>>  BY DEF Begin, Enter
  <1>. HIDE DEF y
  <1>. QED  BY <1>2, <1>3, <1>4, QuietTyped DEF store, Typed, TypeOK

\* The types, a largest step in every trace, and every run in its place hold in
\* all behaviours, whatever overlaps and fails.
THEOREM TypedHolds == Spec => []Typed
  <1>1. Init => Typed
    <2>. SUFFICES ASSUME Init PROVE Typed  OBVIOUS
    <2>. USE DEF Init, StoreInit
    <2>1. TypeOK
      <3>1. <<>> \in Seq(Event)  OBVIOUS
      <3>2. run \in [Runners -> Context]
        <4>1. Idle \in Context  BY NewRun
        <4>. QED  BY <4>1
      <3>. QED  BY <3>1, <3>2 DEF TypeOK, Event, Context, States
    <2>2. Topped  BY DEF Topped
    <2>3. Placed  BY DEF Placed, Place, Idle, Ended
    <2>. QED  BY <2>1, <2>2, <2>3 DEF Typed
  <1>2. Typed /\ [Next]_vars => Typed'
    <2>. SUFFICES ASSUME Typed, [Next]_vars PROVE Typed'  OBVIOUS
    <2>1. ASSUME NEW r \in Runners, NEW t \in Tasks, Begin(r, t), runs' = runs + 1 PROVE Typed'
      <3>1. runs' \in Nat  BY <2>1 DEF Typed, TypeOK
      <3>. QED  BY <2>1, <3>1, BeginTyped
    <2>2. ASSUME NEW r \in Runners, Advance(r) \/ Die(r), UNCHANGED runs PROVE Typed'
      BY <2>2, AdvanceTyped
    <2>3. ASSUME NEW t \in Tasks, RequestCancel(t), UNCHANGED runs PROVE Typed'
      BY <2>3 DEF RequestCancel, Typed, TypeOK, Topped, Placed, Place
    <2>4. CASE UNCHANGED vars
      BY <2>4 DEF vars, store, Typed, TypeOK, Topped, Placed, Place
    <2>. QED  BY <2>1, <2>2, <2>3, <2>4 DEF Next
  <1>. QED  BY <1>1, <1>2, PTL DEF Spec

\* Type correctness: what the store and the runs hold is what store.py and
\* harness.py can hold.
THEOREM HarnessTypes == Spec => []TypeOK
  <1>1. Typed => TypeOK  BY DEF Typed
  <1>. QED  BY <1>1, TypedHolds, PTL


-----------------------------------------------------------------------------
(* What a step of a run does, for the properties below. *)

Busy(x) == x.phase \notin Ended

\* The phases in which a run has chosen its next node.
Chosen == {"node", "handler", "body", "save", "redo", "finish", "cancel"}

\* A run keeps its node, or chooses the first one from the checkpoints it loads,
\* or goes on from the one it has saved.
Same(x, y)   == x.phase \in Chosen /\ y.node = x.node /\ y.seen = x.seen
Loaded(x, y) == y.seen = Completed(x.task) /\ y.node = NextNode(y.seen, 0)

\* Nothing is written of the state, or an event with the state it stands for.
Wrote(x, y, s) ==
    /\ Record(x.task, x.step + 1, s)
    /\ Busy(y) => y.step = x.step + 1
    /\ report' = IF s = "SUCCESS" THEN report \cup {x.task} ELSE report
    /\ \/ s = "FAILED" /\ x.phase \in {"fail", "unread"}
       \/ s = "CANCELLED" /\ x.phase = "cancel" /\ ~Busy(y)
       \/ s = "SUCCESS" /\ x.phase = "finish" /\ ~Busy(y)
       \/ \E k \in Nodes : s = Stages[k] /\ x.phase = "handler" /\ s \in Allowed[x.ctx] /\ y.ctx = s
Events(x, y) ==
    \/ UNCHANGED <<state, trace, report>>
    \/ \E s \in States : Wrote(x, y, s)

\* The run's own state changes with the event, with the checkpoints it loads, or
\* ahead of an event that fails.
Believes(x, y) == Busy(y) =>
    \/ y.ctx = x.ctx
    \/ y.ctx = "PENDING"
    \/ \E k \in Completed(x.task) : y.ctx = Stages[k]
    \/ \E s \in States : Wrote(x, y, s) /\ y.ctx = s
    \/ WriteFaults

Saves(x, y) ==
    \/ UNCHANGED ckpt /\ (y.phase \in Chosen => Same(x, y) \/ Loaded(x, y))
    \/ /\ SaveCheckpoint(x.task, x.node, "failed") /\ x.phase = "redo"
       /\ y.phase \in Chosen => Same(x, y)
    \/ /\ SaveCheckpoint(x.task, x.node, "completed") /\ x.phase = "save"
       /\ y.phase = "node" /\ y.seen = x.seen /\ y.node = NextNode(x.seen, x.node)

\* A run that has not passed its guard since the task was cancelled does not pass
\* it.  It may fail to ask, and then it ends.
Stopped(x) == /\ x.phase \in {"begun", "context", "node", "cancel", "unread"}
              /\ x.phase = "node" => x.node # 4
Stops(x, y) == x.task \in cancelled /\ Stopped(x) =>
    /\ Busy(y) => \/ y.phase \in {"context", "node", "cancel", "unread"}
                  \/ x.phase = "unread" /\ Wrote(x, y, "FAILED")
    /\ y.phase = "node" => Loaded(x, y)
    /\ UNCHANGED ckpt

Moves(x, y) ==
    /\ Busy(x) /\ x.task \in Tasks
    /\ Busy(y) => y.task = x.task /\ y.step >= x.step
    /\ y.phase = "cancel" => x.task \in cancelled
    /\ y.phase = "finish" => y.node = 4
    /\ Events(x, y) /\ Believes(x, y) /\ Saves(x, y) /\ Stops(x, y)
    /\ cancelled' = cancelled

\* Each action of a run is a move of this shape.
LEMMA StepMoves ==
    ASSUME Typed, NEW r \in Runners, Advance(r) \/ Die(r)
    PROVE  Moves(run[r], run'[r])
  <1>. DEFINE x == run[r]
              y == run'[r]
              Still(p) == /\ y.phase = p /\ y.task = x.task /\ y.ctx = x.ctx
                          /\ y.seen = x.seen /\ y.node = x.node /\ y.step = x.step
  <1>0. x \in Context /\ Place(x) /\ run \in [Runners -> Context]
    BY DEF Typed, TypeOK, Placed, Context
  <1>. HIDE DEF Still
  <1>1. ASSUME NEW p \in Phases, Still(p), Busy(x), x.task \in Tasks, UNCHANGED store, Saves(x, y), Stops(x, y),
               p = "cancel" => x.task \in cancelled, p = "finish" => x.node = 4
        PROVE  Moves(x, y)
    <2>1. y.step >= x.step  BY <1>0, <1>1 DEF Still, Context
    <2>2. Events(x, y) /\ Believes(x, y) /\ cancelled' = cancelled
      BY <1>1 DEF Events, Believes, store, Still
    <2>. QED  BY <1>1, <2>1, <2>2 DEF Moves, Still
  <1>2. ASSUME NEW p \in Phases, WriteFails(r, p) \/ EventFails(r, p), Busy(x), x.task \in Tasks,
               p \in Chosen => x.phase \in Chosen, ~Stopped(x) \/ p \in Ended,
               p \notin {"cancel", "finish"}
        PROVE  Moves(x, y)
    <2>1. /\ UNCHANGED store
          /\ y.phase = p /\ y.task = x.task /\ y.ctx = x.ctx /\ y.seen = x.seen /\ y.node = x.node
          /\ y.step >= x.step
      <3>1. /\ UNCHANGED store
            /\ y = [x EXCEPT !.phase = p] \/ y = [x EXCEPT !.phase = p, !.step = @ + 1]
        BY <1>0, <1>2 DEF WriteFails, EventFails, Local
      <3>2. CASE y = [x EXCEPT !.phase = p]  BY <1>0, <3>1, <3>2 DEF Context
      <3>3. CASE y = [x EXCEPT !.phase = p, !.step = @ + 1]  BY <1>0, <3>1, <3>3 DEF Context
      <3>. QED  BY <3>1, <3>2, <3>3
    <2>2. Events(x, y) /\ Believes(x, y) /\ cancelled' = cancelled
      BY <2>1 DEF Events, Believes, store
    <2>3. Saves(x, y)  BY <1>2, <2>1 DEF store, Saves, Same
    <2>4. Stops(x, y)  BY <1>2, <2>1 DEF store, Stops, Busy, Ended
    <2>5. y.phase # "cancel" /\ y.phase # "finish"  BY <1>2, <2>1
    <2>. QED  BY <1>2, <2>1, <2>2, <2>3, <2>4, <2>5 DEF Moves
  <1>30. ASSUME NEW p \in Phases, ReadFails(r, p), Busy(x), x.task \in Tasks, p \in {"raised", "unread"}
        PROVE  Moves(x, y)
    <2>1. UNCHANGED store /\ y = [x EXCEPT !.phase = p]  BY <1>0, <1>30 DEF ReadFails, Local
    <2>2. Still(p)  BY <1>0, <2>1 DEF Context, Still
    <2>3. Saves(x, y) /\ Stops(x, y)
      BY <1>30, <2>1, <2>2 DEF store, Saves, Stops, Still, Chosen, Busy, Ended
    <2>. QED  BY <1>1, <1>30, <2>1, <2>2, <2>3
  <1>31. CASE LoadContext(r) /\ ReadFails(r, "raised")
    <2>1. Busy(x) /\ x.task \in Tasks  BY <1>0, <1>31 DEF LoadContext, At, Place, Busy, Ended
    <2>. QED  BY <1>30, <1>31, <2>1 DEF Phases
  <1>32. CASE LoadCheckpoints(r) /\ ReadFails(r, "unread")
    <2>1. Busy(x) /\ x.task \in Tasks  BY <1>0, <1>32 DEF LoadCheckpoints, At, Place, Busy, Ended
    <2>. QED  BY <1>30, <1>32, <2>1 DEF Phases
  <1>33. CASE GuardFails(r)
    <2>1. Busy(x) /\ x.task \in Tasks  BY <1>0, <1>33 DEF GuardFails, At, Place, Busy, Ended
    <2>. QED  BY <1>30, <1>33, <2>1 DEF GuardFails, Phases
  <1>4. CASE GuardCancelled(r)
    <2>1. /\ x.phase = "node" /\ x.node # 4 /\ x.task \in cancelled
          /\ UNCHANGED store
          /\ y = [x EXCEPT !.phase = "cancel"]
      BY <1>0, <1>4 DEF GuardCancelled, At, Local
    <2>2. Still("cancel")  BY <1>0, <2>1 DEF Context, Still
    <2>3. Busy(x) /\ x.task \in Tasks  BY <1>0, <2>1 DEF Place, Busy, Ended
    <2>4. Saves(x, y) /\ Stops(x, y)
      BY <2>1, <2>2 DEF store, Saves, Stops, Still, Same, Stopped, Chosen, Busy, Ended
    <2>. QED  BY <1>1, <2>1, <2>2, <2>3, <2>4 DEF Phases
  <1>5. CASE GuardBudget(r)
    <2>1. /\ x.phase = "node" /\ x.task \notin cancelled
          /\ UNCHANGED store
          /\ y = [x EXCEPT !.phase = "fail"]
      BY <1>0, <1>5 DEF GuardBudget, At, Local
    <2>2. Still("fail")  BY <1>0, <2>1 DEF Context, Still
    <2>3. Busy(x) /\ x.task \in Tasks  BY <1>0, <2>1 DEF Place, Busy, Ended
    <2>4. Saves(x, y) /\ Stops(x, y)
      BY <2>1, <2>2 DEF store, Saves, Stops, Still, Same, Stopped, Chosen, Busy, Ended
    <2>. QED  BY <1>1, <2>1, <2>2, <2>3, <2>4 DEF Phases
  <1>6. CASE StartNode(r)
    <2>1. /\ x.phase = "node" /\ x.task \notin cancelled
          /\ UNCHANGED store
          /\ y = [x EXCEPT !.phase = "handler", !.steps = @ + 1]
      BY <1>0, <1>6 DEF StartNode, At, Local
    <2>2. Still("handler")  BY <1>0, <2>1 DEF Context, Still
    <2>3. Busy(x) /\ x.task \in Tasks  BY <1>0, <2>1 DEF Place, Busy, Ended
    <2>4. Saves(x, y) /\ Stops(x, y)
      BY <2>1, <2>2 DEF store, Saves, Stops, Still, Same, Stopped, Chosen, Busy, Ended
    <2>. QED  BY <1>1, <2>1, <2>2, <2>3, <2>4 DEF Phases
  <1>7. CASE AllNodesDone(r)
    <2>1. /\ x.phase = "node" /\ x.node = 4
          /\ UNCHANGED store
          /\ y = [x EXCEPT !.phase = "finish"]
      BY <1>0, <1>7 DEF AllNodesDone, At, Local
    <2>2. Still("finish")  BY <1>0, <2>1 DEF Context, Still
    <2>3. Busy(x) /\ x.task \in Tasks  BY <1>0, <2>1 DEF Place, Busy, Ended
    <2>4. Saves(x, y) /\ Stops(x, y)
      BY <2>1, <2>2 DEF store, Saves, Stops, Still, Same, Stopped, Chosen, Busy, Ended
    <2>. QED  BY <1>1, <2>1, <2>2, <2>3, <2>4 DEF Phases
  <1>8. CASE RejectDiff(r)
    <2>1. /\ x.phase = "handler"
          /\ UNCHANGED store
          /\ y = [x EXCEPT !.phase = "fail"]
      BY <1>0, <1>8 DEF RejectDiff, At, Local
    <2>2. Still("fail")  BY <1>0, <2>1 DEF Context, Still
    <2>3. Busy(x) /\ x.task \in Tasks  BY <1>0, <2>1 DEF Place, Busy, Ended
    <2>4. Saves(x, y) /\ Stops(x, y)
      BY <2>1, <2>2 DEF store, Saves, Stops, Still, Same, Stopped, Chosen, Busy, Ended
    <2>. QED  BY <1>1, <2>1, <2>2, <2>3, <2>4 DEF Phases
  <1>9. CASE NoTransition(r)
    <2>1. /\ x.phase = "handler"
          /\ UNCHANGED store
          /\ y = [x EXCEPT !.phase = "body"]
      BY <1>0, <1>9 DEF NoTransition, At, Local, MayTransit
    <2>2. Still("body")  BY <1>0, <2>1 DEF Context, Still
    <2>3. Busy(x) /\ x.task \in Tasks  BY <1>0, <2>1 DEF Place, Busy, Ended
    <2>4. Saves(x, y) /\ Stops(x, y)
      BY <2>1, <2>2 DEF store, Saves, Stops, Still, Same, Stopped, Chosen, Busy, Ended
    <2>. QED  BY <1>1, <2>1, <2>2, <2>3, <2>4 DEF Phases
  <1>10. CASE BadTransition(r)
    <2>1. /\ x.phase = "handler"
          /\ UNCHANGED store
          /\ y = [x EXCEPT !.phase = "redo"]
      BY <1>0, <1>10 DEF BadTransition, At, Local, MayTransit
    <2>2. Still("redo")  BY <1>0, <2>1 DEF Context, Still
    <2>3. Busy(x) /\ x.task \in Tasks  BY <1>0, <2>1 DEF Place, Busy, Ended
    <2>4. Saves(x, y) /\ Stops(x, y)
      BY <2>1, <2>2 DEF store, Saves, Stops, Still, Same, Stopped, Chosen, Busy, Ended
    <2>. QED  BY <1>1, <2>1, <2>2, <2>3, <2>4 DEF Phases
  <1>11. CASE NodeReturns(r)
    <2>1. /\ x.phase = "body"
          /\ UNCHANGED store
          /\ y = [x EXCEPT !.phase = "save"]
      BY <1>0, <1>11 DEF NodeReturns, At, Local
    <2>2. Still("save")  BY <1>0, <2>1 DEF Context, Still
    <2>3. Busy(x) /\ x.task \in Tasks  BY <1>0, <2>1 DEF Place, Busy, Ended
    <2>4. Saves(x, y) /\ Stops(x, y)
      BY <2>1, <2>2 DEF store, Saves, Stops, Still, Same, Stopped, Chosen, Busy, Ended
    <2>. QED  BY <1>1, <2>1, <2>2, <2>3, <2>4 DEF Phases
  <1>12. CASE NodeRaises(r)
    <2>1. PICK p \in {"redo", "fail"} : y = [x EXCEPT !.phase = p]
      BY <1>0, <1>12 DEF NodeRaises, Local
    <2>2. UNCHANGED store /\ x.phase = "body"  BY <1>12 DEF NodeRaises, At
    <2>3. Still(p)  BY <1>0, <2>1 DEF Context, Still
    <2>4. Busy(x) /\ x.task \in Tasks  BY <1>0, <2>2 DEF Place, Busy, Ended
    <2>5. Saves(x, y) /\ Stops(x, y)
      BY <2>2, <2>3 DEF store, Saves, Stops, Still, Same, Stopped, Chosen, Busy, Ended
    <2>. QED  BY <1>1, <2>2, <2>3, <2>4, <2>5 DEF Phases
  <1>13. CASE LoadContext(r) /\ ~ReadFails(r, "raised")
    <2>1. PICK c \in {"PENDING", "PLANNING", "EXECUTING", "REVIEWING"} :
             /\ y = [x EXCEPT !.phase = "context", !.ctx = c]
             /\ c = "PENDING" \/ \E k \in Completed(x.task) : c = Stages[k]
      <3>. DEFINE done == Completed(x.task)
                  c == CASE 3 \in done               -> "REVIEWING"
                         [] 2 \in done /\ 3 \notin done -> "EXECUTING"
                         [] done = {1}               -> "PLANNING"
                         [] done = {}                -> "PENDING"
      <3>1. done \in SUBSET {1, 2, 3}  BY DEF Completed, Nodes
      <3>2. 3 \in done \/ (2 \in done /\ 3 \notin done) \/ done = {1} \/ done = {}  BY <3>1
      <3>3. y = [x EXCEPT !.phase = "context", !.ctx = c]  BY <1>0, <1>13 DEF LoadContext, Local
      <3>. HIDE DEF done
      <3>4. /\ c \in {"PENDING", "PLANNING", "EXECUTING", "REVIEWING"}
            /\ c = "PENDING" \/ \E k \in done : c = Stages[k]
        BY <3>2 DEF Stages
      <3>. HIDE DEF c
      <3>. QED  BY <3>3, <3>4 DEF done
    <2>2. x.phase = "begun" /\ UNCHANGED store  BY <1>13 DEF LoadContext, At
    <2>3. /\ y.phase = "context" /\ y.task = x.task /\ y.step = x.step /\ y.ctx = c
          /\ y.step >= x.step
      BY <1>0, <2>1 DEF Context
    <2>4. Busy(x) /\ x.task \in Tasks  BY <1>0, <2>2 DEF Place, Busy, Ended
    <2>5. Believes(x, y)  BY <2>1, <2>3 DEF Believes
    <2>6. Events(x, y) /\ Saves(x, y) /\ Stops(x, y) /\ cancelled' = cancelled
      BY <2>2, <2>3 DEF Events, Saves, Stops, store, Chosen
    <2>. QED  BY <2>3, <2>4, <2>5, <2>6 DEF Moves
  <1>14. CASE LoadCheckpoints(r) /\ ~ReadFails(r, "unread")
    <2>. DEFINE done == Completed(x.task)
    <2>1. /\ x.phase = "context" /\ UNCHANGED store
          /\ y = [x EXCEPT !.phase = "node", !.seen = done, !.node = NextNode(done, 0), !.offset = 1]
      BY <1>0, <1>14 DEF LoadCheckpoints, At, Local
    <2>. HIDE DEF done
    <2>2. /\ y.phase = "node" /\ y.task = x.task /\ y.ctx = x.ctx /\ y.step >= x.step
          /\ y.seen = done /\ y.node = NextNode(done, 0)
      BY <1>0, <2>1 DEF Context
    <2>3. Busy(x) /\ x.task \in Tasks  BY <1>0, <2>1 DEF Place, Busy, Ended
    <2>4. Loaded(x, y)  BY <2>2 DEF Loaded, done
    <2>5. Events(x, y) /\ Believes(x, y) /\ Saves(x, y) /\ Stops(x, y) /\ cancelled' = cancelled
      BY <2>1, <2>2, <2>4 DEF Events, Believes, Saves, Stops, store, Busy, Ended
    <2>. QED  BY <2>2, <2>3, <2>5 DEF Moves
  <1>15. CASE Transition(r)
    <2>1. x.phase = "handler" /\ x.node \in Nodes /\ x.task \in Tasks
      BY <1>0, <1>15 DEF Transition, MayTransit, At, Place, Ended
    <2>. DEFINE s == Stages[x.node]
    <2>2. /\ y = [x EXCEPT !.phase = "body", !.ctx = s, !.step = @ + 1]
          /\ Record(x.task, x.step + 1, s) /\ s \in Allowed[x.ctx]
          /\ UNCHANGED <<report, cancelled, ckpt, cases, upsets>>
      BY <1>0, <1>15 DEF Transition, Target, Local
    <2>3. s \in {"PLANNING", "EXECUTING", "REVIEWING"}  BY <2>1 DEF Nodes, Stages
    <2>4. /\ y.phase = "body" /\ y.task = x.task /\ y.ctx = s /\ y.step = x.step + 1
          /\ y.seen = x.seen /\ y.node = x.node /\ y.step >= x.step
      <3>. HIDE DEF s
      <3>. QED  BY <1>0, <2>2 DEF Context
    <2>5. s \in States /\ Wrote(x, y, s)
      BY <2>1, <2>2, <2>3, <2>4 DEF Wrote, States
    <2>. HIDE DEF s
    <2>6. Events(x, y) /\ Believes(x, y)  BY <2>4, <2>5 DEF Events, Believes
    <2>7. Saves(x, y) /\ Stops(x, y) /\ Busy(x) /\ cancelled' = cancelled
      BY <2>1, <2>2, <2>4 DEF Saves, Stops, Stopped, Same, Chosen, Busy, Ended
    <2>. QED  BY <2>1, <2>4, <2>6, <2>7 DEF Moves
  <1>16. CASE TransitionFails(r)
    <2>1. /\ x.phase = "handler" /\ UNCHANGED store /\ WriteFaults
          /\ y = [x EXCEPT !.phase = "redo", !.ctx = Target(r), !.step = @ + 1]
      BY <1>0, <1>16 DEF TransitionFails, MayTransit, At, Local
    <2>2. /\ y.phase = "redo" /\ y.task = x.task /\ y.seen = x.seen /\ y.node = x.node /\ y.step >= x.step
      BY <1>0, <2>1 DEF Context
    <2>3. Busy(x) /\ x.task \in Tasks  BY <1>0, <2>1 DEF Place, Busy, Ended
    <2>4. Events(x, y) /\ Believes(x, y) /\ Saves(x, y) /\ Stops(x, y) /\ cancelled' = cancelled
      BY <2>1, <2>2 DEF Events, Believes, Saves, Stops, Stopped, Same, Chosen, store
    <2>. QED  BY <2>2, <2>3, <2>4 DEF Moves
  <1>17. CASE SaveNode(r)
    <2>1. x.phase = "save" /\ Busy(x) /\ x.task \in Tasks
      BY <1>0, <1>17 DEF SaveNode, At, Place, Busy, Ended
    <2>2. CASE WriteFails(r, "redo")
      BY <1>2, <2>1, <2>2 DEF Phases, Chosen, Stopped
    <2>3. CASE ~WriteFails(r, "redo")
      <3>1. /\ SaveCheckpoint(x.task, x.node, "completed")
            /\ y = [x EXCEPT !.phase = "node", !.offset = 1, !.node = NextNode(x.seen, @)]
            /\ UNCHANGED <<state, report, trace, cancelled, cases, upsets>>
        BY <1>0, <1>17, <2>3 DEF SaveNode, GoOn, Local
      <3>2. /\ y.phase = "node" /\ y.task = x.task /\ y.ctx = x.ctx /\ y.step >= x.step
            /\ y.seen = x.seen /\ y.node = NextNode(x.seen, x.node)
        BY <1>0, <3>1 DEF Context
      <3>3. Events(x, y) /\ Believes(x, y) /\ Saves(x, y) /\ Stops(x, y) /\ cancelled' = cancelled
        BY <2>1, <3>1, <3>2 DEF Events, Believes, Saves, Stops, Stopped
      <3>. QED  BY <2>1, <3>2, <3>3 DEF Moves
    <2>. QED  BY <2>2, <2>3
  <1>18. CASE RetryNode(r)
    <2>1. x.phase = "redo" /\ Busy(x) /\ x.task \in Tasks
      BY <1>0, <1>18 DEF RetryNode, At, Place, Busy, Ended
    <2>2. CASE WriteFails(r, "fail")
      BY <1>2, <2>1, <2>2 DEF Phases, Chosen, Stopped
    <2>3. CASE ~WriteFails(r, "fail")
      <3>1. /\ SaveCheckpoint(x.task, x.node, "failed")
            /\ y = [x EXCEPT !.phase = "node", !.offset = @ + 1] \/ y = [x EXCEPT !.phase = "fail"]
            /\ UNCHANGED <<state, report, trace, cancelled, cases, upsets>>
        BY <1>0, <1>18, <2>3 DEF RetryNode, Local
      <3>2. /\ y.phase \in {"node", "fail"} /\ y.task = x.task /\ y.ctx = x.ctx /\ y.step >= x.step
            /\ y.seen = x.seen /\ y.node = x.node
        <4>1. CASE y = [x EXCEPT !.phase = "node", !.offset = @ + 1]  BY <1>0, <4>1 DEF Context
        <4>2. CASE y = [x EXCEPT !.phase = "fail"]  BY <1>0, <4>2 DEF Context
        <4>. QED  BY <3>1, <4>1, <4>2
      <3>3. Events(x, y) /\ Believes(x, y) /\ Saves(x, y) /\ Stops(x, y) /\ cancelled' = cancelled
        BY <2>1, <3>1, <3>2 DEF Events, Believes, Saves, Stops, Stopped, Same, Chosen
      <3>. QED  BY <2>1, <3>2, <3>3 DEF Moves
    <2>. QED  BY <2>2, <2>3
  <1>19. CASE Succeed(r)
    <2>1. x.phase = "finish" /\ Busy(x) /\ x.task \in Tasks
      BY <1>0, <1>19 DEF Succeed, At, Place, Busy, Ended
    <2>2. CASE EventFails(r, "fail")
      <3>1. ~Stopped(x) \/ "fail" \in Ended  BY <2>1 DEF Stopped, Ended
      <3>2. "fail" \in Phases /\ "fail" \notin Chosen  BY DEF Phases, Chosen
      <3>. QED  BY <1>2, <2>1, <2>2, <3>1, <3>2
    <2>3. CASE ~EventFails(r, "fail")
      <3>1. /\ Record(x.task, x.step + 1, "SUCCESS") /\ report' = report \cup {x.task}
            /\ y = [x EXCEPT !.phase = "returned", !.step = @ + 1]
            /\ UNCHANGED <<cancelled, ckpt, cases, upsets>>
        BY <1>0, <1>19, <2>3 DEF Succeed, Local
      <3>2. /\ y.phase = "returned" /\ y.task = x.task /\ y.ctx = x.ctx /\ y.step = x.step + 1 /\ y.step >= x.step
        BY <1>0, <3>1 DEF Context
      <3>3. Wrote(x, y, "SUCCESS")  BY <2>1, <3>1, <3>2 DEF Wrote, Busy, Ended
      <3>4. Events(x, y)  BY <3>3 DEF Events, States
      <3>5. Believes(x, y) /\ Saves(x, y) /\ Stops(x, y) /\ cancelled' = cancelled
        BY <2>1, <3>1, <3>2 DEF Believes, Saves, Stops, Stopped, Chosen, Busy, Ended
      <3>. QED  BY <2>1, <3>2, <3>4, <3>5 DEF Moves
    <2>. QED  BY <2>2, <2>3
  <1>20. CASE RecordCancel(r)
    <2>1. x.phase = "cancel" /\ Busy(x) /\ x.task \in Tasks
      BY <1>0, <1>20 DEF RecordCancel, At, Place, Busy, Ended
    <2>2. CASE EventFails(r, "raised")
      <3>1. ~Stopped(x) \/ "raised" \in Ended  BY <2>1 DEF Stopped, Ended
      <3>2. "raised" \in Phases /\ "raised" \notin Chosen  BY DEF Phases, Chosen
      <3>. QED  BY <1>2, <2>1, <2>2, <3>1, <3>2
    <2>3. CASE ~EventFails(r, "raised")
      <3>1. /\ Record(x.task, x.step + 1, "CANCELLED") /\ report' = report
            /\ y = [x EXCEPT !.phase = "raised", !.step = @ + 1]
            /\ UNCHANGED <<cancelled, ckpt, cases, upsets>>
        BY <1>0, <1>20, <2>3 DEF RecordCancel, Local
      <3>2. /\ y.phase = "raised" /\ y.task = x.task /\ y.ctx = x.ctx /\ y.step = x.step + 1 /\ y.step >= x.step
        BY <1>0, <3>1 DEF Context
      <3>3. Wrote(x, y, "CANCELLED")  BY <2>1, <3>1, <3>2 DEF Wrote, Busy, Ended
      <3>4. Events(x, y)  BY <3>3 DEF Events, States
      <3>5. Believes(x, y) /\ Saves(x, y) /\ Stops(x, y) /\ cancelled' = cancelled
        BY <2>1, <3>1, <3>2 DEF Believes, Saves, Stops, Stopped, Chosen, Busy, Ended
      <3>. QED  BY <2>1, <3>2, <3>4, <3>5 DEF Moves
    <2>. QED  BY <2>2, <2>3
  <1>21. CASE RecordFailure(r)
    <2>1. x.phase \in {"fail", "unread"} /\ Busy(x) /\ x.task \in Tasks
      BY <1>0, <1>21 DEF RecordFailure, At, Place, Busy, Ended
    <2>2. CASE EventFails(r, "raised")
      <3>1. ~Stopped(x) \/ "raised" \in Ended  BY <2>1 DEF Stopped, Ended
      <3>2. "raised" \in Phases /\ "raised" \notin Chosen  BY DEF Phases, Chosen
      <3>. QED  BY <1>2, <2>1, <2>2, <3>1, <3>2
    <2>3. CASE ~EventFails(r, "raised")
      <3>1. /\ Record(x.task, x.step + 1, "FAILED") /\ report' = report
            /\ y = [x EXCEPT !.phase = "note", !.step = @ + 1]
            /\ UNCHANGED <<cancelled, ckpt, cases, upsets>>
        BY <1>0, <1>21, <2>3 DEF RecordFailure, Local
      <3>2. /\ y.phase = "note" /\ y.task = x.task /\ y.ctx = x.ctx /\ y.step = x.step + 1 /\ y.step >= x.step
        BY <1>0, <3>1 DEF Context
      <3>3. Wrote(x, y, "FAILED")  BY <2>1, <3>1, <3>2 DEF Wrote, Busy, Ended
      <3>4. Events(x, y)  BY <3>3 DEF Events, States
      <3>5. Believes(x, y) /\ Saves(x, y) /\ Stops(x, y) /\ cancelled' = cancelled
        BY <2>1, <3>1, <3>2, <3>3 DEF Believes, Saves, Stops, Stopped, Chosen, Busy, Ended
      <3>. QED  BY <2>1, <3>2, <3>4, <3>5 DEF Moves
    <2>. QED  BY <2>2, <2>3
  <1>22. CASE NoteFailure(r)
    <2>1. x.phase = "note" /\ Busy(x) /\ x.task \in Tasks
      BY <1>0, <1>22 DEF NoteFailure, At, Place, Busy, Ended
    <2>2. UNCHANGED <<state, report, trace, cancelled, ckpt>> /\ y = [x EXCEPT !.phase = "raised"]
      BY <1>0, <1>22 DEF NoteFailure, WriteFails, Local, store
    <2>3. y.phase = "raised"  BY <1>0, <2>2 DEF Context
    <2>. QED  BY <2>1, <2>2, <2>3 DEF Moves, Events, Believes, Saves, Stops, Stopped, Chosen, Busy, Ended
  <1>23. CASE Die(r)
    <2>1. Busy(x) /\ x.task \in Tasks /\ UNCHANGED store /\ y.phase = "idle"
      BY <1>0, <1>23 DEF Die, Place, Busy, Local, Idle
    <2>. QED  BY <2>1 DEF Moves, Events, Believes, Saves, Stops, Chosen, Busy, Ended, store
  <1>. QED  BY <1>4, <1>5, <1>6, <1>7, <1>8, <1>31, <1>32, <1>33, <1>9, <1>10, <1>11, <1>12, <1>13,
               <1>14, <1>15, <1>16, <1>17, <1>18, <1>19, <1>20, <1>21, <1>22, <1>23
           DEF Advance, Node

\* A run changes its own variables only.
LEMMA OthersStay ==
    ASSUME NEW r \in Runners, Advance(r) \/ Die(r), TypeOK
    PROVE  \A q \in Runners \ {r} : run'[q] = run[q]
  <1>1. run \in [Runners -> Context]  BY DEF TypeOK, Context
  <1>2. \E y : Local(r, y)
    BY DEF Advance, Die, ReadFails, LoadContext, LoadCheckpoints, Node, GuardFails, GuardCancelled, GuardBudget, StartNode,
           AllNodesDone, RejectDiff, NoTransition, Transition, TransitionFails, BadTransition,
           NodeReturns, NodeRaises, SaveNode, RetryNode, GoOn, WriteFails, EventFails, Succeed,
           RecordCancel, RecordFailure, NoteFailure
  <1>. QED  BY <1>1, <1>2 DEF Local


-----------------------------------------------------------------------------
(* Runs of one task that follow one another: the nodes and the trace. *)

Alone == \A q, r \in Runners : q # r /\ Busy(run[q]) /\ Busy(run[r]) => run[q].task # run[r].task

\* A run counts on from the last step of its task's trace.
Ahead(r) == Busy(run[r]) =>
    \A i \in DOMAIN trace[run[r].task] : trace[run[r].task][i].step <= run[r].step

\* Of the nodes from its own one on, a run knows all that have completed.
Fresh(r) == run[r].phase \in Chosen =>
    /\ run[r].node \notin run[r].seen
    /\ \A k \in Completed(run[r].task) : k \in run[r].seen \/ k < run[r].node

Serial == Alone /\ TraceAscends /\ \A r \in Runners : Ahead(r) /\ Fresh(r)

\* The state a run writes for its task, and the event.
LEMMA WroteState ==
    ASSUME Typed, NEW r \in Runners, NEW t \in Tasks, t = run[r].task,
           NEW s \in States, Wrote(run[r], run'[r], s)
    PROVE  /\ state'[t] = s
           /\ \A u \in Tasks \ {t} : state'[u] = state[u] /\ trace'[u] = trace[u]
  <1>1. state \in [Tasks -> States] /\ trace \in [Tasks -> Seq(Event)]  BY DEF Typed, TypeOK, Event
  <1>2. /\ state' = [state EXCEPT ![t] = s]
        /\ \E e : trace' = [trace EXCEPT ![t] = Append(@, e)]
    BY DEF Wrote, Record
  <1>. QED  BY <1>1, <1>2

\* The event itself, at the end of the trace.
LEMMA WroteEvent ==
    ASSUME Typed, NEW r \in Runners, NEW t \in Tasks, t = run[r].task,
           NEW s \in States, Wrote(run[r], run'[r], s)
    PROVE  /\ DOMAIN trace'[t] = DOMAIN trace[t] \cup {Len(trace[t]) + 1}
           /\ Len(trace'[t]) = Len(trace[t]) + 1
           /\ \A i \in DOMAIN trace[t] : trace'[t][i] = trace[t][i]
           /\ trace'[t][Len(trace[t]) + 1] = [step |-> run[r].step + 1, state |-> s]
  <1>. DEFINE n == run[r].step + 1
  <1>1. run[r] \in Context  BY DEF Typed, TypeOK, Context
  <1>2. n \in Nat  BY <1>1 DEF Context
  <1>3. Record(t, n, s)  BY DEF Wrote
  <1>. HIDE DEF n
  <1>4. /\ DOMAIN trace'[t] = DOMAIN trace[t] \cup {Len(trace[t]) + 1}
        /\ Len(trace'[t]) = Len(trace[t]) + 1
        /\ \A i \in DOMAIN trace[t] : trace'[t][i] = trace[t][i]
        /\ trace'[t][Len(trace[t]) + 1] = [step |-> n, state |-> s]
    BY <1>2, <1>3, Recorded DEF Typed
  <1>. QED  BY <1>4 DEF n

\* What a write of the store leaves of the other tasks' trace.
LEMMA EventsElsewhere ==
    ASSUME Typed, NEW r \in Runners, Moves(run[r], run'[r])
    PROVE  \A t \in Tasks : t # run[r].task => trace'[t] = trace[t] /\ state'[t] = state[t]
  <1>1. CASE UNCHANGED <<state, trace, report>>  BY <1>1
  <1>2. ASSUME NEW s \in States, Wrote(run[r], run'[r], s)
        PROVE  \A t \in Tasks : t # run[r].task => trace'[t] = trace[t] /\ state'[t] = state[t]
    <2>1. PICK u \in Tasks : u = run[r].task  BY DEF Moves
    <2>. QED  BY <1>2, <2>1, WroteState
  <1>. QED  BY <1>1, <1>2 DEF Moves, Events

\* And of the other tasks' checkpoints.
LEMMA SavesElsewhere ==
    ASSUME Typed, NEW r \in Runners, Moves(run[r], run'[r])
    PROVE  /\ \A t \in Tasks : t # run[r].task => Completed(t)' = Completed(t)
           /\ \A t \in Tasks : t = run[r].task => \A k \in Completed(t)' :
                 k \in Completed(t) \/ (k = run[r].node /\ run[r].phase = "save")
  <1>. DEFINE x == run[r]
  <1>1. x.task \in Tasks /\ ckpt \in [Tasks -> [Nodes -> {"none", "failed", "completed"}]] /\ x.node \in 0 .. 4
    BY DEF Moves, Typed, TypeOK
  <1>2. \/ UNCHANGED ckpt \/ SaveCheckpoint(x.task, x.node, "failed")
        \/ SaveCheckpoint(x.task, x.node, "completed") /\ x.phase = "save"
    BY DEF Moves, Saves
  <1>3. \A t \in Tasks : t # x.task => ckpt'[t] = ckpt[t]  BY <1>1, <1>2 DEF SaveCheckpoint
  <1>4. \A k \in Nodes : ckpt'[x.task][k] = "completed" =>
            ckpt[x.task][k] = "completed" \/ (k = x.node /\ x.phase = "save")
    <2>1. CASE ckpt' = ckpt  BY <2>1
    <2>2. ASSUME NEW status \in {"failed", "completed"}, SaveCheckpoint(x.task, x.node, status),
                 status = "completed" => x.phase = "save"
          PROVE  \A k \in Nodes : ckpt'[x.task][k] = "completed" =>
                    ckpt[x.task][k] = "completed" \/ (k = x.node /\ x.phase = "save")
      <3>1. ckpt'[x.task] = [ckpt[x.task] EXCEPT ![x.node] = status]
        BY <1>1, <2>2 DEF SaveCheckpoint
      <3>. QED  BY <1>1, <2>2, <3>1
    <2>3. \/ ckpt' = ckpt
          \/ \E status \in {"failed", "completed"} :
                SaveCheckpoint(x.task, x.node, status) /\ (status = "completed" => x.phase = "save")
      BY <1>2
    <2>. QED  BY <2>1, <2>2, <2>3
  <1>. QED  BY <1>3, <1>4 DEF Completed

\* Where a run of its own goes, its node stays fresh.
LEMMA FreshStays ==
    ASSUME Typed, NEW r \in Runners, Moves(run[r], run'[r]), Fresh(r)
    PROVE  Fresh(r)'
  <1>. DEFINE x == run[r]
              y == run'[r]
  <1>01. PICK t \in Tasks : t = x.task  BY DEF Moves
  <1>0. x \in Context /\ ckpt \in [Tasks -> [Nodes -> {"none", "failed", "completed"}]]
    BY DEF Typed, TypeOK, Context
  <1>1. SUFFICES ASSUME y.phase \in Chosen
                 PROVE  /\ y.node \notin y.seen
                        /\ \A k \in Completed(t)' : k \in y.seen \/ k < y.node
    <2>1. y.phase \in Chosen => y.task = t  BY <1>01 DEF Moves, Busy, Ended, Chosen
    <2>2. y.task = t => Completed(run[r].task)' = Completed(t)'  BY DEF Completed
    <2>. QED  BY <2>1, <2>2 DEF Fresh
  <1>2. \A k \in Completed(t)' : k \in Completed(t) \/ (k = x.node /\ x.phase = "save")
    BY <1>01, SavesElsewhere
  <1>3. CASE Same(x, y) /\ x.phase # "save"  BY <1>01, <1>2, <1>3 DEF Same, Fresh
  <1>4. CASE UNCHANGED ckpt /\ Same(x, y)
    <2>1. Completed(t)' = Completed(t)  BY <1>4 DEF Completed
    <2>. QED  BY <1>01, <1>4, <2>1 DEF Same, Fresh
  <1>5. CASE UNCHANGED ckpt /\ Loaded(x, y)
    <2>1. Completed(t)' = Completed(t)  BY <1>5 DEF Completed
    <2>2. Completed(t) \in SUBSET Nodes  BY DEF Completed
    <2>3. y.node \notin y.seen  BY <1>01, <1>5, <2>2, NextNodeFacts DEF Loaded
    <2>. QED  BY <1>01, <1>5, <2>1, <2>3 DEF Loaded
  <1>6. CASE x.phase = "save" /\ y.seen = x.seen /\ y.node = NextNode(x.seen, x.node)
    <2>1. x.node \in Nodes /\ x.seen \in SUBSET Nodes /\ x.node \in 0 .. 3
      BY <1>0, <1>6 DEF Typed, Placed, Place, Ended, Context, Nodes
    <2>2. y.node \in x.node + 1 .. 4 /\ y.node \notin x.seen  BY <1>6, <2>1, NextNodeFacts
    <2>3. \A k \in Completed(t) : k \in x.seen \/ k < x.node  BY <1>01, <1>6 DEF Fresh, Chosen
    <2>4. Completed(t) \subseteq Nodes  BY DEF Completed
    <2>5. \A k \in Completed(t)' : k \in x.seen \/ k < y.node
      BY <1>2, <2>1, <2>2, <2>3, <2>4 DEF Nodes
    <2>. QED  BY <1>6, <2>2, <2>5
  <1>. QED  BY <1>1, <1>3, <1>4, <1>5, <1>6 DEF Moves, Saves

\* A step of a run keeps the order.
LEMMA SerialMoves ==
    ASSUME Typed, Serial, NEW r \in Runners, Advance(r) \/ Die(r), UNCHANGED runs
    PROVE  Serial'
  <1>. DEFINE x == run[r]
              y == run'[r]
  <1>0. /\ Moves(x, y) /\ Busy(x) /\ x.task \in Tasks /\ x.step \in Nat /\ x.step + 1 \in Nat
        /\ Busy(y) => y.task = x.task /\ y.step \in Nat /\ y.step >= x.step
    <2>1. Moves(x, y)  BY StepMoves
    <2>2. y \in Context  BY AdvanceTyped DEF Typed, TypeOK, Context
    <2>. QED  BY <2>1, <2>2 DEF Moves, Typed, TypeOK, Context
  <1>1. \A q \in Runners \ {r} : run'[q] = run[q]  BY OthersStay DEF Typed
  <1>2. \A q \in Runners \ {r} : Busy(run[q]) => run[q].task # x.task /\ run[q].task \in Tasks
    BY <1>0 DEF Serial, Alone, Typed, Placed, Place, Busy
  <1>3. Alone'
    <2>1. \A q \in Runners \ {r} : Busy(run'[q]) /\ Busy(y) => run'[q].task # y.task
      BY <1>0, <1>1, <1>2
    <2>2. \A p, q \in Runners \ {r} : p # q /\ Busy(run'[p]) /\ Busy(run'[q]) => run'[p].task # run'[q].task
      BY <1>1 DEF Serial, Alone
    <2>. QED  BY <2>1, <2>2 DEF Alone, Busy
  <1>4. /\ \A i \in DOMAIN trace[x.task] : trace[x.task][i].step <= x.step
        /\ DOMAIN trace[x.task] = 1 .. Len(trace[x.task]) /\ Len(trace[x.task]) \in Nat
        /\ \A i \in DOMAIN trace[x.task] : trace[x.task][i].step \in Nat
    <2>1. trace[x.task] \in Seq(Event)  BY <1>0 DEF Typed, TypeOK, Event
    <2>2. \A i \in DOMAIN trace[x.task] : trace[x.task][i] \in Event  BY <2>1
    <2>. QED  BY <1>0, <2>1, <2>2 DEF Serial, Ahead, Event
  <1>5. \/ trace' = trace
        \/ \E s \in States : Wrote(x, y, s)
    BY <1>0 DEF Moves, Events
  <1>6. ASSUME NEW s \in States, Wrote(x, y, s)
        PROVE  /\ DOMAIN trace'[x.task] = DOMAIN trace[x.task] \cup {Len(trace[x.task]) + 1}
               /\ Len(trace'[x.task]) = Len(trace[x.task]) + 1
               /\ \A i \in DOMAIN trace[x.task] : trace'[x.task][i] = trace[x.task][i]
               /\ trace'[x.task][Len(trace[x.task]) + 1].step = x.step + 1
               /\ Busy(y) => y.step = x.step + 1
    <2>1. PICK u \in Tasks : u = x.task  BY <1>0
    <2>2. Busy(y) => y.step = x.step + 1  BY <1>6 DEF Wrote
    <2>3. /\ DOMAIN trace'[u] = DOMAIN trace[u] \cup {Len(trace[u]) + 1}
          /\ Len(trace'[u]) = Len(trace[u]) + 1
          /\ \A i \in DOMAIN trace[u] : trace'[u][i] = trace[u][i]
          /\ trace'[u][Len(trace[u]) + 1] = [step |-> x.step + 1, state |-> s]
      BY <1>6, <2>1, WroteEvent
    <2>. QED  BY <2>1, <2>2, <2>3
  <1>7. Ahead(r)'
    <2>1. CASE trace' = trace
      <3>1. ASSUME Busy(y), NEW i \in DOMAIN trace[x.task] PROVE trace[x.task][i].step <= y.step
        <4>1. /\ trace[x.task][i].step <= x.step /\ trace[x.task][i].step \in Nat
              /\ x.step <= y.step /\ y.step \in Nat
          BY <1>0, <1>4, <3>1
        <4>. QED  BY <1>0, <4>1
      <3>. QED  BY <1>0, <2>1, <3>1 DEF Ahead
    <2>2. ASSUME NEW s \in States, Wrote(x, y, s) PROVE Ahead(r)'
      <3>. DEFINE n == Len(trace[x.task]) + 1
                  old == trace[x.task]
                  new == trace'[x.task]
      <3>1. /\ DOMAIN new = DOMAIN old \cup {n} /\ new[n].step = x.step + 1
            /\ \A i \in DOMAIN old : new[i] = old[i]
            /\ \A i \in DOMAIN old : old[i].step <= x.step /\ old[i].step \in Nat
        BY <1>4, <1>6, <2>2
      <3>. HIDE DEF n, old
      <3>2. \A i \in DOMAIN new : new[i].step <= x.step + 1  BY <1>0, <3>1
      <3>. QED  BY <1>0, <1>6, <2>2, <3>2 DEF Ahead
    <2>. QED  BY <1>5, <2>1, <2>2
  <1>8. \A q \in Runners \ {r} : Ahead(q)' /\ Fresh(q)'
    <2>. SUFFICES ASSUME NEW q \in Runners \ {r} PROVE Ahead(q)' /\ Fresh(q)'  OBVIOUS
    <2>0. run'[q] = run[q]  BY <1>1
    <2>1. ASSUME Busy(run[q])
          PROVE  trace'[run[q].task] = trace[run[q].task] /\ Completed(run[q].task)' = Completed(run[q].task)
      <3>1. PICK u \in Tasks : u = run[q].task /\ u # x.task  BY <1>2, <2>1
      <3>2. trace'[u] = trace[u] /\ Completed(u)' = Completed(u)
        BY <1>0, <3>1, EventsElsewhere, SavesElsewhere
      <3>3. Completed(run[q].task)' = Completed(u)'  BY <2>0, <3>1 DEF Completed
      <3>. QED  BY <3>1, <3>2, <3>3
    <2>2. run[q].phase \in Chosen => Busy(run[q])  BY DEF Busy, Chosen, Ended
    <2>3. Ahead(q) /\ Fresh(q)  BY DEF Serial
    <2>. QED  BY <2>0, <2>1, <2>2, <2>3 DEF Ahead, Fresh, Busy
  <1>9. Fresh(r)'
    <2>1. Fresh(r)'  BY <1>0, FreshStays DEF Serial
    <2>. QED  BY <2>1
  <1>10. TraceAscends'
    <2>. SUFFICES ASSUME NEW t \in Tasks, NEW i \in 1 .. Len(trace'[t]) - 1
                  PROVE  trace'[t][i].step < trace'[t][i + 1].step
      BY DEF TraceAscends
    <2>1. CASE trace'[t] = trace[t]  BY <2>1 DEF Serial, TraceAscends
    <2>2. CASE t = x.task /\ \E s \in States : Wrote(x, y, s)
      <3>. DEFINE n == Len(trace[x.task])
      <3>1. /\ n \in Nat /\ i \in 1 .. n /\ DOMAIN trace[t] = 1 .. n /\ i \in DOMAIN trace[t]
        BY <1>4, <1>6, <2>2
      <3>2. trace'[t][i] = trace[t][i] /\ trace'[t][n + 1].step = x.step + 1  BY <1>6, <2>2, <3>1
      <3>3. CASE i = n  BY <1>0, <1>4, <2>2, <3>1, <3>2, <3>3
      <3>4. CASE i # n
        <4>1. i \in 1 .. n - 1 /\ i + 1 \in DOMAIN trace[t]  BY <3>1, <3>4
        <4>2. trace'[t][i + 1] = trace[t][i + 1]  BY <1>6, <2>2, <4>1
        <4>. QED  BY <2>2, <3>2, <4>1, <4>2 DEF Serial, TraceAscends
      <3>. QED  BY <3>3, <3>4
    <2>. QED  BY <1>0, <1>5, <2>1, <2>2, EventsElsewhere
  <1>. QED  BY <1>3, <1>7, <1>8, <1>9, <1>10 DEF Serial

\* A run begins alone, above its task's trace and before its first node.
LEMMA SerialBegins ==
    ASSUME Exclusive, Typed, Serial, NEW r \in Runners, NEW t \in Tasks, Begin(r, t)
    PROVE  Serial'
  <1>1. /\ UNCHANGED <<store, upsets>> /\ ~InRun(t)
        /\ \A q \in Runners \ {r} : run'[q] = run[q]
        /\ run'[r] = IF Finished(t) THEN [Idle EXCEPT !.phase = "returned", !.task = t]
                                    ELSE [Idle EXCEPT !.phase = "begun", !.task = t, !.step = LastStep(t)]
    BY DEF Begin, Enter, Local, Typed, TypeOK
  <1>2. /\ run'[r].phase \in {"returned", "begun"} /\ run'[r].task = t
        /\ Busy(run'[r]) => run'[r].step = LastStep(t)
    BY <1>1 DEF Idle, Busy, Ended
  <1>3. Alone'
    <2>1. \A q \in Runners \ {r} : Busy(run'[q]) => run'[q].task # t  BY <1>1 DEF InRun, Busy
    <2>2. \A p, q \in Runners \ {r} : p # q /\ Busy(run'[p]) /\ Busy(run'[q]) => run'[p].task # run'[q].task
      BY <1>1 DEF Serial, Alone
    <2>. QED  BY <1>2, <2>1, <2>2 DEF Alone, Busy
  <1>4. Ahead(r)'
    BY <1>1, <1>2, LastStepFacts DEF Ahead, Busy, store, Typed
  <1>5. Fresh(r)'  BY <1>2 DEF Fresh, Chosen
  <1>6. \A q \in Runners \ {r} : Ahead(q)' /\ Fresh(q)'
    BY <1>1 DEF Serial, Ahead, Fresh, Completed, store, Busy
  <1>7. TraceAscends'  BY <1>1 DEF Serial, TraceAscends, store
  <1>. QED  BY <1>3, <1>4, <1>5, <1>6, <1>7 DEF Serial

\* When the callers run one task one run at a time, the order holds throughout.
THEOREM SerialHolds == Exclusive /\ Spec => []Serial
  <1>1. Init => Serial
    BY DEF Init, StoreInit, Serial, Alone, TraceAscends, Ahead, Fresh, Busy, Idle, Ended, Chosen
  <1>2. Exclusive /\ Typed /\ Serial /\ [Next]_vars => Serial'
    <2>. SUFFICES ASSUME Exclusive, Typed, Serial, [Next]_vars PROVE Serial'  OBVIOUS
    <2>1. ASSUME NEW t \in Tasks, RequestCancel(t) PROVE Serial'
      BY <2>1 DEF RequestCancel, Serial, Alone, TraceAscends, Ahead, Fresh, Completed, Busy
    <2>2. CASE UNCHANGED vars
      BY <2>2 DEF vars, store, Serial, Alone, TraceAscends, Ahead, Fresh, Completed, Busy
    <2>. QED  BY <2>1, <2>2, SerialMoves, SerialBegins DEF Next
  <1>3. CASE Exclusive
    <2>1. Typed /\ Serial /\ [Next]_vars => Serial'  BY <1>2, <1>3
    <2>2. Spec => []Serial  BY <1>1, <2>1, TypedHolds, PTL DEF Spec
    <2>. QED  BY <2>2
  <1>4. CASE ~Exclusive  BY <1>4
  <1>. QED  BY <1>3, <1>4

\* A completed node is never executed again, whatever fails, dies or is cancelled
\* between the runs of its task (runtime.py, the checkpoints of execute).
THEOREM NodesRunOnce == Exclusive /\ Spec => []CompletedNeverRerun
  <1>1. Typed /\ Serial => CompletedNeverRerun
    <2>. SUFFICES ASSUME Typed, Serial, NEW r \in Runners,
                         run[r].phase \in {"handler", "body", "save", "redo"}
                  PROVE  ckpt[run[r].task][run[r].node] # "completed"
      BY DEF CompletedNeverRerun
    <2>1. run[r].node \in 1 .. 3 /\ run[r].node \in Nodes
      BY DEF Typed, Placed, Place, Ended, Nodes
    <2>2. run[r].node \notin Completed(run[r].task)  BY <2>1 DEF Serial, Fresh, Chosen
    <2>. QED  BY <2>1, <2>2 DEF Completed
  <1>2. CASE Exclusive
    <2>1. Exclusive /\ Spec => []Serial  BY SerialHolds
    <2>2. Spec => []Serial  BY <1>2, <2>1
    <2>3. Spec => []CompletedNeverRerun  BY <1>1, <2>2, TypedHolds, PTL
    <2>. QED  BY <2>3
  <1>3. CASE ~Exclusive  BY <1>3
  <1>. QED  BY <1>2, <1>3

\* The trace of a task counts upwards through all its runs (harness.py, _ctx.step).
THEOREM TracesAscend == Exclusive /\ Spec => []TraceAscends
  <1>1. Serial => TraceAscends  BY DEF Serial
  <1>2. CASE Exclusive
    <2>1. Exclusive /\ Spec => []Serial  BY SerialHolds
    <2>2. Spec => []Serial  BY <1>2, <2>1
    <2>3. Spec => []TraceAscends  BY <1>1, <2>2, PTL
    <2>. QED  BY <2>3
  <1>3. CASE ~Exclusive  BY <1>3
  <1>. QED  BY <1>2, <1>3


-----------------------------------------------------------------------------
(* Runs of one task that follow one another: what is over. *)

\* No run is under way on a task that has succeeded, and a cancelled task has a
\* node left that no run of it will pass the guard of.
Over(r) == Busy(run[r]) =>
    /\ state[run[r].task] # "SUCCESS"
    /\ state[run[r].task] = "CANCELLED" => Stopped(run[r])
    /\ run[r].phase = "cancel" => run[r].task \in cancelled
Finals ==
    /\ \A t \in Tasks : state[t] = "SUCCESS" => t \in report
    /\ \A t \in Tasks : state[t] = "CANCELLED" => t \in cancelled /\ Nodes \ Completed(t) # {}
    /\ \A r \in Runners : Over(r)

\* What a step of a run does to the state of its own task.
LEMMA StateMoves ==
    ASSUME Typed, Serial, Finals, NEW r \in Runners, Moves(run[r], run'[r]), NEW t \in Tasks, t = run[r].task
    PROVE  /\ state[t] # "SUCCESS"
           /\ state'[t] = "SUCCESS" => t \in report' /\ ~Busy(run'[r])
           /\ state'[t] = "CANCELLED" => Nodes \ Completed(t)' # {} /\ t \in cancelled'
           /\ state'[t] = "CANCELLED" /\ Busy(run'[r]) => Stopped(run'[r])
           /\ state[t] = "CANCELLED" =>
                 state'[t] = "CANCELLED" \/ (state'[t] = "FAILED" /\ run[r].phase = "unread")
  <1>. DEFINE x == run[r]
              y == run'[r]
  <1>0. /\ Busy(x) /\ state[t] # "SUCCESS" /\ (state[t] = "CANCELLED" => Stopped(x))
        /\ (x.phase = "cancel" => t \in cancelled) /\ Over(r)
    BY DEF Moves, Finals, Over
  <1>1. Events(x, y) /\ Saves(x, y) /\ Stops(x, y) /\ cancelled' = cancelled  BY DEF Moves
  <1>2. CASE state[t] = "CANCELLED"
    <2>1. Stopped(x) /\ x.task \in cancelled /\ Nodes \ Completed(t) # {}  BY <1>0, <1>2 DEF Finals
    <2>2. UNCHANGED ckpt /\ (y.phase = "node" => Loaded(x, y))
      BY <1>1, <2>1 DEF Stops
    <2>3. Completed(t)' = Completed(t)  BY <2>2 DEF Completed
    <2>4. state'[t] = "CANCELLED" \/ (state'[t] = "FAILED" /\ x.phase = "unread")
      <3>1. CASE UNCHANGED <<state, trace, report>>  BY <1>2, <3>1
      <3>2. ASSUME NEW s \in States, Wrote(x, y, s)
            PROVE  state'[t] = "CANCELLED" \/ (state'[t] = "FAILED" /\ x.phase = "unread")
        <4>1. s = "CANCELLED" \/ (s = "FAILED" /\ x.phase = "unread")  BY <2>1, <3>2 DEF Wrote, Stopped
        <4>2. state'[t] = s  BY <3>2, WroteState
        <4>. QED  BY <4>1, <4>2
      <3>. QED  BY <1>1, <3>1, <3>2 DEF Events
    <2>7. ASSUME state'[t] = "CANCELLED", Busy(y) PROVE y.phase \in {"context", "node", "cancel", "unread"}
      <3>1. ASSUME Wrote(x, y, "FAILED") PROVE FALSE
        <4>1. "FAILED" \in States  BY DEF States
        <4>2. state'[t] = "FAILED"  BY <3>1, <4>1, WroteState
        <4>. QED  BY <2>7, <4>2
      <3>. QED  BY <1>1, <2>1, <2>7, <3>1 DEF Stops
    <2>5. ASSUME y.phase = "node" PROVE y.node # 4
      <3>1. Completed(t) \in SUBSET Nodes  BY DEF Completed
      <3>2. y.node = NextNode(Completed(t), 0)  BY <2>2, <2>5 DEF Loaded
      <3>3. 0 + 1 .. y.node - 1 \subseteq Completed(t)  BY <3>1, <3>2, NextNodeFacts
      <3>4. y.node = 4 => Nodes \subseteq Completed(t)  BY <3>3 DEF Nodes
      <3>. QED  BY <2>1, <3>4
    <2>6. state'[t] = "CANCELLED" /\ Busy(y) => Stopped(y)  BY <2>5, <2>7 DEF Stopped
    <2>. QED  BY <1>0, <1>1, <1>2, <2>1, <2>3, <2>4, <2>6
  <1>3. CASE state[t] # "CANCELLED"
    <2>1. CASE UNCHANGED <<state, trace, report>>  BY <1>0, <1>3, <2>1
    <2>2. ASSUME NEW s \in States, Wrote(x, y, s)
          PROVE  /\ state'[t] = "SUCCESS" => t \in report' /\ ~Busy(y)
                 /\ state'[t] = "CANCELLED" => Nodes \ Completed(t)' # {} /\ t \in cancelled' /\ ~Busy(y)
      <3>2. state'[t] = s  BY <2>2, WroteState
      <3>3. s = "SUCCESS" => t \in report' /\ ~Busy(y)
        <4>1. \A k \in Nodes : Stages[k] # "SUCCESS"  BY DEF Nodes, Stages
        <4>. QED  BY <2>2, <4>1 DEF Wrote
      <3>4. s = "CANCELLED" => x.phase = "cancel" /\ ~Busy(y)
        <4>1. \A k \in Nodes : Stages[k] # "CANCELLED"  BY DEF Nodes, Stages
        <4>. QED  BY <2>2, <4>1 DEF Wrote
      <3>5. ASSUME x.phase = "cancel" PROVE Nodes \ Completed(t)' # {}
        <4>1. x.node \in Nodes  BY <3>5 DEF Typed, Placed, Place, Ended
        <4>2. x.node \in 1 .. 3 /\ x.node \notin Completed(t)  BY <3>5, <4>1 DEF Serial, Fresh, Chosen, Nodes
        <4>3. x.node \notin Completed(t)'  BY <3>5, <4>2, SavesElsewhere
        <4>. QED  BY <4>1, <4>3
      <3>. QED  BY <1>0, <1>1, <3>2, <3>3, <3>4, <3>5
    <2>. QED  BY <1>0, <1>1, <1>3, <2>1, <2>2 DEF Events
  <1>. QED  BY <1>2, <1>3

\* A step of a run leaves every task that is over as it is.
LEMMA FinalMoves ==
    ASSUME Typed, Serial, Finals, NEW r \in Runners, Advance(r) \/ Die(r)
    PROVE  /\ Finals'
           /\ \A t \in Tasks : /\ state[t] = "SUCCESS" => state'[t] = "SUCCESS" /\ t \in report'
                               /\ state[t] = "CANCELLED" =>
                                     \/ state'[t] = "CANCELLED"
                                     \/ state'[t] = "FAILED" /\ Unreadable(t)
  <1>. DEFINE x == run[r]
              y == run'[r]
  <1>1. Moves(x, y)  BY StepMoves
  <1>2. PICK t \in Tasks : t = x.task  BY <1>1 DEF Moves
  <1>3. \A q \in Runners \ {r} : run'[q] = run[q]  BY OthersStay DEF Typed
  <1>4. \A q \in Runners \ {r} : Busy(run[q]) => run[q].task # t
    BY <1>1, <1>2 DEF Serial, Alone, Moves
  <1>5. \A u \in Tasks \ {t} : state'[u] = state[u] /\ Completed(u)' = Completed(u)
    BY <1>1, <1>2, EventsElsewhere, SavesElsewhere
  <1>6. cancelled' = cancelled /\ (Busy(y) => y.task = t) /\ (y.phase = "cancel" => t \in cancelled)
        /\ report \subseteq report'
    BY <1>1, <1>2 DEF Moves, Events, Wrote
  <1>7. /\ state[t] # "SUCCESS"
        /\ state'[t] = "SUCCESS" => t \in report' /\ ~Busy(y)
        /\ state'[t] = "CANCELLED" => Nodes \ Completed(t)' # {} /\ t \in cancelled'
        /\ state'[t] = "CANCELLED" /\ Busy(y) => Stopped(y)
        /\ state[t] = "CANCELLED" =>
              state'[t] = "CANCELLED" \/ (state'[t] = "FAILED" /\ x.phase = "unread")
    BY <1>1, <1>2, StateMoves
  <1>8. Over(r)'  BY <1>6, <1>7 DEF Over
  <1>9. ASSUME NEW q \in Runners \ {r} PROVE Over(q)'
    <2>1. run'[q] = run[q] /\ Over(q)  BY <1>3 DEF Finals
    <2>2. Busy(run[q]) => state'[run[q].task] = state[run[q].task]
      <3>1. Busy(run[q]) => run[q].task \in Tasks  BY DEF Typed, Placed, Place, Busy
      <3>. QED  BY <1>4, <1>5, <3>1
    <2>. QED  BY <1>6, <2>1, <2>2 DEF Over
  <1>10. \A u \in Tasks : state'[u] = "SUCCESS" => u \in report'
    BY <1>5, <1>6, <1>7 DEF Finals
  <1>11. \A u \in Tasks : state'[u] = "CANCELLED" => u \in cancelled' /\ Nodes \ Completed(u)' # {}
    BY <1>5, <1>6, <1>7 DEF Finals
  <1>12. Finals'
    <2>1. \A q \in Runners : Over(q)'  BY <1>8, <1>9
    <2>2. \A u \in Tasks : state'[u] = "CANCELLED" => u \in cancelled' /\ Nodes \ Completed(u)' # {}
      BY <1>11
    <2>. QED  BY <1>10, <2>1, <2>2 DEF Finals
  <1>13. x.phase = "unread" => Unreadable(t)  BY <1>2 DEF Unreadable, At
  <1>. QED  BY <1>5, <1>6, <1>7, <1>12, <1>13 DEF Finals

\* A run that begins finds its task unfinished, or returns its report.
LEMMA FinalBegins ==
    ASSUME Exclusive, Typed, Finals, NEW r \in Runners, NEW t \in Tasks, Begin(r, t)
    PROVE  Finals' /\ UNCHANGED <<state, report>>
  <1>1. /\ UNCHANGED <<store, upsets>>
        /\ \A q \in Runners \ {r} : run'[q] = run[q]
        /\ run'[r] = IF Finished(t) THEN [Idle EXCEPT !.phase = "returned", !.task = t]
                                    ELSE [Idle EXCEPT !.phase = "begun", !.task = t, !.step = LastStep(t)]
    BY DEF Begin, Enter, Local, Typed, TypeOK
  <1>2. /\ run'[r].task = t
        /\ IF Finished(t) THEN run'[r].phase = "returned" ELSE run'[r].phase = "begun"
    BY <1>1 DEF Idle
  <1>3. Over(r)'
    BY <1>1, <1>2 DEF Over, Stopped, Busy, Ended, Finished, Finals, store
  <1>4. \A q \in Runners \ {r} : Over(q)'  BY <1>1 DEF Over, Finals, store
  <1>5. \A u \in Tasks : Completed(u)' = Completed(u)  BY <1>1 DEF Completed, store
  <1>. QED  BY <1>1, <1>3, <1>4, <1>5 DEF Finals, store

\* A task that has succeeded keeps its state and its report, and one that was
\* cancelled stays cancelled: nothing begun later goes past them, but for a run
\* that fails to read the store before its guard has answered (harness.py, run).
THEOREM FinalsStay == Exclusive /\ Spec => FinalStays
  <1>1. Init => Finals
    BY DEF Init, StoreInit, Finals, Over, Busy, Idle, Ended
  <1>. DEFINE Kept == \A t \in Tasks :
                 /\ state[t] = "SUCCESS" => state'[t] = "SUCCESS" /\ t \in report'
                 /\ state[t] = "CANCELLED" =>
                       state'[t] = "CANCELLED" \/ (state'[t] = "FAILED" /\ Unreadable(t))
  <1>2. Exclusive /\ Typed /\ Serial /\ Finals /\ [Next]_vars => Finals' /\ Kept
    <2>. SUFFICES ASSUME Exclusive, Typed, Serial, Finals, [Next]_vars PROVE Finals' /\ Kept  OBVIOUS
    <2>0. ASSUME UNCHANGED <<state, report>> PROVE Kept  BY <2>0 DEF Finals
    <2>1. ASSUME NEW t \in Tasks, RequestCancel(t) PROVE Finals' /\ Kept
      <3>1. \A u \in Tasks : Completed(u)' = Completed(u)  BY <2>1 DEF RequestCancel, Completed
      <3>. QED  BY <2>0, <2>1, <3>1 DEF RequestCancel, Finals, Over
    <2>2. CASE UNCHANGED vars
      <3>1. \A u \in Tasks : Completed(u)' = Completed(u)  BY <2>2 DEF vars, store, Completed
      <3>. QED  BY <2>0, <2>2, <3>1 DEF vars, store, Finals, Over
    <2>3. ASSUME NEW r \in Runners, NEW t \in Tasks, Begin(r, t) PROVE Finals' /\ Kept
      BY <2>0, <2>3, FinalBegins
    <2>4. ASSUME NEW r \in Runners, Advance(r) \/ Die(r) PROVE Finals' /\ Kept
      BY <2>4, FinalMoves
    <2>. QED  BY <2>1, <2>2, <2>3, <2>4 DEF Next
  <1>3. CASE Exclusive
    <2>1. Exclusive /\ Spec => []Serial  BY SerialHolds
    <2>2. Spec => []Serial  BY <1>3, <2>1
    <2>3. Typed /\ Serial /\ Finals /\ [Next]_vars => Finals' /\ Kept  BY <1>2, <1>3
    <2>. HIDE DEF Kept
    <2>4. Spec => [][Kept]_vars  BY <1>1, <2>2, <2>3, TypedHolds, PTL DEF Spec
    <2>. QED  BY <2>4 DEF Kept, FinalStays
  <1>4. CASE ~Exclusive  BY <1>4
  <1>. QED  BY <1>3, <1>4

-----------------------------------------------------------------------------
(* Runs that overlap, when writes are reliable: the stages. *)

Shown(t, s) == \E j \in DOMAIN trace[t] : trace[t][j].state = s

\* A run's own state is in the trace, and so are the stages of the nodes it has
\* passed or knows to have completed.
Backed(r) == Busy(run[r]) =>
    /\ run[r].ctx # "PENDING" => Shown(run[r].task, run[r].ctx)
    /\ run[r].phase \in Chosen => \A k \in Nodes :
          k \in run[r].seen \/ k < run[r].node => Shown(run[r].task, Stages[k])
    /\ run[r].phase = "finish" => run[r].node = 4
Staged ==
    /\ StagesInOrder
    /\ \A t \in Tasks : \A k \in Completed(t) : Shown(t, Stages[k])
    /\ \A r \in Runners : Backed(r)

\* The table ALLOWED lets a stage follow one state only.
LEMMA OneBefore ==
    /\ \A a, b \in States \ Final, s \in States \ {"FAILED", "CANCELLED"} :
          s \in Allowed[a] /\ s \in Allowed[b] => a = b
    /\ \A a \in States \ Final : "SUCCESS" \in Allowed[a] => a = "REVIEWING"
  <1>1. /\ Allowed["PENDING"] = {"FAILED", "CANCELLED", "PLANNING"}
        /\ Allowed["PLANNING"] = {"FAILED", "CANCELLED", "EXECUTING"}
        /\ Allowed["EXECUTING"] = {"FAILED", "CANCELLED", "REVIEWING"}
        /\ Allowed["REVIEWING"] = {"FAILED", "CANCELLED", "SUCCESS"}
    BY DEF Allowed
  <1>2. States \ Final = {"PENDING", "PLANNING", "EXECUTING", "REVIEWING"}  BY DEF States, Final
  <1>. QED  BY <1>1, <1>2

\* What is in a trace stays in it, and what is written is in it.
LEMMA ShownStays ==
    ASSUME Typed, NEW r \in Runners, Moves(run[r], run'[r]), NEW t \in Tasks
    PROVE  /\ \A s : Shown(t, s) => Shown(t, s)'
           /\ \A s \in States : t = run[r].task /\ Wrote(run[r], run'[r], s) => Shown(t, s)'
  <1>1. ASSUME trace'[t] = trace[t], NEW s, Shown(t, s) PROVE Shown(t, s)'
    BY <1>1 DEF Shown
  <1>2. ASSUME t = run[r].task, NEW s \in States, Wrote(run[r], run'[r], s)
        PROVE  Shown(t, s)' /\ \A u : Shown(t, u) => Shown(t, u)'
    <2>. DEFINE n == Len(trace[t]) + 1
    <2>1. /\ DOMAIN trace'[t] = DOMAIN trace[t] \cup {n}
          /\ \A i \in DOMAIN trace[t] : trace'[t][i] = trace[t][i]
          /\ trace'[t][n] = [step |-> run[r].step + 1, state |-> s]
      BY <1>2, WroteEvent
    <2>2. trace'[t][n].state = s  BY <2>1
    <2>. HIDE DEF n
    <2>. QED  BY <2>1, <2>2 DEF Shown
  <1>3. t # run[r].task => trace'[t] = trace[t]  BY EventsElsewhere
  <1>4. trace' = trace \/ \E s \in States : Wrote(run[r], run'[r], s)  BY DEF Moves, Events
  <1>. QED  BY <1>1, <1>2, <1>3, <1>4

\* A step of a run that writes reliably keeps the stages in order.
LEMMA StagedMoves ==
    ASSUME ~WriteFaults, Typed, Staged, NEW r \in Runners, Advance(r) \/ Die(r), UNCHANGED runs
    PROVE  Staged'
  <1>. DEFINE x == run[r]
              y == run'[r]
  <1>1. Moves(x, y)  BY StepMoves
  <1>2. PICK t \in Tasks : t = x.task  BY <1>1 DEF Moves
  <1>3. \A q \in Runners \ {r} : run'[q] = run[q]  BY OthersStay DEF Typed
  <1>4. x \in Context /\ Busy(x) /\ (Busy(y) => y.task = t) /\ Backed(r)
    BY <1>1, <1>2 DEF Moves, Typed, TypeOK, Context, Staged
  <1>5. \A u \in Tasks : \A s : Shown(u, s) => Shown(u, s)'  BY <1>1, ShownStays
  <1>6. \A s \in States : Wrote(x, y, s) => Shown(t, s)'  BY <1>1, <1>2, ShownStays
  <1>7. x.phase = "save" => x.node \in Nodes /\ Shown(t, Stages[x.node])
    <2>1. ASSUME x.phase = "save" PROVE x.node \in Nodes /\ x.ctx = Stages[x.node]
      BY <2>1 DEF Typed, Placed, Place, Ended
    <2>2. \A k \in Nodes : Stages[k] # "PENDING"  BY DEF Nodes, Stages
    <2>. QED  BY <1>2, <1>4, <2>1, <2>2 DEF Backed
  <1>8. \A u \in Tasks : \A k \in Completed(u)' : Shown(u, Stages[k])'
    <2>. SUFFICES ASSUME NEW u \in Tasks, NEW k \in Completed(u)' PROVE Shown(u, Stages[k])'  OBVIOUS
    <2>1. k \in Completed(u) \/ (u = t /\ k = x.node /\ x.phase = "save")
      BY <1>1, <1>2, SavesElsewhere
    <2>2. CASE k \in Completed(u)  BY <1>5, <2>2 DEF Staged
    <2>3. CASE u = t /\ k = x.node /\ x.phase = "save"  BY <1>5, <1>7, <2>3
    <2>. QED  BY <2>1, <2>2, <2>3
  <1>9. \A k \in Completed(t) : Shown(t, Stages[k])'  BY <1>5 DEF Staged
  <1>10. ASSUME Busy(y), NEW c \in States \ Final, c = y.ctx, c # "PENDING" PROVE Shown(t, c)'
    <2>1. \/ c = x.ctx \/ \E k \in Completed(t) : c = Stages[k]
          \/ \E s \in States : Wrote(x, y, s) /\ c = s
      BY <1>1, <1>2, <1>10 DEF Moves, Believes
    <2>2. CASE c = x.ctx  BY <1>2, <1>4, <1>5, <1>10, <2>2 DEF Backed
    <2>3. CASE c # x.ctx  BY <1>6, <1>9, <2>1, <2>3
    <2>. QED  BY <2>2, <2>3
  <1>11. ASSUME y.phase \in Chosen, NEW k \in Nodes, k \in y.seen \/ k < y.node PROVE Shown(t, Stages[k])'
    <2>1. \/ Same(x, y) \/ Loaded(x, y)
          \/ x.phase = "save" /\ y.seen = x.seen /\ y.node = NextNode(x.seen, x.node)
      BY <1>1, <1>11 DEF Moves, Saves
    <2>2. CASE Same(x, y)
      <3>1. Shown(t, Stages[k])  BY <1>2, <1>4, <1>11, <2>2 DEF Same, Backed
      <3>. QED  BY <1>5, <3>1
    <2>3. CASE Loaded(x, y)
      <3>1. Completed(t) \in SUBSET Nodes  BY DEF Completed
      <3>2. y.seen = Completed(t) /\ y.node = NextNode(Completed(t), 0)  BY <1>2, <2>3 DEF Loaded
      <3>3. y.node \in 1 .. 4 /\ 0 + 1 .. y.node - 1 \subseteq Completed(t)  BY <3>1, <3>2, NextNodeFacts
      <3>4. k \in Completed(t)  BY <1>11, <3>2, <3>3 DEF Nodes
      <3>. QED  BY <1>9, <3>4
    <2>4. CASE x.phase = "save" /\ y.seen = x.seen /\ y.node = NextNode(x.seen, x.node)
      <3>1. x.node \in 1 .. 3 /\ x.node \in 0 .. 3 /\ x.seen \in SUBSET Nodes
        BY <1>4, <1>7, <2>4 DEF Nodes, Context
      <3>2. y.node \in x.node + 1 .. 4 /\ x.node + 1 .. y.node - 1 \subseteq x.seen
        BY <2>4, <3>1, NextNodeFacts
      <3>3. k \in x.seen \/ k < x.node \/ k = x.node  BY <1>11, <2>4, <3>1, <3>2 DEF Nodes
      <3>4. Shown(t, Stages[k])  BY <1>2, <1>4, <1>7, <2>4, <3>3 DEF Backed, Chosen
      <3>. QED  BY <1>5, <3>4
    <2>. QED  BY <2>1, <2>2, <2>3, <2>4
  <1>12. Backed(r)'
    <2>. SUFFICES ASSUME Busy(y) PROVE Backed(r)'  BY DEF Backed
    <2>1. y \in Context  BY AdvanceTyped DEF Typed, TypeOK, Context
    <2>2. PICK c \in States \ Final : c = y.ctx  BY <2>1 DEF Context
    <2>3. c # "PENDING" => Shown(t, c)'  BY <1>10, <2>2
    <2>4. y.task = t  BY <1>4
    <2>5. y.phase = "finish" => y.node = 4  BY <1>1 DEF Moves
    <2>. QED  BY <1>11, <2>2, <2>3, <2>4, <2>5 DEF Backed, Shown
  <1>13. ASSUME NEW q \in Runners \ {r} PROVE Backed(q)'
    <2>. SUFFICES ASSUME Busy(run[q]) PROVE Backed(q)'  BY <1>3 DEF Backed
    <2>1. PICK u \in Tasks : u = run[q].task  BY DEF Typed, Placed, Place, Busy
    <2>2. PICK c \in States \ Final : c = run[q].ctx  BY DEF Typed, TypeOK
    <2>3. c # "PENDING" => Shown(u, c)'  BY <1>5, <2>1, <2>2 DEF Staged, Backed
    <2>4. ASSUME run[q].phase \in Chosen, NEW k \in Nodes, k \in run[q].seen \/ k < run[q].node
          PROVE  Shown(u, Stages[k])'
      <3>1. Shown(u, Stages[k])  BY <2>1, <2>4 DEF Staged, Backed
      <3>. QED  BY <1>5, <3>1
    <2>5. run[q].phase = "finish" => run[q].node = 4  BY DEF Staged, Backed
    <2>. QED  BY <1>3, <2>1, <2>2, <2>3, <2>4, <2>5 DEF Backed, Shown
  <1>14. ASSUME NEW e \in States, Wrote(x, y, e)
         PROVE  /\ DOMAIN trace'[t] = DOMAIN trace[t] \cup {Len(trace[t]) + 1}
                /\ \A j \in DOMAIN trace[t] : trace'[t][j] = trace[t][j]
                /\ trace'[t][Len(trace[t]) + 1] = [step |-> x.step + 1, state |-> e]
    BY <1>2, <1>14, WroteEvent
  <1>15. StagesInOrder'
    <2>. SUFFICES ASSUME NEW u \in Tasks, NEW i \in DOMAIN trace'[u],
                         NEW s \in {"PLANNING", "EXECUTING", "REVIEWING"},
                         trace'[u][i].state \in Allowed[s] \ {"FAILED", "CANCELLED"}
                  PROVE  \E j \in 1 .. i - 1 : trace'[u][j].state = s
      BY DEF StagesInOrder
    <2>1. CASE trace'[u] = trace[u]  BY <2>1 DEF Staged, StagesInOrder
    <2>2. ASSUME u = t, NEW e \in States, Wrote(x, y, e) PROVE \E j \in 1 .. i - 1 : trace'[u][j].state = s
      <3>. DEFINE n == Len(trace[t])
      <3>1. /\ DOMAIN trace'[t] = DOMAIN trace[t] \cup {n + 1}
            /\ \A j \in DOMAIN trace[t] : trace'[t][j] = trace[t][j]
            /\ trace'[t][n + 1] = [step |-> x.step + 1, state |-> e]
        BY <1>14, <2>2
      <3>2. DOMAIN trace[t] = 1 .. n /\ n \in Nat
        <4>1. trace[t] \in Seq(Event)  BY DEF Typed, TypeOK, Event
        <4>. QED  BY <4>1
      <3>3. CASE i \in DOMAIN trace[t]
        <4>1. PICK j \in 1 .. i - 1 : trace[t][j].state = s
          BY <2>2, <3>1, <3>3 DEF Staged, StagesInOrder
        <4>2. j \in DOMAIN trace[t]  BY <3>2, <3>3, <4>1
        <4>. QED  BY <2>2, <3>1, <4>1, <4>2
      <3>4. CASE i = n + 1
        <4>1. trace'[t][i].state = e  BY <3>1, <3>4
        <4>2. e \in Allowed[s] /\ e \notin {"FAILED", "CANCELLED"}  BY <2>2, <4>1
        <4>3. s \in States \ Final  BY DEF States, Final
        <4>4. Shown(t, s)
          <5>1. CASE e = "SUCCESS" /\ x.phase = "finish"
            <6>1. s = "REVIEWING"  BY <4>2, <4>3, <5>1, OneBefore
            <6>2. x.node = 4 /\ 3 \in Nodes /\ Stages[3] = "REVIEWING"
              BY <1>4, <5>1 DEF Backed, Nodes, Stages
            <6>3. \A k \in Nodes : k < 4 => Shown(t, Stages[k])
              BY <1>2, <1>4, <5>1, <6>2 DEF Backed, Chosen
            <6>. QED  BY <6>1, <6>2, <6>3
          <5>2. CASE e \in Allowed[x.ctx]
            <6>1. x.ctx \in States \ Final  BY <1>4 DEF Context
            <6>2. x.ctx = s  BY <2>2, <4>2, <4>3, <5>2, <6>1, OneBefore
            <6>. QED  BY <1>2, <1>4, <6>2 DEF Backed
          <5>. QED  BY <2>2, <4>2, <5>1, <5>2 DEF Wrote
        <4>5. PICK j \in 1 .. n : trace[t][j].state = s  BY <3>2, <4>4 DEF Shown
        <4>6. j \in 1 .. i - 1 /\ trace'[t][j].state = s  BY <3>1, <3>2, <3>4, <4>5
        <4>. QED  BY <2>2, <4>6
      <3>. QED  BY <2>2, <3>1, <3>3, <3>4
    <2>3. trace'[u] = trace[u] \/ (u = t /\ \E e \in States : Wrote(x, y, e))
      BY <1>1, <1>2, EventsElsewhere DEF Moves, Events
    <2>. QED  BY <2>1, <2>2, <2>3
  <1>16. Staged'
    <2>1. \A q \in Runners : Backed(q)'  BY <1>12, <1>13
    <2>. QED  BY <1>8, <1>15, <2>1 DEF Staged
  <1>. QED  BY <1>16

\* A run that begins believes in no stage.
LEMMA StagedBegins ==
    ASSUME Typed, Staged, NEW r \in Runners, NEW t \in Tasks, Begin(r, t)
    PROVE  Staged'
  <1>1. /\ UNCHANGED <<store, upsets>>
        /\ \A q \in Runners \ {r} : run'[q] = run[q]
        /\ run'[r] = IF Finished(t) THEN [Idle EXCEPT !.phase = "returned", !.task = t]
                                    ELSE [Idle EXCEPT !.phase = "begun", !.task = t, !.step = LastStep(t)]
    BY DEF Begin, Enter, Local, Typed, TypeOK
  <1>2. run'[r].ctx = "PENDING" /\ run'[r].phase \in {"returned", "begun"}  BY <1>1 DEF Idle
  <1>3. Backed(r)'  BY <1>2 DEF Backed, Chosen
  <1>4. \A q \in Runners \ {r} : Backed(q)'  BY <1>1 DEF Staged, Backed, Shown, store
  <1>5. StagesInOrder'  BY <1>1 DEF Staged, StagesInOrder, store
  <1>6. \A u \in Tasks : \A k \in Completed(u)' : Shown(u, Stages[k])'
    BY <1>1 DEF Staged, Completed, Shown, store
  <1>7. \A q \in Runners : Backed(q)'  BY <1>3, <1>4
  <1>. QED  BY <1>5, <1>6, <1>7 DEF Staged

\* As long as writes do not fail, each stage a trace shows comes after the one
\* ALLOWED puts before it, though runs of one task overlap (harness.py, _transition).
THEOREM StagesHold == ~WriteFaults /\ Spec => []StagesInOrder
  <1>1. Init => Staged
    BY DEF Init, StoreInit, Staged, StagesInOrder, Completed, Shown, Backed, Busy, Idle, Ended
  <1>2. ~WriteFaults /\ Typed /\ Staged /\ [Next]_vars => Staged'
    <2>. SUFFICES ASSUME ~WriteFaults, Typed, Staged, [Next]_vars PROVE Staged'  OBVIOUS
    <2>1. ASSUME UNCHANGED <<trace, ckpt, run>> PROVE Staged'
      BY <2>1 DEF Staged, StagesInOrder, Completed, Shown, Backed, Busy
    <2>2. ASSUME NEW t \in Tasks, RequestCancel(t) PROVE Staged'  BY <2>1, <2>2 DEF RequestCancel
    <2>3. CASE UNCHANGED vars  BY <2>1, <2>3 DEF vars, store
    <2>. QED  BY <2>2, <2>3, StagedMoves, StagedBegins DEF Next
  <1>3. CASE ~WriteFaults
    <2>1. Typed /\ Staged /\ [Next]_vars => Staged'  BY <1>2, <1>3
    <2>2. Staged => StagesInOrder  BY DEF Staged
    <2>3. Spec => []StagesInOrder  BY <1>1, <2>1, <2>2, TypedHolds, PTL DEF Spec
    <2>. QED  BY <2>3
  <1>4. CASE WriteFaults  BY <1>4
  <1>. QED  BY <1>3, <1>4

=============================================================================
