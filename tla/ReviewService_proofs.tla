------------------------ MODULE ReviewService_proofs ------------------------
(***************************************************************************)
(* The asynchronous review service, for any tasks, submissions and         *)
(* mishaps: what its parts prove of themselves, put together.  Every step  *)
(* of the service is a step of the queue or leaves the queue alone, and a  *)
(* step of the harness or one of the few other writes of the task store.   *)
(***************************************************************************)
EXTENDS ReviewService, TLAPS

\* The lemmas of the two parts, in the service's variables.  The harness is the
\* one whose callers run one task one run at a time: that they do is shown here.
Q == INSTANCE TaskQueue_proofs WITH Foreign <- {}, ReadFaults <- FALSE
H == INSTANCE ReviewHarness_proofs WITH
    Runners <- Workers, Exclusive <- TRUE, MaxRuns <- 0, runs <- 0,
    MaxUpsets <- MaxMishaps, upsets <- mishaps

\* What the parts assume of their constants.
LEMMA PartsAssume == Q!ConstantsAssumption /\ H!HarnessAssumption
BY ServiceAssumption DEF Q!ConstantsAssumption, H!HarnessAssumption

\* The service's names for what the harness does are those of its lemmas.
LEMMA SameHarness ==
    /\ \A w : Harness!Advance(w) <=> H!Advance(w)
    /\ \A t : Harness!LastStep(t) = H!LastStep(t)
    /\ \A t : Harness!RequestCancel(t) <=> H!RequestCancel(t)
    /\ \A t, n, s : Harness!Record(t, n, s) <=> H!Record(t, n, s)
    /\ \A w, p : Harness!At(w, p) <=> H!At(w, p)
    /\ Harness!Idle = H!Idle /\ Harness!Final = H!Final
    /\ (Harness!TypeOK <=> H!TypeOK)
    /\ \A t : Harness!Unreadable(t) <=> H!Unreadable(t)
  <1>1. \A w : Harness!Advance(w) <=> H!Advance(w)
    BY DEF Harness!Advance, H!Advance, Harness!LoadContext, H!LoadContext, Harness!LoadCheckpoints,
           H!LoadCheckpoints, Harness!Node, H!Node, Harness!GuardFails, H!GuardFails, Harness!ReadFails, H!ReadFails, Harness!GuardCancelled, H!GuardCancelled,
           Harness!GuardBudget, H!GuardBudget, Harness!StartNode, H!StartNode, Harness!AllNodesDone,
           H!AllNodesDone, Harness!RejectDiff, H!RejectDiff, Harness!NoTransition, H!NoTransition,
           Harness!Transition, H!Transition, Harness!TransitionFails, H!TransitionFails,
           Harness!BadTransition, H!BadTransition, Harness!NodeReturns, H!NodeReturns,
           Harness!NodeRaises, H!NodeRaises, Harness!SaveNode, H!SaveNode, Harness!RetryNode,
           H!RetryNode, Harness!GoOn, H!GoOn, Harness!Succeed, H!Succeed, Harness!RecordCancel,
           H!RecordCancel, Harness!RecordFailure, H!RecordFailure, Harness!NoteFailure,
           H!NoteFailure, Harness!WriteFails, H!WriteFails, Harness!EventFails, H!EventFails,
           Harness!Upset, H!Upset, Harness!Local, H!Local, Harness!At, H!At, Harness!Record,
           H!Record, Harness!SaveCheckpoint, H!SaveCheckpoint, Harness!MayTransit, H!MayTransit,
           Harness!Target, H!Target, Harness!NextNode, H!NextNode, Harness!Completed, H!Completed,
           Harness!Nodes, H!Nodes, Harness!Stages, H!Stages, Harness!Allowed, H!Allowed,
           Harness!store, H!store
  <1>2. \A t : Harness!LastStep(t) = H!LastStep(t)  BY DEF Harness!LastStep, H!LastStep
  <1>3. \A t : Harness!RequestCancel(t) <=> H!RequestCancel(t)
    BY DEF Harness!RequestCancel, H!RequestCancel
  <1>4. \A t, n, s : Harness!Record(t, n, s) <=> H!Record(t, n, s)  BY DEF Harness!Record, H!Record
  <1>5. \A w, p : Harness!At(w, p) <=> H!At(w, p)  BY DEF Harness!At, H!At
  <1>6. Harness!Idle = H!Idle /\ Harness!Final = H!Final
    BY DEF Harness!Idle, H!Idle, Harness!Final, H!Final, Harness!NoTask, H!NoTask
  <1>7. Harness!TypeOK <=> H!TypeOK
    BY DEF Harness!TypeOK, H!TypeOK, Harness!States, H!States, Harness!Phases, H!Phases,
           Harness!Final, H!Final, Harness!Nodes, H!Nodes, Harness!NoTask, H!NoTask
  <1>8. \A t : Harness!Unreadable(t) <=> H!Unreadable(t)  BY <1>5 DEF Harness!Unreadable, H!Unreadable
  <1>. QED  BY <1>1, <1>2, <1>3, <1>4, <1>5, <1>6, <1>7, <1>8

\* And so are its names for what the queue does.
LEMMA SameQueue ==
    /\ (Queue!TypeOK <=> Q!TypeOK) /\ Queue!Live = Q!Live
    /\ Queue!Busy = Q!Busy
    /\ \A w : Queue!InHand(w) = Q!InHand(w)
    /\ \A m : (Queue!Submit(m) <=> Q!Submit(m)) /\ (Queue!Replay(m) <=> Q!Replay(m))
    /\ \A w : /\ Queue!ReclaimStale(w) <=> Q!ReclaimStale(w)
              /\ Queue!ReadNew(w) <=> Q!ReadNew(w)
              /\ Queue!Requeue(w) <=> Q!Requeue(w)
              /\ Queue!Bury(w) <=> Q!Bury(w)
              /\ Queue!Callback(w) <=> Q!Callback(w)
              /\ Queue!Ack(w) <=> Q!Ack(w)
              /\ Queue!HandlerReturns(w) <=> Q!HandlerReturns(w)
              /\ Queue!HandlerFails(w) <=> Q!HandlerFails(w)
              /\ Queue!ClaimFault(w) <=> Q!ClaimFault(w)
              /\ Queue!RequeueFault(w) <=> Q!RequeueFault(w)
              /\ Queue!BuryFault(w) <=> Q!BuryFault(w)
              /\ Queue!CallbackFault(w) <=> Q!CallbackFault(w)
              /\ Queue!AckFault(w) <=> Q!AckFault(w)
              /\ Queue!Crash(w) <=> Q!Crash(w)
              /\ Queue!Restart(w) <=> Q!Restart(w)
    /\ \A i : Queue!LeaseExpires(i) <=> Q!LeaseExpires(i)
  <1>. USE DEF Queue!Busy, Q!Busy, Queue!InHand, Q!InHand, Queue!Decoded, Q!Decoded, Queue!Attempt,
           Q!Attempt, Queue!Envelope, Q!Envelope, Queue!redis, Q!redis, Queue!threads, Q!threads,
           Queue!history, Q!history, Queue!GoTo, Q!GoTo, Queue!Mishap, Q!Mishap
  <1>1. (Queue!TypeOK <=> Q!TypeOK) /\ Queue!Live = Q!Live /\ Queue!Busy = Q!Busy
    BY DEF Queue!TypeOK, Q!TypeOK, Queue!EntryType, Q!EntryType, Queue!Phases, Q!Phases,
           Queue!Calls, Q!Calls, Queue!Live, Q!Live
  <1>2. \A w : Queue!InHand(w) = Q!InHand(w)  OBVIOUS
  <1>3. \A m : (Queue!Submit(m) <=> Q!Submit(m)) /\ (Queue!Replay(m) <=> Q!Replay(m))
    BY DEF Queue!Submit, Q!Submit, Queue!Replay, Q!Replay, Queue!Enqueue, Q!Enqueue, Queue!Dead, Q!Dead
  <1>4. \A w : /\ Queue!ReclaimStale(w) <=> Q!ReclaimStale(w)
               /\ Queue!ReadNew(w) <=> Q!ReadNew(w)
               /\ Queue!Ack(w) <=> Q!Ack(w)
    BY DEF Queue!ReclaimStale, Q!ReclaimStale, Queue!ReadNew, Q!ReadNew, Queue!Ack, Q!Ack,
           Queue!Turn, Q!Turn, Queue!Batch, Q!Batch, Queue!Cardinality, Q!Cardinality, Queue!OtherCall, Q!OtherCall
  <1>5. \A w : /\ Queue!Requeue(w) <=> Q!Requeue(w)
               /\ Queue!Bury(w) <=> Q!Bury(w)
               /\ Queue!Callback(w) <=> Q!Callback(w)
               /\ Queue!HandlerReturns(w) <=> Q!HandlerReturns(w)
               /\ Queue!HandlerFails(w) <=> Q!HandlerFails(w)
    BY DEF Queue!Requeue, Q!Requeue, Queue!Bury, Q!Bury, Queue!Callback, Q!Callback,
           Queue!HandlerReturns, Q!HandlerReturns, Queue!HandlerFails, Q!HandlerFails,
           Queue!FailTo, Q!FailTo, Queue!AddRetry, Q!AddRetry, Queue!AddDeadLetter, Q!AddDeadLetter
  <1>6. \A w : /\ Queue!ClaimFault(w) <=> Q!ClaimFault(w)
               /\ Queue!RequeueFault(w) <=> Q!RequeueFault(w)
               /\ Queue!BuryFault(w) <=> Q!BuryFault(w)
               /\ Queue!CallbackFault(w) <=> Q!CallbackFault(w)
               /\ Queue!AckFault(w) <=> Q!AckFault(w)
    BY DEF Queue!ClaimFault, Q!ClaimFault, Queue!RequeueFault, Q!RequeueFault, Queue!BuryFault,
           Q!BuryFault, Queue!CallbackFault, Q!CallbackFault, Queue!AckFault, Q!AckFault,
           Queue!Abandon, Q!Abandon, Queue!AddRetry, Q!AddRetry, Queue!AddDeadLetter,
           Q!AddDeadLetter, Queue!Batch, Q!Batch, Queue!Cardinality,
           Q!Cardinality
  <1>7. \A w : (Queue!Crash(w) <=> Q!Crash(w)) /\ (Queue!Restart(w) <=> Q!Restart(w))
    BY DEF Queue!Crash, Q!Crash, Queue!Halt, Q!Halt, Queue!Restart, Q!Restart
  <1>8. \A i : Queue!LeaseExpires(i) <=> Q!LeaseExpires(i)
    BY DEF Queue!LeaseExpires, Q!LeaseExpires, Queue!Held, Q!Held
  <1>. QED  BY <1>1, <1>2, <1>3, <1>4, <1>5, <1>6, <1>7, <1>8

-----------------------------------------------------------------------------
(* Each step is a step of the queue, or leaves the queue alone. *)

QuietQueue == UNCHANGED queueVars /\ (UNCHANGED mishaps \/ Queue!Mishap)

\* What a step of the service is to the queue.
LEMMA QueueSteps ==
    ASSUME [Next]_vars
    PROVE  [Q!Next]_(Q!vars) \/ QuietQueue
  <1>. USE SameQueue DEF QuietQueue
  <1>1. CASE UNCHANGED vars
    BY <1>1 DEF vars, queueVars
  <1>2. ASSUME NEW t \in Tasks, Request(t) PROVE [Q!Next]_(Q!vars) \/ QuietQueue
    <2>1. CASE CreateTask(t) \/ CreateDeferredTask(t) \/ SavePayload(t)
      BY <2>1 DEF CreateTask, CreateDeferredTask, SavePayload
    <2>2. CASE CancelTask(t)
      BY <2>2 DEF CancelTask, Harness!RequestCancel
    <2>3. CASE SubmitTask(t) \/ ResumeTask(t)
      <3>1. PICK m \in Messages : Q!Submit(m)
        <4>1. ApiMessage(t) \in Messages /\ HookMessage(t) \in Messages
          BY DEF ApiMessage, HookMessage, Messages
        <4>. QED  BY <2>3, <4>1 DEF SubmitTask, ResumeTask
      <3>. QED  BY <3>1 DEF Q!Next, Q!Produce
    <2>. QED  BY <1>2, <2>1, <2>2, <2>3 DEF Request
  <1>3. ASSUME NEW m \in Messages, ReplayDeadLetter(m) PROVE Q!Next
    BY <1>3 DEF ReplayDeadLetter, Q!Next, Q!Produce
  <1>4. ASSUME NEW i \in pel, LeaseExpires(i) PROVE Q!Next
    BY <1>4 DEF LeaseExpires, Q!Next
  <1>5. ASSUME NEW w \in Workers, QueueStep(w) \/ QueueFault(w) \/ Crash(w) \/ CallbackFails(w) \/ Restart(w)
        PROVE  Q!Next
    BY <1>5 DEF QueueStep, QueueFault, Crash, CallbackFails, Restart, Q!Next, Q!Work, Q!Fault
  <1>6. ASSUME NEW w \in Workers, Handle(w) \/ ReplyLost(w) PROVE [Q!Next]_(Q!vars) \/ QuietQueue
    <2>1. CASE UNCHANGED queueVars /\ (UNCHANGED mishaps \/ Harness!Upset)
      BY <2>1 DEF Harness!Upset, Queue!Mishap
    <2>2. CASE Queue!HandlerReturns(w) \/ Queue!HandlerFails(w) \/ Queue!Callback(w)
      BY <2>2 DEF Q!Next, Q!Handle, Q!Work
    <2>3. CASE ReviewStep(w)
      <3>1. UNCHANGED mishaps \/ Harness!Upset
        BY <2>3 DEF ReviewStep, Harness!Advance, Harness!LoadContext, Harness!LoadCheckpoints,
              Harness!Node, Harness!GuardFails, Harness!GuardCancelled, Harness!GuardBudget, Harness!StartNode,
              Harness!AllNodesDone, Harness!RejectDiff, Harness!NoTransition, Harness!Transition,
              Harness!TransitionFails, Harness!BadTransition, Harness!NodeReturns,
              Harness!NodeRaises, Harness!SaveNode, Harness!RetryNode, Harness!Succeed,
              Harness!RecordCancel, Harness!RecordFailure, Harness!NoteFailure,
              Harness!ReadFails, Harness!WriteFails, Harness!EventFails
      <3>. QED  BY <2>1, <2>3, <3>1 DEF ReviewStep
    <2>4. CASE StartReview(w)
      BY <2>1, <2>4 DEF StartReview, Harness!Begin, Harness!Enter
    <2>. QED
      BY <1>6, <2>1, <2>2, <2>3, <2>4
         DEF Handle, FetchDiff, ReadTaskFails, FetchFails, Raise, Return, ReviewRaised, ReviewReturned,
             ObserveFails, LookupComment, LookupFinds, PatchComment, PostComment, CommentFails,
             ReviewDone, ReadDeadTask, ReadDeadAnd, FailDeadTask, FailDeadAs, RaiseAlert, ReplyLost
  <1>. QED  BY <1>1, <1>2, <1>3, <1>4, <1>5, <1>6 DEF Next

\* The queue's types, its stream and its pending entries, in a step of the service.
LEMMA QueueKept ==
    ASSUME Queue!TypeOK, [Next]_vars
    PROVE  /\ Queue!TypeOK'
           /\ \A i \in Q!Indices : i \in Q!Indices' /\ entries'[i] = entries[i]
           /\ (\A w \in Workers : ~Q!Acks(w)) => Queue!Live \subseteq Queue!Live'
           /\ \A w \in Workers : Q!Acks(w) => wpc[w] = "ack" /\ Queue!Live \ {hand[w]} \subseteq Queue!Live'
  <1>0. Q!TypeOK /\ Q!ConstantsAssumption  BY SameQueue, PartsAssume
  <1>1. CASE [Q!Next]_(Q!vars)
    <2>1. Q!TypeOK'  BY <1>0, <1>1, Q!TypeStep
    <2>2. \A i \in Q!Indices : i \in Q!Indices' /\ entries'[i] = entries[i]
      BY <1>0, <1>1, Q!StreamGrows
    <2>3. (\A w \in Workers : ~Q!Acks(w)) => Q!Live \subseteq Q!Live'
      BY <1>0, <1>1, Q!LiveKept
    <2>4. \A w \in Workers : Q!Acks(w) => wpc[w] = "ack" /\ Q!Live \ {hand[w]} \subseteq Q!Live'
      BY DEF Q!Acks, Q!Ack, Q!AckFault, Q!Live
    <2>5. Queue!Live = Q!Live /\ Queue!Live' = Q!Live' /\ (Queue!TypeOK' <=> Q!TypeOK')
      BY DEF Queue!Live, Q!Live, Queue!TypeOK, Q!TypeOK, Queue!EntryType, Q!EntryType,
             Queue!Phases, Q!Phases, Queue!Calls, Q!Calls, Queue!Busy, Q!Busy
    <2>. QED  BY <2>1, <2>2, <2>3, <2>4, <2>5
  <1>2. CASE QuietQueue
    <2>1. mishaps' \in Nat  BY <1>2 DEF QuietQueue, Queue!Mishap, Queue!TypeOK
    <2>2. Queue!TypeOK' /\ UNCHANGED <<entries, read, pel>>
      BY <1>2, <2>1 DEF QuietQueue, queueVars, Queue!TypeOK
    <2>3. \A w \in Workers : Q!Acks(w) => wpc[w] = "ack"
      BY DEF Q!Acks, Q!Ack, Q!AckFault
    <2>. QED  BY <2>2, <2>3 DEF Q!Indices, Queue!Live
  <1>. QED  BY <1>1, <1>2, QueueSteps

-----------------------------------------------------------------------------
(* Types, for any number of workers. *)

\* What the type invariant needs to be kept: a largest step in every trace, and
\* every run in its place.
Typed == TypeOK /\ H!Typed

\* A thread that handles a message or its dead letter has a task.
LEMMA TaskTypes ==
    ASSUME Queue!TypeOK, NEW w \in Workers, wpc[w] \in Queue!Busy
    PROVE  /\ TaskOf(w) \in Tasks /\ Queue!InHand(w).hook \in BOOLEAN
           /\ hand[w] \in Q!Indices /\ hand[w] \in 1 .. read
  <1>1. Q!TypeOK /\ Q!ConstantsAssumption /\ wpc[w] \in Q!Busy  BY SameQueue, PartsAssume
  <1>2. Q!InHand(w) \in Messages /\ hand[w] \in 1 .. read /\ hand[w] \in 1 .. Len(entries)
    BY <1>1, Q!HandTypes
  <1>. QED  BY <1>2, SameQueue DEF TaskOf, Messages, Q!Indices

\* Every step keeps the types of the store and of the runs.
LEMMA RunsTyped ==
    ASSUME Typed, [Next]_vars
    PROVE  H!Typed'
  <1>0. H!HarnessAssumption /\ H!Typed /\ mishaps' \in Nat
    <2>1. Queue!TypeOK'  BY QueueKept DEF Typed, TypeOK
    <2>. QED  BY <2>1, PartsAssume DEF Typed, Queue!TypeOK
  <1>1. CASE UNCHANGED harnessVars
    BY <1>0, <1>1 DEF harnessVars, storeVars, H!Typed, H!TypeOK, H!Topped, H!Placed, H!Place
  <1>2. ASSUME NEW t \in Tasks, CancelTask(t) PROVE H!Typed'
    BY <1>0, <1>2 DEF CancelTask, Harness!RequestCancel, H!Typed, H!TypeOK, H!Topped, H!Placed, H!Place
  <1>3. ASSUME NEW w \in Workers, EndRun(w) PROVE H!Typed'
    <2>1. H!Local(w, H!Idle) /\ H!Idle \in H!Context /\ H!Place(H!Idle)
      BY <1>0, <1>3, SameHarness, H!NewRun DEF EndRun, H!Local, H!Place, H!Idle, H!Ended
    <2>. QED
      BY <1>0, <1>3, <2>1, H!QuietTyped DEF EndRun, storeVars, H!Typed, H!TypeOK
  <1>4. ASSUME NEW w \in Workers, ReviewStep(w) PROVE H!Typed'
    BY <1>0, <1>4, SameHarness, H!AdvanceTyped DEF ReviewStep
  <1>5. ASSUME NEW w \in Workers, StartReview(w) PROVE H!Typed'
    <2>. DEFINE t == TaskOf(w)
                y == IF Harness!Finished(t)
                       THEN [H!Idle EXCEPT !.phase = "returned", !.task = t]
                       ELSE [H!Idle EXCEPT !.phase = "begun", !.task = t, !.step = H!LastStep(t)]
    <2>1. t \in Tasks
      BY <1>5, TaskTypes DEF StartReview, SvcAt, Queue!Busy, Typed, TypeOK
    <2>2. H!LastStep(t) \in Nat  BY <1>0, <2>1, H!LastStepFacts DEF H!Typed
    <2>3. H!Local(w, y) /\ UNCHANGED <<storeVars, mishaps>>
      BY <1>5, SameHarness
         DEF StartReview, Harness!Begin, Harness!Enter, Harness!Local, H!Local, Harness!store, storeVars
    <2>4. y \in H!Context  BY <1>0, <2>1, <2>2, H!NewRun
    <2>5. H!Place(y)  BY <2>1 DEF H!Place, H!Idle, H!Ended
    <2>. HIDE DEF y
    <2>. QED
      BY <1>0, <2>3, <2>4, <2>5, H!QuietTyped DEF storeVars, H!Typed, H!TypeOK
  <1>6. ASSUME NEW w \in Workers, FailDeadTask(w) PROVE H!Typed'
    <2>1. TaskOf(w) \in Tasks /\ dlqStep[w] \in Nat
      BY <1>6, TaskTypes DEF FailDeadTask, FailDeadAs, Queue!Busy, Typed, TypeOK
    <2>2. H!Record(TaskOf(w), dlqStep[w], "FAILED") /\ UNCHANGED <<report, cancelled, ckpt, cases, run, mishaps>>
      BY <1>6, SameHarness DEF FailDeadTask, FailDeadAs
    <2>3. H!Local(w, run[w]) /\ H!Place(run[w]) /\ run[w] \in H!Context
      BY <1>0, <2>2 DEF H!Local, H!Typed, H!TypeOK, H!Placed, H!Context
    <2>4. "FAILED" \in H!States /\ report' \subseteq Tasks
      BY <1>0, <2>2 DEF H!States, H!Typed, H!TypeOK
    <2>. QED  BY <1>0, <2>1, <2>2, <2>3, <2>4, H!WroteTyped
  <1>. QED
    BY <1>1, <1>2, <1>3, <1>4, <1>5, <1>6
       DEF Next, vars, Request, CreateTask, CreateDeferredTask, SavePayload, SubmitTask, ResumeTask,
           ReplayDeadLetter, QueueStep, QueueFault, Handle, FetchDiff, ReadTaskFails, FetchFails, Raise, Return,
           ReviewRaised, ReviewReturned, ObserveFails, LookupComment, LookupFinds, PatchComment,
           PostComment, CommentFails, ReviewDone, ReadDeadTask, ReadDeadAnd, RaiseAlert, ReplyLost,
           Crash, CallbackFails, Interrupt, Restart, LeaseExpires

\* And of what the service keeps besides.
LEMMA ServiceTyped ==
    ASSUME Typed, [Next]_vars
    PROVE  TypeOK'
  <1>. DEFINE Own == /\ stage \in [Tasks -> {"absent", "created", "saved", "deferred", "submitted"}]
                     /\ payload \subseteq Tasks
                     /\ svc \in [Workers -> {"idle", "review", "lookup", "post", "patch", "done", "fail", "alert"}]
                     /\ dlqStep \in [Workers -> Nat]
                     /\ comments \in [Tasks -> Nat]
                     /\ page \in [Tasks -> {"room", "full", "ours"}]
                     /\ unseen \subseteq Tasks
                     /\ alerts \subseteq Tasks
  <1>0. Own /\ Queue!TypeOK /\ H!Typed  BY DEF Typed, TypeOK
  <1>1. Queue!TypeOK' /\ Harness!TypeOK'
    <2>1. Queue!TypeOK'  BY <1>0, QueueKept
    <2>2. H!TypeOK'  BY RunsTyped DEF H!Typed
    <2>3. H!TypeOK' <=> Harness!TypeOK'
      BY DEF Harness!TypeOK, H!TypeOK, Harness!States, H!States, Harness!Phases, H!Phases,
             Harness!Final, H!Final, Harness!Nodes, H!Nodes, Harness!NoTask, H!NoTask
    <2>. QED  BY <2>1, <2>2, <2>3
  <1>2. \A w \in Workers : wpc[w] \in {"handle", "callback"} =>
           TaskOf(w) \in Tasks /\ Harness!LastStep(TaskOf(w)) + 1 \in Nat
    <2>. SUFFICES ASSUME NEW w \in Workers, wpc[w] \in {"handle", "callback"}
                  PROVE  TaskOf(w) \in Tasks /\ Harness!LastStep(TaskOf(w)) + 1 \in Nat
      OBVIOUS
    <2>1. TaskOf(w) \in Tasks  BY <1>0, TaskTypes DEF Queue!Busy
    <2>2. H!LastStep(TaskOf(w)) \in Nat  BY <1>0, <2>1, PartsAssume, H!LastStepFacts DEF H!Typed
    <2>. QED  BY <2>1, <2>2, SameHarness
  <1>3. ASSUME UNCHANGED serviceVars PROVE Own'  BY <1>0, <1>3 DEF serviceVars
  <1>4. ASSUME NEW t \in Tasks, Request(t) PROVE Own'
    BY <1>0, <1>3, <1>4
       DEF Request, CreateTask, CreateDeferredTask, SavePayload, SubmitTask, ResumeTask, CancelTask, serviceVars
  <1>5. ASSUME NEW w \in Workers, Crash(w) \/ CallbackFails(w) PROVE Own'
    BY <1>0, <1>5 DEF Crash, CallbackFails, Interrupt, SvcGo
  <1>6. ASSUME NEW w \in Workers, Return(w) \/ Raise(w),
               UNCHANGED <<stage, payload, dlqStep, comments, page, unseen, alerts>>
        PROVE  Own'
    BY <1>0, <1>6 DEF Return, Raise, SvcGo
  <1>7. ASSUME NEW w \in Workers, FetchDiff(w) PROVE Own'
    <2>1. CASE UNCHANGED payload /\ Raise(w)  BY <1>6, <1>7, <2>1 DEF FetchDiff, Own
    <2>2. CASE payload' = payload \cup {TaskOf(w)} /\ (UNCHANGED svc \/ Raise(w))
      BY <1>0, <1>2, <1>7, <2>2 DEF FetchDiff, SvcAt, Raise, SvcGo
    <2>. QED  BY <1>7, <2>1, <2>2 DEF FetchDiff, FetchFails
  <1>8. ASSUME NEW w \in Workers, Handle(w) \/ ReplyLost(w), ~FetchDiff(w) PROVE Own'
    <2>1. CASE ReadTaskFails(w) \/ ReviewRaised(w) \/ ReviewReturned(w) \/ ObserveFails(w) \/ CommentFails(w) \/ ReviewDone(w)
      <3>1. \/ Return(w) \/ Raise(w) \/ SvcGo(w, "lookup")
        BY <2>1 DEF ReadTaskFails, ReviewRaised, ReviewReturned, ObserveFails, CommentFails, ReviewDone
      <3>2. UNCHANGED <<stage, payload, dlqStep, comments, page, unseen, alerts>>
        BY <2>1 DEF ReadTaskFails, ReviewRaised, ReviewReturned, ObserveFails, CommentFails, ReviewDone
      <3>. QED  BY <1>0, <1>6, <3>1, <3>2 DEF SvcGo, Own
    <2>2. CASE StartReview(w) \/ ReviewStep(w)
      BY <1>0, <2>2 DEF StartReview, ReviewStep, SvcGo, serviceVars
    <2>3. CASE LookupComment(w) \/ PatchComment(w)
      BY <1>0, <2>3 DEF LookupComment, LookupFinds, PatchComment, SvcGo
    <2>4. CASE PostComment(w) \/ ReplyLost(w)
      <3>1. TaskOf(w) \in Tasks  BY <1>2, <2>4 DEF PostComment, ReplyLost, SvcAt
      <3>2. comments' \in [Tasks -> Nat] /\ page' \in [Tasks -> {"room", "full", "ours"}]
        BY <1>0, <2>4, <3>1 DEF PostComment, ReplyLost, AddComment
      <3>. QED  BY <1>0, <2>4, <3>1, <3>2 DEF PostComment, ReplyLost, SvcGo
    <2>5. CASE ReadDeadTask(w) \/ FailDeadTask(w) \/ RaiseAlert(w)
      <3>1. TaskOf(w) \in Tasks /\ Harness!LastStep(TaskOf(w)) + 1 \in Nat
        BY <1>2, <2>5 DEF ReadDeadTask, ReadDeadAnd, FailDeadTask, FailDeadAs, RaiseAlert
      <3>. QED
        BY <1>0, <2>5, <3>1
           DEF ReadDeadTask, ReadDeadAnd, FailDeadTask, FailDeadAs, RaiseAlert, SvcGo
    <2>. QED  BY <1>8, <2>1, <2>2, <2>3, <2>4, <2>5 DEF Handle
  <1>9. Own'
    BY <1>3, <1>4, <1>5, <1>7, <1>8
       DEF Next, vars, serviceVars, ReplayDeadLetter, QueueStep, QueueFault, Restart, LeaseExpires, Own
  <1>. QED  BY <1>1, <1>9 DEF TypeOK

\* The types hold at first.
LEMMA TypedInit == ASSUME Init PROVE Typed
  <1>1. Queue!TypeOK
    BY DEF Init, Queue!Init, Queue!TypeOK, Queue!Phases, Queue!Calls, Queue!Busy, Queue!EntryType
  <1>2. H!Typed
    <2>. USE DEF Init, Harness!Init, Harness!StoreInit
    <2>1. H!TypeOK
      <3>1. H!Idle \in H!Context  BY PartsAssume, H!NewRun
      <3>2. run = [w \in Workers |-> H!Idle]  BY SameHarness
      <3>3. <<>> \in Seq([step : Nat, state : H!States])  OBVIOUS
      <3>4. ckpt \in [Tasks -> [H!Nodes -> {"none", "failed", "completed"}]]
        BY DEF H!Nodes, Harness!Nodes
      <3>5. state \in [Tasks -> H!States] /\ mishaps \in Nat
        BY DEF H!States, Queue!Init
      <3>. QED  BY <3>1, <3>2, <3>3, <3>4, <3>5 DEF H!TypeOK, H!Context
    <2>2. H!Topped  BY DEF H!Topped
    <2>3. H!Placed
      BY DEF H!Placed, H!Place, Harness!Idle, H!Ended
    <2>. QED  BY <2>1, <2>2, <2>3 DEF H!Typed
  <1>3. Harness!TypeOK  BY <1>2, SameHarness DEF H!Typed
  <1>. QED  BY <1>1, <1>2, <1>3 DEF Typed, TypeOK, Init

\* The parts and the service keep their types, however many workers share the
\* queue, whatever fails.
THEOREM ServiceTypes == Spec => []TypeOK
  <1>1. Init => Typed  BY TypedInit
  <1>2. Typed /\ [Next]_vars => Typed'  BY RunsTyped, ServiceTyped DEF Typed
  <1>3. Typed => TypeOK  BY DEF Typed
  <1>. QED  BY <1>1, <1>2, <1>3, PTL DEF Spec

-----------------------------------------------------------------------------
(* The store and the runs, when one worker thread runs the tasks. *)

OneWorker == \A v, w \in Workers : v = w

\* What the harness keeps when the runs of a task follow one another.
Orderly == H!Serial /\ H!Finals

OverKept ==
    \A t \in Tasks : /\ state[t] = "SUCCESS" => state'[t] = "SUCCESS" /\ t \in report'
                     /\ state[t] = "CANCELLED" =>
                           state'[t] = "CANCELLED" \/ (state'[t] = "FAILED" /\ Harness!Unreadable(t))

\* A step that writes no state keeps what is over.
LEMMA OverUntouched == ASSUME Orderly, UNCHANGED <<state, report>> PROVE OverKept
BY DEF Orderly, H!Finals, OverKept

\* A step of the run.
LEMMA RunAdvances ==
    ASSUME H!Typed, Orderly, NEW w \in Workers, Harness!Advance(w)
    PROVE  Orderly' /\ OverKept
  <1>1. H!Advance(w) /\ H!HarnessAssumption  BY SameHarness, PartsAssume
  <1>2. H!Serial'  BY <1>1, H!SerialMoves DEF Orderly
  <1>3. H!Finals' /\ OverKept  BY <1>1, SameHarness, H!FinalMoves DEF Orderly, OverKept
  <1>. QED  BY <1>2, <1>3 DEF Orderly

\* A run that begins: the one worker has no other.
LEMMA RunBegins ==
    ASSUME OneWorker, H!Typed, Orderly, NEW w \in Workers, NEW t \in Tasks, Harness!Begin(w, t)
    PROVE  Orderly' /\ OverKept
  <1>1. H!HarnessAssumption  BY PartsAssume
  <1>2. H!Begin(w, t)
    <2>1. ~H!InRun(t)
      BY DEF OneWorker, Harness!Begin, Harness!Enter, Harness!Ended, H!InRun, H!Ended
    <2>. QED
      BY <2>1 DEF Harness!Begin, Harness!Enter, Harness!Ended, Harness!Local, Harness!store,
           Harness!Idle, Harness!NoTask, Harness!Finished, Harness!LastStep, H!Begin, H!Enter,
           H!Ended, H!Local, H!store, H!Idle, H!NoTask, H!Finished, H!LastStep
  <1>3. H!Serial'  BY <1>1, <1>2, H!SerialBegins DEF Orderly
  <1>4. H!Finals' /\ UNCHANGED <<state, report>>  BY <1>1, <1>2, H!FinalBegins DEF Orderly
  <1>. QED  BY <1>3, <1>4, OverUntouched DEF Orderly

\* Nothing of the store and of the runs changes, or a cancellation is asked for.
LEMMA RunsUntouched ==
    ASSUME Orderly, UNCHANGED harnessVars \/ \E t \in Tasks : Harness!RequestCancel(t)
    PROVE  Orderly' /\ OverKept
  <1>0. /\ UNCHANGED <<state, report, trace, ckpt, cases, run>>
        /\ cancelled \subseteq cancelled'
        /\ \A t \in Tasks : H!Completed(t)' = H!Completed(t)
    BY DEF harnessVars, storeVars, Harness!RequestCancel, H!Completed
  <1>1. H!Serial'
    BY <1>0 DEF Orderly, H!Serial, H!Alone, H!TraceAscends, H!Ahead, H!Fresh, H!Completed, H!Busy
  <1>2. H!Finals'  BY <1>0 DEF Orderly, H!Finals, H!Over, H!Stopped, H!Busy
  <1>. QED  BY <1>0, <1>1, <1>2, OverUntouched DEF Orderly

\* The worker leaves its run, which is over or cut short.
LEMMA RunDropped ==
    ASSUME OneWorker, H!Typed, Orderly, NEW w \in Workers, EndRun(w)
    PROVE  Orderly' /\ OverKept /\ run'[w].phase = "idle"
  <1>0. run' = [run EXCEPT ![w] = H!Idle] /\ UNCHANGED storeVars
    BY SameHarness DEF EndRun
  <1>1. H!Idle.phase = "idle" /\ H!Idle.phase \in H!Ended  BY DEF H!Idle, H!Ended
  <1>2. \A v \in Workers : run'[v] = H!Idle
    BY <1>0 DEF OneWorker, H!Typed, H!TypeOK
  <1>3. H!Serial'
    <2>1. \A v \in Workers : H!Fresh(v)' /\ H!Ahead(v)'
      BY <1>1, <1>2 DEF H!Fresh, H!Ahead, H!Busy, H!Chosen, H!Ended
    <2>2. H!Alone'  BY DEF OneWorker, H!Alone
    <2>3. H!TraceAscends'  BY <1>0 DEF storeVars, Orderly, H!Serial, H!TraceAscends
    <2>. QED  BY <2>1, <2>2, <2>3 DEF H!Serial
  <1>4. H!Finals'
    <2>1. \A u \in Tasks : H!Completed(u)' = H!Completed(u)  BY <1>0 DEF H!Completed, storeVars
    <2>2. \A v \in Workers : H!Over(v)'  BY <1>1, <1>2 DEF H!Over, H!Busy
    <2>. QED  BY <1>0, <2>1, <2>2 DEF storeVars, Orderly, H!Finals
  <1>. QED  BY <1>0, <1>1, <1>2, <1>3, <1>4, OverUntouched DEF Orderly, storeVars

\* The callback closes a task that is not over, above its trace.
LEMMA DeadClosed ==
    ASSUME OneWorker, H!Typed, Orderly, NEW w \in Workers, run[w].phase \in H!Ended,
           NEW t \in Tasks, NEW n \in Nat,
           state[t] \notin H!Final, \A i \in DOMAIN trace[t] : trace[t][i].step < n,
           Harness!Record(t, n, "FAILED"), UNCHANGED <<report, cancelled, ckpt, run>>
    PROVE  Orderly' /\ OverKept /\ state'[t] \in H!Final
  <1>0. H!Record(t, n, "FAILED") /\ H!HarnessAssumption  BY SameHarness, PartsAssume
  <1>1. /\ state'[t] = "FAILED"
        /\ \A u \in Tasks \ {t} : state'[u] = state[u] /\ trace'[u] = trace[u]
        /\ DOMAIN trace[t] = 1 .. Len(trace[t]) /\ Len(trace[t]) \in Nat
        /\ Len(trace'[t]) = Len(trace[t]) + 1
        /\ \A i \in DOMAIN trace[t] : trace'[t][i] = trace[t][i]
        /\ trace'[t][Len(trace[t]) + 1] = [step |-> n, state |-> "FAILED"]
    BY <1>0, H!Recorded DEF H!Typed, H!States
  <1>2. \A v \in Workers : ~H!Busy(run[v]) /\ ~H!Busy(run'[v]) /\ run[v].phase \notin H!Chosen
    BY DEF OneWorker, H!Busy, H!Ended, H!Chosen
  <1>3. H!TraceAscends'
    <2>. SUFFICES ASSUME NEW u \in Tasks, NEW i \in 1 .. Len(trace'[u]) - 1
                  PROVE  trace'[u][i].step < trace'[u][i + 1].step
      BY DEF H!TraceAscends
    <2>1. CASE u # t  BY <1>1, <2>1 DEF Orderly, H!Serial, H!TraceAscends
    <2>2. CASE u = t /\ i = Len(trace[t])
      <3>1. i \in DOMAIN trace[t] /\ trace'[t][i] = trace[t][i]  BY <1>1, <2>2
      <3>. QED  BY <1>1, <2>2, <3>1
    <2>3. CASE u = t /\ i # Len(trace[t])
      <3>1. i \in 1 .. Len(trace[t]) - 1 /\ i \in DOMAIN trace[t] /\ i + 1 \in DOMAIN trace[t]
        BY <1>1, <2>3
      <3>2. trace'[t][i] = trace[t][i] /\ trace'[t][i + 1] = trace[t][i + 1]  BY <1>1, <3>1
      <3>. QED  BY <2>3, <3>1, <3>2 DEF Orderly, H!Serial, H!TraceAscends
    <2>. QED  BY <2>1, <2>2, <2>3
  <1>4. H!Serial'
    <2>1. \A v \in Workers : H!Fresh(v)' /\ H!Ahead(v)'  BY <1>2 DEF H!Fresh, H!Ahead
    <2>2. H!Alone'  BY DEF OneWorker, H!Alone
    <2>. QED  BY <1>3, <2>1, <2>2 DEF H!Serial
  <1>5. H!Finals'
    <2>1. \A u \in Tasks : H!Completed(u)' = H!Completed(u)  BY DEF H!Completed
    <2>2. \A v \in Workers : H!Over(v)'  BY <1>2 DEF H!Over
    <2>. QED  BY <1>1, <2>1, <2>2 DEF Orderly, H!Finals
  <1>6. OverKept  BY <1>1 DEF OverKept, Orderly, H!Finals, H!Final
  <1>. QED  BY <1>1, <1>4, <1>5, <1>6 DEF Orderly, H!Final

-----------------------------------------------------------------------------
(* What the one worker has in hand, and where it is with it. *)

\* Only the worker that holds an entry takes it out of the pending ones.
Holding == \A w \in Workers :
    /\ wpc[w] \in Queue!Busy => hand[w] \in pel
    /\ rest[w] \subseteq pel \ {hand[w]}

\* Another entry carries on the task of the one in hand.
Elsewhere(w) == \E j \in Queue!Live : j # hand[w] /\ entries[j].msg.task = TaskOf(w)

\* What holds at each place of the handler and of the callback.
Doing(w) ==
    /\ svc[w] \in {"review", "lookup", "post", "patch", "done"} => wpc[w] = "handle"
    /\ svc[w] \in {"fail", "alert"} => wpc[w] = "callback"
    /\ svc[w] = "review" => run[w].task = TaskOf(w)
    /\ svc[w] # "review" => run[w].phase \in {"idle", "returned"}
    /\ svc[w] = "review" /\ run[w].phase = "returned" => state[TaskOf(w)] = "SUCCESS"
    /\ svc[w] \in {"lookup", "post", "patch", "done"} => state[TaskOf(w)] = "SUCCESS"
    /\ svc[w] = "post" => page[TaskOf(w)] # "ours" \/ TaskOf(w) \in unseen
    /\ svc[w] = "fail" =>
          /\ state[TaskOf(w)] \notin H!Final
          /\ \A i \in DOMAIN trace[TaskOf(w)] : trace[TaskOf(w)][i].step < dlqStep[w]
    /\ svc[w] = "alert" => state[TaskOf(w)] \in H!Final
    /\ wpc[w] = "ack" => state[TaskOf(w)] \in H!Final \/ Elsewhere(w)

\* Where the first page has room, no review was posted.
Unposted == \A t \in Tasks : page[t] = "room" => comments[t] = 0

Sound == Typed /\ Orderly /\ Holding /\ Unposted /\ \A w \in Workers : Doing(w)

\* The entries the one worker holds stay pending until it acknowledges them.
LEMMA HoldingStep ==
    ASSUME OneWorker, Typed, Holding, [Next]_vars
    PROVE  Holding'
  <1>. DEFINE Here(w) == /\ wpc[w] \in Queue!Busy => hand[w] \in pel
                         /\ rest[w] \subseteq pel \ {hand[w]}
  <1>1. ASSUME NEW w \in Workers PROVE Here(w)'
    <2>0. /\ Here(w) /\ pel \subseteq 1 .. read /\ read \in Nat
          /\ wpc \in [Workers -> Queue!Phases] /\ hand \in [Workers -> 0 .. read]
          /\ rest \in [Workers -> SUBSET (1 .. read)] /\ stale \subseteq pel
      <3>1. Q!TypeOK /\ Queue!TypeOK  BY SameQueue DEF Typed, TypeOK
      <3>. QED  BY <3>1, Q!StreamTypes DEF Holding, Queue!TypeOK
    <2>1. ASSUME UNCHANGED <<wpc, hand, rest, pel>> PROVE Here(w)'  BY <2>0, <2>1
    <2>2. ASSUME Q!Abandon(w) \/ Q!Halt(w) PROVE Here(w)'
      <3>1. wpc'[w] \in {"read", "claim", "exited", "down"} /\ hand'[w] = 0 /\ rest'[w] = {}
        <4>1. CASE Q!Halt(w)  BY <2>0, <4>1 DEF Q!Halt
        <4>2. CASE Q!Abandon(w)
          <5>1. src[w] \in {"claim", "read"}  BY DEF Typed, TypeOK, Queue!TypeOK, Queue!Calls
          <5>. QED  BY <2>0, <4>2, <5>1 DEF Q!Abandon
        <4>. QED  BY <2>2, <4>1, <4>2
      <3>. QED  BY <3>1 DEF Queue!Busy
    <2>3. ASSUME NEW phase, Q!GoTo(w, phase), pel' = pel, phase \in Queue!Busy => wpc[w] \in Queue!Busy
          PROVE  Here(w)'
      BY <2>0, <2>3 DEF Q!GoTo
    <2>4. ASSUME NEW S, S \subseteq pel', NEW call \in {"claim", "read"}, Q!Turn(w, S, call) PROVE Here(w)'
      <3>1. CASE hand'[w] = 0 /\ rest'[w] = {} /\ wpc'[w] \in {"claim", "read"}
        BY <3>1 DEF Queue!Busy
      <3>2. CASE \E i \in S : hand'[w] = i /\ rest'[w] = S \ {i}
        BY <2>4, <3>2
      <3>. QED  BY <2>0, <2>4, <3>1, <3>2 DEF Q!Turn, Q!OtherCall
    <2>5. ASSUME NEW v \in Workers, Q!Work(v) PROVE Here(w)'
      <3>0. v = w  BY DEF OneWorker
      <3>1. CASE Q!ReclaimStale(w)
        <4>1. Q!Batch(stale) \subseteq pel'  BY <2>0, <3>1 DEF Q!ReclaimStale, Q!Batch
        <4>. QED  BY <2>4, <3>1, <4>1 DEF Q!ReclaimStale
      <3>2. CASE Q!ReadNew(w)
        <4>1. CASE Q!Turn(w, {read + 1}, "read") /\ pel' = pel \cup {read + 1}  BY <2>4, <4>1
        <4>2. CASE Q!Turn(w, {}, "read")  BY <2>4, <4>2
        <4>. QED  BY <3>2, <4>1, <4>2 DEF Q!ReadNew
      <3>3. CASE Q!Ack(w)
        <4>1. rest[w] \subseteq pel' /\ src[w] \in {"claim", "read"}
          BY <2>0, <3>3 DEF Q!Ack, Typed, TypeOK, Queue!TypeOK, Queue!Calls
        <4>. QED  BY <2>4, <3>3, <4>1 DEF Q!Ack
      <3>4. CASE Q!RefuseForeign(w) \/ Q!Requeue(w) \/ Q!Bury(w) \/ Q!Callback(w)
        BY <2>3, <3>4
           DEF Q!RefuseForeign, Q!Requeue, Q!Bury, Q!Callback, Q!redis, Queue!Busy
      <3>5. CASE Q!ClaimedForeign(w)  BY <2>2, <3>5 DEF Q!ClaimedForeign
      <3>. QED  BY <2>5, <3>0, <3>1, <3>2, <3>3, <3>4, <3>5 DEF Q!Work
    <2>6. ASSUME NEW v \in Workers, Q!Handle(v) PROVE Here(w)'
      <3>0. v = w  BY DEF OneWorker
      <3>. QED
        BY <2>3, <2>6, <3>0
           DEF Q!Handle, Q!HandlerReturns, Q!HandlerRefuses, Q!HandlerFails, Q!FailTo, Q!redis, Queue!Busy
    <2>7. ASSUME NEW v \in Workers, Q!Fault(v) PROVE Here(w)'
      <3>0. v = w  BY DEF OneWorker
      <3>1. CASE Q!ClaimFault(w) \/ Q!ReadFault(w)
        BY <2>3, <3>1 DEF Q!ClaimFault, Q!ReadFault, Queue!Busy
      <3>. QED
        BY <2>2, <2>7, <3>0, <3>1
           DEF Q!Fault, Q!RequeueFault, Q!BuryFault, Q!CallbackFault, Q!AckFault
    <2>8. ASSUME NEW v \in Workers, Q!Crash(v) \/ Q!Close(v) \/ Q!Restart(v) PROVE Here(w)'
      <3>0. v = w  BY DEF OneWorker
      <3>. QED
        BY <2>2, <2>3, <2>8, <3>0 DEF Q!Crash, Q!Close, Q!Restart, Q!redis, Queue!Busy
    <2>9. ASSUME UNCHANGED Q!vars \/ QuietQueue \/ (\E m \in Messages : Q!Produce(m))
                 \/ (\E i \in pel : Q!LeaseExpires(i))
          PROVE  Here(w)'
      BY <2>1, <2>9 DEF Q!vars, Q!redis, Q!threads, QuietQueue, queueVars, Q!Produce, Q!Submit,
           Q!WriteForeign, Q!Replay, Q!Enqueue, Q!LeaseExpires
    <2>. QED  BY <2>5, <2>6, <2>7, <2>8, <2>9, QueueSteps DEF Q!Next
  <1>. QED  BY <1>1 DEF Holding

\* A run keeps its task; the one that returns has succeeded.
LEMMA RunEnds ==
    ASSUME Typed, NEW w \in Workers, Harness!Advance(w)
    PROVE  /\ run'[w].task = run[w].task
           /\ run'[w].phase = "returned" => state'[run[w].task] = "SUCCESS"
  <1>0. /\ run \in [Workers -> H!Context] /\ H!Place(run[w]) /\ state \in [Tasks -> H!States]
        /\ run[w] \in H!Context
    BY DEF Typed, H!Typed, H!TypeOK, H!Placed, H!Context
  <1>1. ASSUME NEW y, Harness!Local(w, y) PROVE run'[w] = y
    BY <1>0, <1>1 DEF Harness!Local
  <1>. DEFINE x == run[w]
              Good(y) == y.task = x.task /\ y.phase # "returned"
  <1>2. ASSUME NEW p \in H!Phases \ {"returned"} 
        PROVE  /\ Good([x EXCEPT !.phase = p]) /\ Good([x EXCEPT !.phase = p, !.step = @ + 1])
               /\ Good([x EXCEPT !.phase = p, !.steps = @ + 1]) /\ Good([x EXCEPT !.phase = p, !.offset = @ + 1])
               /\ \A k : Good([x EXCEPT !.phase = p, !.offset = 1, !.node = k])
               /\ \A d, k : Good([x EXCEPT !.phase = p, !.seen = d, !.node = k, !.offset = 1])
               /\ \A c : Good([x EXCEPT !.phase = p, !.ctx = c])
               /\ \A c : Good([x EXCEPT !.phase = p, !.ctx = c, !.step = @ + 1])
    BY <1>0, <1>2 DEF H!Context
  <1>. HIDE DEF Good
  <1>3. ASSUME NEW y, Good(y), Harness!Local(w, y) PROVE Good(run'[w])
    BY <1>1, <1>3
  <1>. USE DEF H!Phases
  <1>4. CASE Harness!LoadContext(w) \/ Harness!LoadCheckpoints(w) \/ Harness!Node(w)
    <2>1. ASSUME NEW p \in {"redo", "fail"}, Harness!WriteFails(w, p) PROVE Good(run'[w])
      BY <1>2, <1>3, <2>1 DEF Harness!WriteFails
    <2>0. ASSUME NEW p \in {"raised", "unread"}, Harness!ReadFails(w, p) PROVE Good(run'[w])
      BY <1>2, <1>3, <2>0 DEF Harness!ReadFails
    <2>17. ASSUME Harness!GuardFails(w) PROVE Good(run'[w])
      BY <2>0, <2>17 DEF Harness!GuardFails
    <2>2. ASSUME Harness!SaveNode(w) PROVE Good(run'[w])
      <3>1. ASSUME Harness!GoOn(w) PROVE Good(run'[w])
        <4>1. \A k : Good([x EXCEPT !.phase = "node", !.offset = 1, !.node = k])  BY <1>2
        <4>. QED  BY <1>3, <3>1, <4>1 DEF Harness!GoOn
      <3>. QED  BY <2>1, <2>2, <3>1 DEF Harness!SaveNode
    <2>3. CASE Harness!RetryNode(w)
      BY <1>2, <1>3, <2>1, <2>3, Zenon DEF Harness!RetryNode, Good
    <2>4. ASSUME Harness!LoadContext(w) PROVE Good(run'[w])
      BY <1>2, <1>3, <2>0, <2>4, Zenon DEF Harness!LoadContext
    <2>5. ASSUME Harness!LoadCheckpoints(w) PROVE Good(run'[w])
      BY <1>2, <1>3, <2>0, <2>5, Zenon DEF Harness!LoadCheckpoints
    <2>6. ASSUME Harness!GuardCancelled(w) PROVE Good(run'[w])
      BY <1>2, <1>3, <2>6, Zenon DEF Harness!GuardCancelled
    <2>7. ASSUME Harness!GuardBudget(w) PROVE Good(run'[w])
      BY <1>2, <1>3, <2>7, Zenon DEF Harness!GuardBudget
    <2>8. ASSUME Harness!StartNode(w) PROVE Good(run'[w])
      BY <1>2, <1>3, <2>8, Zenon DEF Harness!StartNode
    <2>9. ASSUME Harness!AllNodesDone(w) PROVE Good(run'[w])
      BY <1>2, <1>3, <2>9, Zenon DEF Harness!AllNodesDone
    <2>10. ASSUME Harness!RejectDiff(w) PROVE Good(run'[w])
      BY <1>2, <1>3, <2>10, Zenon DEF Harness!RejectDiff
    <2>11. ASSUME Harness!NoTransition(w) PROVE Good(run'[w])
      BY <1>2, <1>3, <2>11, Zenon DEF Harness!NoTransition
    <2>12. ASSUME Harness!Transition(w) PROVE Good(run'[w])
      BY <1>2, <1>3, <2>12, Zenon DEF Harness!Transition
    <2>13. ASSUME Harness!TransitionFails(w) PROVE Good(run'[w])
      BY <1>2, <1>3, <2>13, Zenon DEF Harness!TransitionFails
    <2>14. ASSUME Harness!BadTransition(w) PROVE Good(run'[w])
      BY <1>2, <1>3, <2>14, Zenon DEF Harness!BadTransition
    <2>15. ASSUME Harness!NodeReturns(w) PROVE Good(run'[w])
      BY <1>2, <1>3, <2>15, Zenon DEF Harness!NodeReturns
    <2>16. ASSUME Harness!NodeRaises(w) PROVE Good(run'[w])
      BY <1>2, <1>3, <2>16, Zenon DEF Harness!NodeRaises
    <2>. QED
      BY <1>4, <2>2, <2>3, <2>4, <2>5, <2>6, <2>7, <2>8, <2>9, <2>10, <2>11, <2>12, <2>13, <2>14, <2>15, <2>16, <2>17 DEF Harness!Node, Good
  <1>5. ASSUME NEW p \in {"fail", "raised"}, Harness!WriteFails(w, p) \/ Harness!EventFails(w, p)
        PROVE  Good(run'[w])
    BY <1>2, <1>3, <1>5 DEF Harness!WriteFails, Harness!EventFails
  <1>6. CASE Harness!Succeed(w)
    <2>1. CASE Harness!EventFails(w, "fail")  BY <1>5, <2>1 DEF Good
    <2>2. CASE /\ Harness!Record(x.task, x.step + 1, "SUCCESS")
               /\ Harness!Local(w, [x EXCEPT !.phase = "returned", !.step = @ + 1])
      <3>1. x.task \in Tasks
        BY <1>0, <1>6 DEF Harness!Succeed, Harness!At, H!Place, H!Ended
      <3>2. state'[x.task] = "SUCCESS"  BY <1>0, <2>2, <3>1 DEF Harness!Record
      <3>3. run'[w] = [x EXCEPT !.phase = "returned", !.step = @ + 1]  BY <1>1, <2>2
      <3>4. run'[w].task = x.task  BY <1>0, <3>3 DEF H!Context
      <3>. QED  BY <3>2, <3>4
    <2>. QED  BY <1>6, <2>1, <2>2 DEF Harness!Succeed
  <1>7. CASE Harness!RecordCancel(w) \/ Harness!RecordFailure(w) \/ Harness!NoteFailure(w)
    BY <1>2, <1>3, <1>5, <1>7, Zenon DEF Harness!RecordCancel, Harness!RecordFailure, Harness!NoteFailure, Good
  <1>. QED  BY <1>4, <1>6, <1>7 DEF Harness!Advance

\* Every step of the service keeps the runs orderly and what is over as it is.
LEMMA OrderlyStep ==
    ASSUME OneWorker, Sound, [Next]_vars
    PROVE  Orderly' /\ OverKept
  <1>0. H!Typed /\ Orderly  BY DEF Sound, Typed
  <1>1. CASE UNCHANGED harnessVars  BY <1>0, <1>1, RunsUntouched
  <1>2. ASSUME NEW t \in Tasks, CancelTask(t) PROVE Orderly' /\ OverKept
    BY <1>0, <1>2, RunsUntouched DEF CancelTask
  <1>3. ASSUME NEW w \in Workers, EndRun(w) PROVE Orderly' /\ OverKept
    BY <1>0, <1>3, RunDropped
  <1>4. ASSUME NEW w \in Workers, ReviewStep(w) PROVE Orderly' /\ OverKept
    BY <1>0, <1>4, RunAdvances DEF ReviewStep
  <1>5. ASSUME NEW w \in Workers, StartReview(w) PROVE Orderly' /\ OverKept
    <2>1. TaskOf(w) \in Tasks
      BY <1>5, TaskTypes DEF StartReview, SvcAt, Queue!Busy, Sound, Typed, TypeOK
    <2>. QED  BY <1>0, <1>5, <2>1, RunBegins DEF StartReview
  <1>6. ASSUME NEW w \in Workers, FailDeadTask(w) PROVE Orderly' /\ OverKept
    <2>1. TaskOf(w) \in Tasks /\ dlqStep[w] \in Nat
      BY <1>6, TaskTypes DEF FailDeadTask, FailDeadAs, Queue!Busy, Sound, Typed, TypeOK
    <2>2. run[w].phase \in H!Ended /\ state[TaskOf(w)] \notin H!Final
          /\ \A i \in DOMAIN trace[TaskOf(w)] : trace[TaskOf(w)][i].step < dlqStep[w]
      BY <1>6 DEF Sound, Doing, FailDeadTask, FailDeadAs, H!Ended
    <2>. QED  BY <1>0, <1>6, <2>1, <2>2, DeadClosed DEF FailDeadTask, FailDeadAs
  <1>. QED
    BY <1>1, <1>2, <1>3, <1>4, <1>5, <1>6
       DEF Next, vars, Request, CreateTask, CreateDeferredTask, SavePayload, SubmitTask, ResumeTask,
           ReplayDeadLetter, QueueStep, QueueFault, Handle, FetchDiff, ReadTaskFails, FetchFails, Raise, Return,
           ReviewRaised, ReviewReturned, ObserveFails, LookupComment, LookupFinds, PatchComment,
           PostComment, CommentFails, ReviewDone, ReadDeadTask, ReadDeadAnd, RaiseAlert, ReplyLost,
           Crash, CallbackFails, Interrupt, Restart, LeaseExpires

\* What a thread has in hand, while it keeps it, and what carries its task besides.
LEMMA HandKept ==
    ASSUME Queue!TypeOK, [Next]_vars, NEW w \in Workers, wpc[w] \in Queue!Busy, hand'[w] = hand[w]
    PROVE  /\ TaskOf(w)' = TaskOf(w)
           /\ (\A v \in Workers : wpc[v] # "ack") /\ Elsewhere(w) => Elsewhere(w)'
  <1>1. hand[w] \in Q!Indices  BY TaskTypes
  <1>2. \A i \in Q!Indices : i \in Q!Indices' /\ entries'[i] = entries[i]  BY QueueKept
  <1>3. TaskOf(w)' = TaskOf(w)  BY <1>1, <1>2 DEF TaskOf, Queue!InHand
  <1>4. ASSUME \A v \in Workers : wpc[v] # "ack", Elsewhere(w) PROVE Elsewhere(w)'
    <2>1. Queue!Live \subseteq Queue!Live'
      <3>1. \A v \in Workers : ~Q!Acks(v)  BY <1>4 DEF Q!Acks, Q!Ack, Q!AckFault
      <3>. QED  BY <3>1, QueueKept
    <2>2. PICK j \in Queue!Live : j # hand[w] /\ entries[j].msg.task = TaskOf(w)
      BY <1>4 DEF Elsewhere
    <2>3. j \in Q!Indices  BY SameQueue, PartsAssume, Q!LiveIndices
    <2>4. j \in Queue!Live' /\ j # hand'[w] /\ entries'[j].msg.task = TaskOf(w)'
      BY <1>2, <1>3, <2>1, <2>2, <2>3
    <2>. QED  BY <2>4 DEF Elsewhere
  <1>. QED  BY <1>3, <1>4

\* No review comes onto the first page of its issue.
PageKept == \A t \in Tasks : page'[t] = "ours" => page[t] = "ours"

\* A step that leaves the thread and its task alone.
LEMMA DoingQuiet ==
    ASSUME Sound, [Next]_vars, NEW w \in Workers, \A v \in Workers : v = w,
           UNCHANGED <<wpc, hand, svc, run, state, trace, dlqStep, unseen>>, PageKept, wpc[w] # "ack" \/ Elsewhere(w)' \/ state[TaskOf(w)] \in H!Final
    PROVE  Doing(w)'
  <1>1. wpc[w] \in Queue!Busy => TaskOf(w)' = TaskOf(w)
    BY HandKept DEF Sound, Typed, TypeOK
  <1>2. Doing(w)  BY DEF Sound
  <1>3. wpc[w] = "handle" => TaskOf(w) \in Tasks  BY TaskTypes DEF Sound, Typed, TypeOK, Queue!Busy
  <1>. QED  BY <1>1, <1>2, <1>3 DEF Doing, Queue!Busy, PageKept

\* Wherever the worker is in the handler or the callback, what holds there holds.
LEMMA DoingStep ==
    ASSUME OneWorker, Sound, [Next]_vars, NEW w \in Workers
    PROVE  Doing(w)'
  <1>0. /\ Doing(w) /\ Queue!TypeOK /\ H!Typed /\ \A v \in Workers : v = w
        /\ svc \in [Workers -> {"idle", "review", "lookup", "post", "patch", "done", "fail", "alert"}]
        /\ wpc \in [Workers -> Queue!Phases] /\ run \in [Workers -> H!Context]
        /\ dlqStep \in [Workers -> Nat] /\ page \in [Tasks -> {"room", "full", "ours"}]
    BY DEF Sound, Typed, TypeOK, Queue!TypeOK, H!Typed, H!TypeOK, H!Context, OneWorker
  <1>1. wpc[w] \in {"handle", "callback"} => TaskOf(w) \in Tasks /\ wpc[w] \in Queue!Busy
    BY <1>0, TaskTypes DEF Queue!Busy
  <1>2. wpc[w] \in Queue!Busy /\ hand'[w] = hand[w] => TaskOf(w)' = TaskOf(w)
    BY <1>0, HandKept
  \* The queue's own calls, between two messages or after the handler.
  <1>3. ASSUME NEW v \in Workers, QueueStep(v) \/ QueueFault(v) \/ Restart(v) PROVE Doing(w)'
    <2>0. v = w  BY <1>0
    <2>1. wpc[w] \notin {"handle", "callback"}
      BY <1>3, <2>0
         DEF QueueStep, QueueFault, Restart, Queue!ReclaimStale, Queue!ReadNew, Queue!Requeue, Queue!Bury,
             Queue!Ack, Queue!ClaimFault, Queue!RequeueFault, Queue!BuryFault, Queue!AckFault, Queue!Restart
    <2>2. svc[w] = "idle" /\ UNCHANGED <<harnessVars, serviceVars>>
      BY <1>0, <1>3, <2>1 DEF Doing, QueueStep, QueueFault, Restart
    <2>3. ASSUME wpc'[w] = "ack" PROVE Elsewhere(w)'
      <3>1. Queue!Requeue(w)
        <4>1. CASE QueueStep(w)
          BY <1>0, <2>1, <2>3, <4>1
             DEF QueueStep, Queue!ReclaimStale, Queue!ReadNew, Queue!Bury, Queue!Ack, Queue!Turn,
                 Queue!OtherCall, Queue!GoTo
        <4>2. CASE QueueFault(w) \/ Restart(w)
          <5>1. src[w] \in {"claim", "read"}  BY <1>0 DEF Queue!TypeOK, Queue!Calls
          <5>. QED
            BY <1>0, <2>3, <4>2, <5>1
               DEF QueueFault, Restart, Queue!ClaimFault, Queue!RequeueFault, Queue!BuryFault,
                   Queue!AckFault, Queue!Restart, Queue!Abandon, Queue!GoTo
        <4>. QED  BY <1>3, <2>0, <4>1, <4>2
      <3>2. Q!TypeOK /\ Q!AddRetry(w) /\ wpc[w] \in Q!Busy /\ Q!ConstantsAssumption
            /\ UNCHANGED <<read, hand>> /\ wpc[w] \in Queue!Busy
        BY <1>0, <3>1, SameQueue, PartsAssume
           DEF Q!Requeue, Queue!Requeue, Queue!GoTo, Queue!Busy
      <3>3. /\ Len(entries') = Len(entries) + 1
            /\ entries'[Len(entries')] = Q!Envelope(Q!InHand(w), Q!Attempt(w), TRUE)
            /\ hand[w] \in 1 .. Len(entries) /\ Len(entries) \in Nat /\ read \in Nat /\ read <= Len(entries)
        BY <3>2, Q!RetryAdded, Q!HandTypes, Q!StreamTypes
      <3>4. TaskOf(w)' = TaskOf(w) /\ hand'[w] = hand[w]  BY <1>2, <3>2
      <3>5. entries'[Len(entries')].msg.task = TaskOf(w)'
        BY <3>3, <3>4, SameQueue DEF Q!Envelope, TaskOf
      <3>6. Len(entries') \in Queue!Live' /\ Len(entries') # hand'[w]
        BY <3>2, <3>3, <3>4 DEF Queue!Live
      <3>. QED  BY <3>5, <3>6 DEF Elsewhere
    <2>. QED
      BY <1>0, <2>2, <2>3 DEF Doing, harnessVars, storeVars, serviceVars
  \* The handler or the callback ends, or the thread does.
  <1>4. ASSUME EndRun(w), SvcGo(w, "idle"), wpc'[w] = "ack" => state[TaskOf(w)] = "SUCCESS" /\ TaskOf(w)' = TaskOf(w)
        PROVE  Doing(w)'
    <2>1. svc'[w] = "idle" /\ run'[w].phase = "idle" /\ state' = state
      BY <1>0, <1>4 DEF EndRun, SvcGo, Harness!Idle, storeVars
    <2>. QED  BY <1>4, <2>1 DEF Doing, H!Final
  <1>5. ASSUME NEW v \in Workers, Raise(v) PROVE Doing(w)'
    <2>1. v = w  BY <1>0
    <2>2. wpc'[w] # "ack"
      BY <1>0, <1>5, <2>1 DEF Raise, Queue!HandlerFails, Queue!FailTo, Queue!GoTo
    <2>. QED  BY <1>4, <1>5, <2>1, <2>2 DEF Raise
  <1>6. ASSUME NEW v \in Workers, Return(v), state[TaskOf(w)] = "SUCCESS" PROVE Doing(w)'
    <2>1. v = w  BY <1>0
    <2>2. wpc[w] \in Queue!Busy /\ hand'[w] = hand[w]
      BY <1>6, <2>1 DEF Return, Queue!HandlerReturns, Queue!GoTo, Queue!Busy
    <2>. QED  BY <1>2, <1>4, <1>6, <2>1, <2>2 DEF Return
  <1>7. ASSUME NEW v \in Workers, Crash(v) \/ CallbackFails(v) PROVE Doing(w)'
    <2>1. v = w  BY <1>0
    <2>2. src[w] \in {"claim", "read"}  BY <1>0 DEF Queue!TypeOK, Queue!Calls
    <2>3. wpc'[w] # "ack"
      BY <1>0, <1>7, <2>1, <2>2
         DEF Crash, CallbackFails, Queue!Crash, Queue!Halt, Queue!CallbackFault, Queue!Abandon
    <2>. QED  BY <1>4, <1>7, <2>1, <2>3 DEF Crash, CallbackFails, Interrupt
  \* Steps of requests and of time.
  <1>8. ASSUME UNCHANGED <<wpc, hand, svc, run, state, trace, dlqStep, unseen>>, PageKept,
               Queue!Live \subseteq Queue!Live'
        PROVE  Doing(w)'
    <2>1. ASSUME wpc[w] = "ack", Elsewhere(w) PROVE Elsewhere(w)'
      <3>1. PICK j \in Queue!Live : j # hand[w] /\ entries[j].msg.task = TaskOf(w)
        BY <2>1 DEF Elsewhere
      <3>2. j \in Q!Indices  BY <1>0, SameQueue, PartsAssume, Q!LiveIndices
      <3>3. entries'[j] = entries[j]  BY <1>0, <3>2, QueueKept
      <3>4. TaskOf(w)' = TaskOf(w)  BY <1>2, <1>8, <2>1 DEF Queue!Busy
      <3>5. j \in Queue!Live' /\ j # hand'[w] /\ entries'[j].msg.task = TaskOf(w)'
        BY <1>8, <3>1, <3>3, <3>4
      <3>. QED  BY <3>5 DEF Elsewhere
    <2>2. wpc[w] = "ack" => state[TaskOf(w)] \in H!Final \/ Elsewhere(w)  BY <1>0 DEF Doing
    <2>. QED  BY <1>0, <1>8, <2>1, <2>2, DoingQuiet
  <1>9. ASSUME UNCHANGED <<read, pel, wpc, hand, svc, run, state, trace, dlqStep, unseen>>, PageKept
        PROVE  Doing(w)'
    <2>1. Queue!Live \subseteq Queue!Live'
      <3>1. \A v \in Workers : Q!Acks(v) => v = w /\ wpc'[w] # "ack" /\ wpc[w] = "ack"
        <4>1. src[w] \in {"claim", "read"}  BY <1>0 DEF Queue!TypeOK, Queue!Calls
        <4>. QED
          BY <1>0, <4>1 DEF Q!Acks, Q!Ack, Q!AckFault, Q!Abandon, Q!Turn, Q!OtherCall
      <3>. QED  BY <1>0, <1>9, <3>1, QueueKept
    <2>. QED  BY <1>8, <1>9, <2>1
  <1>10. ASSUME NEW t \in Tasks, Request(t) PROVE Doing(w)'
    BY <1>0, <1>9, <1>10
       DEF PageKept, Request, CreateTask, CreateDeferredTask, SavePayload, SubmitTask, ResumeTask, CancelTask,
           Queue!Submit, Queue!Enqueue, Queue!threads, queueVars, harnessVars, storeVars, serviceVars,
           Harness!RequestCancel
  <1>11. ASSUME NEW m \in Messages, ReplayDeadLetter(m) PROVE Doing(w)'
    BY <1>9, <1>11
       DEF PageKept, ReplayDeadLetter, Queue!Replay, Queue!Enqueue, Queue!threads, harnessVars, storeVars, serviceVars
  <1>12. ASSUME NEW i \in pel, LeaseExpires(i) PROVE Doing(w)'
    BY <1>9, <1>12
       DEF PageKept, LeaseExpires, Queue!LeaseExpires, Queue!threads, harnessVars, storeVars, serviceVars
  <1>13. CASE UNCHANGED vars
    BY <1>9, <1>13 DEF PageKept, vars, queueVars, harnessVars, storeVars, serviceVars
  \* The handler.
  <1>. DEFINE Still == UNCHANGED <<queueVars, mishaps>>
  <1>14. ASSUME UNCHANGED queueVars PROVE wpc' = wpc /\ hand' = hand
    BY <1>14 DEF queueVars
  <1>15. ASSUME NEW v \in Workers, FetchDiff(v) PROVE Doing(w)'
    <2>1. CASE UNCHANGED <<queueVars, harnessVars, svc>>
      BY <1>9, <1>15, <2>1 DEF PageKept, FetchDiff, queueVars, harnessVars, storeVars
    <2>. QED  BY <1>5, <1>15, <2>1 DEF FetchDiff, FetchFails
  <1>16. ASSUME NEW v \in Workers, StartReview(v) PROVE Doing(w)'
    <2>1. v = w /\ svc'[w] = "review" /\ wpc[w] = "handle" /\ wpc'[w] = "handle" /\ TaskOf(w)' = TaskOf(w)
      BY <1>0, <1>1, <1>2, <1>14, <1>16 DEF StartReview, SvcAt, SvcGo
    <2>2. run'[w].task = TaskOf(w) /\ (run'[w].phase = "returned" => state'[TaskOf(w)] = "SUCCESS")
      <3>1. Harness!Begin(w, TaskOf(w)) /\ UNCHANGED state
        BY <1>16, <2>1 DEF StartReview, Harness!Begin, Harness!Enter, Harness!store
      <3>2. run'[w] = IF Harness!Finished(TaskOf(w))
                THEN [Harness!Idle EXCEPT !.phase = "returned", !.task = TaskOf(w)]
                ELSE [Harness!Idle EXCEPT !.phase = "begun", !.task = TaskOf(w),
                                          !.step = Harness!LastStep(TaskOf(w))]
        BY <1>0, <3>1 DEF Harness!Begin, Harness!Enter, Harness!Local
      <3>. QED  BY <3>1, <3>2 DEF Harness!Idle, Harness!Finished
    <2>. QED  BY <2>1, <2>2 DEF Doing
  <1>17. ASSUME NEW v \in Workers, ReviewStep(v) PROVE Doing(w)'
    <2>1. /\ v = w /\ svc' = svc /\ svc[w] = "review" /\ wpc[w] = "handle" /\ wpc'[w] = "handle"
          /\ TaskOf(w)' = TaskOf(w) /\ Harness!Advance(w)
      BY <1>0, <1>1, <1>2, <1>14, <1>17 DEF ReviewStep, SvcAt, serviceVars
    <2>2. run'[w].task = TaskOf(w) /\ (run'[w].phase = "returned" => state'[TaskOf(w)] = "SUCCESS")
      BY <1>0, <2>1, RunEnds DEF Sound, Doing
    <2>. QED  BY <2>1, <2>2 DEF Doing
  <1>18. ASSUME NEW v \in Workers, ReviewReturned(v) PROVE Doing(w)'
    <2>1. /\ v = w /\ svc[w] = "review" /\ wpc[w] = "handle" /\ run[w].phase = "returned"
          /\ state[TaskOf(w)] = "SUCCESS"
      BY <1>0, <1>18 DEF ReviewReturned, SvcAt, Harness!At, Doing
    <2>2. CASE SvcGo(w, "lookup") /\ UNCHANGED <<queueVars, harnessVars, mishaps>>
      <3>1. /\ svc'[w] = "lookup" /\ wpc'[w] = "handle" /\ TaskOf(w)' = TaskOf(w)
            /\ state' = state /\ run' = run
        BY <1>0, <1>1, <1>2, <1>14, <2>1, <2>2 DEF SvcGo, harnessVars, storeVars
      <3>. QED  BY <2>1, <3>1 DEF Doing
    <2>. QED  BY <1>6, <1>18, <2>1, <2>2 DEF ReviewReturned
  <1>19. ASSUME NEW v \in Workers, LookupComment(v) \/ PatchComment(v) \/ PostComment(v) \/ ReplyLost(v)
         PROVE  Doing(w)'
    <2>1. /\ v = w /\ svc[w] \in {"lookup", "post", "patch"} /\ wpc[w] = "handle" /\ wpc'[w] = "handle"
          /\ TaskOf(w)' = TaskOf(w) /\ state' = state /\ run' = run /\ TaskOf(w) \in Tasks
          /\ state[TaskOf(w)] = "SUCCESS" /\ run[w].phase \in {"idle", "returned"}
      BY <1>0, <1>1, <1>2, <1>14, <1>19
         DEF LookupComment, LookupFinds, PatchComment, PostComment, ReplyLost, SvcAt, harnessVars, storeVars, Doing
    <2>2. \/ svc'[w] \in {"patch", "done"}
          \/ svc'[w] = "post" /\ (page'[TaskOf(w)] # "ours" \/ TaskOf(w) \in unseen')
      <3>1. CASE LookupComment(w)
        BY <1>0, <2>1, <3>1 DEF LookupComment, LookupFinds, SvcGo
      <3>2. CASE PatchComment(w) \/ PostComment(w)
        BY <1>0, <3>2 DEF PatchComment, PostComment, SvcGo
      <3>3. CASE ReplyLost(w)
        BY <1>0, <3>3 DEF ReplyLost, SvcAt
      <3>. QED  BY <1>19, <2>1, <3>1, <3>2, <3>3
    <2>. QED  BY <2>1, <2>2 DEF Doing
  <1>20. ASSUME NEW v \in Workers, ReviewDone(v) PROVE Doing(w)'
    <2>1. v = w /\ state[TaskOf(w)] = "SUCCESS"  BY <1>0, <1>20 DEF ReviewDone, SvcAt, Doing
    <2>. QED  BY <1>6, <1>20, <2>1 DEF ReviewDone
  \* The callback.
  <1>21. ASSUME NEW v \in Workers, ReadDeadTask(v) PROVE Doing(w)'
    <2>1. /\ v = w /\ svc[w] = "idle" /\ wpc[w] = "callback" /\ wpc'[w] = "callback"
          /\ TaskOf(w)' = TaskOf(w) /\ state' = state /\ run' = run /\ trace' = trace /\ TaskOf(w) \in Tasks
          /\ run[w].phase \in {"idle", "returned"}
      BY <1>0, <1>1, <1>2, <1>14, <1>21
         DEF ReadDeadTask, ReadDeadAnd, harnessVars, storeVars, Doing
    <2>2. CASE state[TaskOf(w)] \in Harness!Final
      <3>1. svc'[w] = "alert"  BY <1>0, <1>21, <2>1, <2>2 DEF ReadDeadTask, ReadDeadAnd, SvcGo
      <3>. QED  BY <2>1, <2>2, <3>1, SameHarness DEF Doing
    <2>3. CASE state[TaskOf(w)] \notin Harness!Final
      <3>1. svc'[w] = "fail" /\ dlqStep'[w] = H!LastStep(TaskOf(w)) + 1
        BY <1>0, <1>21, <2>1, <2>3, SameHarness DEF ReadDeadTask, ReadDeadAnd, SvcGo
      <3>2. /\ H!LastStep(TaskOf(w)) \in Nat
            /\ \A i \in DOMAIN trace[TaskOf(w)] : trace[TaskOf(w)][i].step <= H!LastStep(TaskOf(w))
        BY <1>0, <2>1, PartsAssume, H!LastStepFacts DEF H!Typed
      <3>3. \A i \in DOMAIN trace[TaskOf(w)] : trace[TaskOf(w)][i].step \in Nat
        <4>1. trace[TaskOf(w)] \in Seq(H!Event)  BY <1>0, <2>1 DEF H!Typed, H!TypeOK, H!Event
        <4>2. \A i \in DOMAIN trace[TaskOf(w)] : trace[TaskOf(w)][i] \in H!Event  BY <4>1
        <4>. QED  BY <4>2 DEF H!Event
      <3>4. \A i \in DOMAIN trace[TaskOf(w)] : trace[TaskOf(w)][i].step < dlqStep'[w]
        BY <3>1, <3>2, <3>3
      <3>. QED  BY <2>1, <2>3, <3>1, <3>4, SameHarness DEF Doing
    <2>. QED  BY <2>2, <2>3
  <1>22. ASSUME NEW v \in Workers, FailDeadTask(v) PROVE Doing(w)'
    <2>1. /\ v = w /\ svc[w] = "fail" /\ svc'[w] = "alert" /\ wpc[w] = "callback" /\ wpc'[w] = "callback"
          /\ TaskOf(w)' = TaskOf(w) /\ run' = run /\ TaskOf(w) \in Tasks /\ run[w].phase \in {"idle", "returned"}
      BY <1>0, <1>1, <1>2, <1>14, <1>22 DEF FailDeadTask, FailDeadAs, SvcGo, Doing
    <2>2. state'[TaskOf(w)] = "FAILED"
      BY <1>0, <1>22, <2>1 DEF FailDeadTask, FailDeadAs, Harness!Record, H!Typed, H!TypeOK
    <2>. QED  BY <2>1, <2>2 DEF Doing, H!Final
  <1>23. ASSUME NEW v \in Workers, RaiseAlert(v) PROVE Doing(w)'
    <2>1. /\ v = w /\ svc[w] = "alert" /\ svc'[w] = "idle" /\ wpc[w] = "callback" /\ wpc'[w] = "ack"
          /\ hand' = hand /\ run' = run /\ state' = state /\ run[w].phase \in {"idle", "returned"}
          /\ state[TaskOf(w)] \in H!Final
      BY <1>0, <1>23
         DEF RaiseAlert, SvcGo, Queue!Callback, Queue!GoTo, harnessVars, storeVars, Doing
    <2>2. TaskOf(w)' = TaskOf(w)  BY <1>1, <1>2, <2>1
    <2>. QED  BY <2>1, <2>2 DEF Doing
  <1>24. ASSUME NEW v \in Workers, ReadTaskFails(v) \/ ReviewRaised(v) \/ ObserveFails(v) \/ CommentFails(v) PROVE Doing(w)'
    BY <1>5, <1>24 DEF ReadTaskFails, ReviewRaised, ObserveFails, CommentFails
  <1>. QED
    BY <1>3, <1>7, <1>10, <1>11, <1>12, <1>13, <1>15, <1>16, <1>17, <1>18, <1>19, <1>20, <1>21, <1>22, <1>23, <1>24
       DEF Next, Handle

\* A comment of the review takes the place that the first page has.
LEMMA UnpostedStep ==
    ASSUME Typed, Unposted, [Next]_vars
    PROVE  Unposted'
  <1>0. comments \in [Tasks -> Nat] /\ page \in [Tasks -> {"room", "full", "ours"}]
    BY DEF Typed, TypeOK
  <1>1. CASE UNCHANGED <<comments, page>>  BY <1>1 DEF Unposted
  <1>2. ASSUME NEW t \in Tasks, CreateDeferredTask(t) PROVE Unposted'
    BY <1>0, <1>2 DEF CreateDeferredTask, Unposted
  <1>3. ASSUME NEW w \in Workers, AddComment(w) PROVE Unposted'
    BY <1>0, <1>3 DEF AddComment, Unposted
  <1>. QED
    BY <1>1, <1>2, <1>3
       DEF Next, vars, serviceVars, Request, CreateTask, SavePayload,
           SubmitTask, ResumeTask, CancelTask, FailDeadTask, FailDeadAs, ReviewStep,
           ReplayDeadLetter, QueueStep, QueueFault, Handle, FetchDiff, ReadTaskFails, ReviewRaised, ReviewReturned,
           ObserveFails, LookupComment, LookupFinds, PatchComment, PostComment, ReplyLost,
           CommentFails, ReviewDone, ReadDeadTask, ReadDeadAnd, RaiseAlert,
           Crash, CallbackFails, Interrupt, Restart, LeaseExpires, StartReview

\* Every step of the service keeps the whole of it.
LEMMA SoundStep ==
    ASSUME OneWorker, Sound, [Next]_vars
    PROVE  Sound'
  <1>1. Typed'  BY RunsTyped, ServiceTyped DEF Sound, Typed
  <1>2. Orderly'  BY OrderlyStep
  <1>3. Holding'  BY HoldingStep DEF Sound
  <1>4. \A w \in Workers : Doing(w)'  BY DoingStep
  <1>5. Unposted'  BY UnpostedStep DEF Sound
  <1>. QED  BY <1>1, <1>2, <1>3, <1>4, <1>5 DEF Sound

\* And it holds at first.
LEMMA SoundInit == ASSUME Init PROVE Sound
  <1>1. Typed  BY TypedInit
  <1>2. /\ \A w \in Workers : run[w] = H!Idle /\ svc[w] = "idle" /\ wpc[w] = "claim" /\ rest[w] = {}
        /\ \A t \in Tasks : state[t] = "PENDING" /\ trace[t] = <<>>
    BY SameHarness DEF Init, Queue!Init, Harness!Init, Harness!StoreInit
  <1>3. H!Idle.phase = "idle"  BY DEF H!Idle
  <1>4. Orderly
    <2>1. \A w \in Workers : ~H!Busy(run[w]) /\ run[w].phase \notin H!Chosen
      BY <1>2, <1>3 DEF H!Busy, H!Ended, H!Chosen
    <2>2. H!Serial
      BY <1>2, <2>1 DEF H!Serial, H!Alone, H!TraceAscends, H!Ahead, H!Fresh
    <2>3. H!Finals  BY <1>2, <2>1 DEF H!Finals, H!Over
    <2>. QED  BY <2>2, <2>3 DEF Orderly
  <1>5. Holding  BY <1>2 DEF Holding, Queue!Busy
  <1>6. \A w \in Workers : Doing(w)  BY <1>2, <1>3 DEF Doing
  <1>7. Unposted  BY DEF Init, Unposted
  <1>. QED  BY <1>1, <1>4, <1>5, <1>6, <1>7 DEF Sound

-----------------------------------------------------------------------------
(* What the users are promised. *)

\* Every step of the service keeps reviews that are finished and tasks that are
\* cancelled as they are, when one worker runs them, but for a cancelled one whose
\* next run fails to read the store.
THEOREM ServiceFinalStays == OneWorker /\ Spec => FinalStays
  <1>1. OneWorker /\ Sound /\ [Next]_vars => Sound' /\ OverKept  BY SoundStep, OrderlyStep
  <1>2. Init => Sound  BY SoundInit
  <1>3. CASE OneWorker
    <2>1. Sound /\ [Next]_vars => Sound' /\ OverKept  BY <1>1, <1>3
    <2>2. Spec => [][OverKept]_vars  BY <1>2, <2>1, PTL DEF Spec
    <2>3. [OverKept]_vars => [OverKept]_(Harness!vars)
      BY DEF vars, harnessVars, storeVars, Harness!vars, Harness!store
    <2>4. Spec => [][OverKept]_(Harness!vars)  BY <2>2, <2>3, PTL
    <2>. QED  BY <2>4 DEF OverKept, FinalStays, Harness!FinalStays
  <1>4. CASE ~OneWorker  BY <1>4
  <1>. QED  BY <1>3, <1>4

\* A task no entry carries is not written, but to close it.
LEMMA UncarriedKept ==
    ASSUME Sound, [Next]_vars, NEW t \in Tasks, ~Carried(t)
    PROVE  state'[t] = state[t] \/ state'[t] \in Harness!Final
  <1>0. H!Typed /\ H!HarnessAssumption /\ Queue!TypeOK  BY PartsAssume DEF Sound, Typed, TypeOK
  <1>1. CASE UNCHANGED state  BY <1>1
  <1>2. ASSUME NEW w \in Workers, ReviewStep(w) PROVE state'[t] = state[t]
    <2>1. wpc[w] = "handle" /\ run[w].task = TaskOf(w) /\ H!Advance(w)
      BY <1>2, SameHarness DEF ReviewStep, SvcAt, Sound, Doing
    <2>2. t # TaskOf(w)
      BY <2>1 DEF Sound, Holding, Carried, Queue!Live, Queue!Busy, TaskOf, Queue!InHand
    <2>3. H!Moves(run[w], run'[w])  BY <1>0, <2>1, H!StepMoves
    <2>. QED  BY <1>0, <2>1, <2>2, <2>3, H!EventsElsewhere
  <1>3. ASSUME NEW w \in Workers, FailDeadTask(w) PROVE state'[t] = state[t] \/ state'[t] \in Harness!Final
    BY <1>0, <1>3 DEF FailDeadTask, FailDeadAs, Harness!Record, H!Typed, H!TypeOK, Harness!Final
  <1>. QED
    BY <1>1, <1>2, <1>3
       DEF Next, vars, harnessVars, storeVars, Request, CreateTask, CreateDeferredTask, SavePayload,
           SubmitTask, ResumeTask, CancelTask, Harness!RequestCancel,
           ReplayDeadLetter, QueueStep, QueueFault, Handle, FetchDiff, ReadTaskFails, FetchFails, Raise, Return,
           ReviewRaised, ReviewReturned, ObserveFails, LookupComment, LookupFinds, PatchComment,
           PostComment, CommentFails, ReviewDone, ReadDeadTask, ReadDeadAnd, RaiseAlert, ReplyLost,
           Crash, CallbackFails, Interrupt, EndRun, Restart, LeaseExpires, StartReview,
           Harness!Begin, Harness!Enter, Harness!store

\* The one worker that acknowledges writes nothing in the store.
LEMMA AckWritesNothing ==
    ASSUME OneWorker, [Next]_vars, NEW w \in Workers, wpc[w] = "ack"
    PROVE  UNCHANGED <<state, report>>
  <1>1. \A v \in Workers : wpc[v] = "ack"  BY DEF OneWorker
  <1>. QED
    BY <1>1
       DEF Next, vars, harnessVars, storeVars, Request, CreateTask, CreateDeferredTask, SavePayload,
           SubmitTask, ResumeTask, CancelTask, Harness!RequestCancel, SvcAt, FailDeadTask, FailDeadAs, ReviewStep,
           ReplayDeadLetter, QueueStep, QueueFault, Handle, FetchDiff, ReadTaskFails, FetchFails, Raise, Return,
           ReviewRaised, ReviewReturned, ObserveFails, LookupComment, LookupFinds, PatchComment,
           PostComment, CommentFails, ReviewDone, ReadDeadTask, ReadDeadAnd, RaiseAlert, ReplyLost,
           Crash, CallbackFails, Interrupt, EndRun, Restart, LeaseExpires, StartReview,
           Harness!Begin, Harness!Enter, Harness!store

\* A task that an entry carries goes on being carried, or is over when the last
\* entry is acknowledged.
LEMMA CarriedOn ==
    ASSUME OneWorker, Sound, [Next]_vars, NEW t \in Tasks, Carried(t)
    PROVE  Carried(t)' \/ state'[t] \in Harness!Final
  <1>0. /\ Queue!TypeOK /\ Q!TypeOK /\ Q!ConstantsAssumption /\ Queue!Live = Q!Live
        /\ \A i \in Q!Indices : entries'[i] = entries[i]
    BY QueueKept, SameQueue, PartsAssume DEF Sound, Typed, TypeOK
  <1>1. ASSUME NEW j \in Queue!Live, j \in Queue!Live', entries[j].msg.task = t PROVE Carried(t)'
    <2>1. j \in Q!Indices  BY <1>0, Q!LiveIndices
    <2>. QED  BY <1>0, <1>1, <2>1 DEF Carried
  <1>2. PICK i \in Queue!Live : entries[i].msg.task = t  BY DEF Carried
  <1>3. CASE \A w \in Workers : ~Q!Acks(w)
    BY <1>0, <1>1, <1>2, <1>3, QueueKept
  <1>4. ASSUME NEW w \in Workers, Q!Acks(w) PROVE Carried(t)' \/ state'[t] \in Harness!Final
    <2>1. wpc[w] = "ack" /\ Queue!Live \ {hand[w]} \subseteq Queue!Live'  BY <1>0, <1>4, QueueKept
    <2>2. CASE i # hand[w]  BY <1>1, <1>2, <2>1, <2>2
    <2>3. CASE i = hand[w] /\ Elsewhere(w)
      <3>1. PICK j \in Queue!Live : j # hand[w] /\ entries[j].msg.task = TaskOf(w)
        BY <2>3 DEF Elsewhere
      <3>2. TaskOf(w) = t  BY <1>2, <2>3 DEF TaskOf, Queue!InHand
      <3>. QED  BY <1>1, <2>1, <3>1, <3>2
    <2>4. CASE i = hand[w] /\ state[TaskOf(w)] \in H!Final
      <3>1. TaskOf(w) = t  BY <1>2, <2>4 DEF TaskOf, Queue!InHand
      <3>2. state' = state  BY <2>1, AckWritesNothing
      <3>. QED  BY <2>4, <3>1, <3>2, SameHarness
    <2>. QED  BY <2>1, <2>2, <2>3, <2>4 DEF Sound, Doing
  <1>. QED  BY <1>3, <1>4

\* A task is submitted with an entry that carries it.
LEMMA SubmittedCarried ==
    ASSUME Sound, [Next]_vars, NEW t \in Tasks, stage[t] # "submitted", stage'[t] = "submitted"
    PROVE  Carried(t)'
  <1>1. stage \in [Tasks -> {"absent", "created", "saved", "deferred", "submitted"}]
        /\ Queue!TypeOK
    BY DEF Sound, Typed, TypeOK
  <1>2. SubmitTask(t)
    BY <1>1
       DEF Next, vars, serviceVars, Request, CreateTask, CreateDeferredTask, SavePayload,
           SubmitTask, ResumeTask, CancelTask, FailDeadTask, FailDeadAs, ReviewStep,
           ReplayDeadLetter, QueueStep, QueueFault, Handle, FetchDiff, ReadTaskFails, ReviewRaised, ReviewReturned,
           ObserveFails, LookupComment, LookupFinds, PatchComment,
           PostComment, CommentFails, ReviewDone, ReadDeadTask, ReadDeadAnd, RaiseAlert, ReplyLost,
           Crash, CallbackFails, Interrupt, Restart, LeaseExpires, StartReview
  <1>3. PICK m \in Messages : m.task = t /\ Queue!Submit(m)
    <2>1. ApiMessage(t) \in Messages /\ HookMessage(t) \in Messages
          /\ ApiMessage(t).task = t /\ HookMessage(t).task = t
      BY DEF ApiMessage, HookMessage, Messages
    <2>. QED  BY <1>2, <2>1 DEF SubmitTask
  <1>. DEFINE e == Queue!Envelope(m, 0, TRUE)
  <1>4. entries' = Append(entries, e) /\ read' = read /\ read <= Len(entries)
        /\ read \in Nat /\ Len(entries) \in Nat /\ entries \in Seq(Queue!EntryType)
    BY <1>1, <1>3 DEF Queue!Submit, Queue!Enqueue, Queue!TypeOK
  <1>. HIDE DEF e
  <1>5. Len(entries') = Len(entries) + 1 /\ entries'[Len(entries) + 1] = e
    BY <1>4
  <1>6. Len(entries) + 1 \in Queue!Live'  BY <1>4, <1>5 DEF Queue!Live
  <1>7. e.msg.task = t  BY <1>3 DEF e, Queue!Envelope
  <1>. QED  BY <1>5, <1>6, <1>7 DEF Carried

\* No submitted task is left behind: the entry that carries it goes only when the
\* task is over, whatever tasks, deaths and failed calls there are.
THEOREM NobodyLeftBehind == OneWorker /\ Spec => []NoneLeftBehind
  <1>1. Init => NoneLeftBehind  BY DEF Init, NoneLeftBehind
  <1>2. OneWorker /\ Sound /\ NoneLeftBehind /\ [Next]_vars => Sound' /\ NoneLeftBehind'
    <2>. SUFFICES ASSUME OneWorker, Sound, NoneLeftBehind, [Next]_vars,
                         NEW t \in Tasks, stage'[t] = "submitted", ~Carried(t)'
                  PROVE  state'[t] \in Harness!Final
      BY SoundStep DEF NoneLeftBehind
    <2>1. stage[t] = "submitted"  BY SubmittedCarried
    <2>2. CASE Carried(t)  BY <2>2, CarriedOn
    <2>3. CASE ~Carried(t)  BY <2>1, <2>3, UncarriedKept DEF NoneLeftBehind
    <2>. QED  BY <2>2, <2>3
  <1>3. Init => Sound  BY SoundInit
  <1>4. CASE OneWorker
    <2>1. Sound /\ NoneLeftBehind /\ [Next]_vars => Sound' /\ NoneLeftBehind'  BY <1>2, <1>4
    <2>. QED  BY <1>1, <1>3, <2>1, PTL DEF Spec
  <1>5. CASE ~OneWorker  BY <1>5
  <1>. QED  BY <1>4, <1>5

\* A review has one comment unless GitHub took a POST whose reply was lost or the
\* issue's first page was full: the worker posts only after it found none there.
THEOREM CommentsOnce == OneWorker /\ Spec => []CommentedOnce
  <1>1. Init => CommentedOnce  BY DEF Init, CommentedOnce
  <1>2. OneWorker /\ Sound /\ CommentedOnce /\ [Next]_vars => Sound' /\ CommentedOnce'
    <2>. SUFFICES ASSUME OneWorker, Sound, CommentedOnce, [Next]_vars PROVE CommentedOnce'
      BY SoundStep
    <2>1. CASE UNCHANGED <<comments, page, unseen>>  BY <2>1 DEF CommentedOnce
    <2>3. ASSUME NEW t \in Tasks, CreateDeferredTask(t) PROVE CommentedOnce'
      BY <2>3 DEF CreateDeferredTask, CommentedOnce, Sound, Typed, TypeOK
    <2>2. ASSUME NEW w \in Workers, PostComment(w) \/ ReplyLost(w) PROVE CommentedOnce'
      <3>1. /\ TaskOf(w) \in Tasks /\ (page[TaskOf(w)] # "ours" \/ TaskOf(w) \in unseen)
            /\ comments \in [Tasks -> Nat] /\ page \in [Tasks -> {"room", "full", "ours"}]
            /\ (page[TaskOf(w)] = "room" => comments[TaskOf(w)] = 0)
        BY <2>2, TaskTypes
           DEF PostComment, ReplyLost, SvcAt, Queue!Busy, Sound, Unposted, Doing, Typed, TypeOK
      <3>2. /\ comments' = [comments EXCEPT ![TaskOf(w)] = @ + 1] /\ unseen \subseteq unseen'
            /\ page' = [page EXCEPT ![TaskOf(w)] = IF @ = "room" THEN "ours" ELSE @]
        BY <2>2 DEF PostComment, ReplyLost, AddComment
      <3>3. ASSUME NEW t \in Tasks, comments'[t] > 1 PROVE t \in unseen' \/ page'[t] = "full"
        <4>1. CASE t = TaskOf(w)  BY <3>1, <3>2, <3>3, <4>1
        <4>2. CASE t # TaskOf(w)  BY <3>1, <3>2, <3>3, <4>2 DEF CommentedOnce
        <4>. QED  BY <4>1, <4>2
      <3>. QED  BY <3>3 DEF CommentedOnce
    <2>. QED
      BY <2>1, <2>2, <2>3
         DEF Next, vars, serviceVars, Request, CreateTask, SavePayload,
             SubmitTask, ResumeTask, CancelTask, FailDeadTask, FailDeadAs, ReviewStep,
             ReplayDeadLetter, QueueStep, QueueFault, Handle, FetchDiff, ReadTaskFails, ReviewRaised, ReviewReturned,
             ObserveFails, LookupComment, LookupFinds, PatchComment,
             CommentFails, ReviewDone, ReadDeadTask, ReadDeadAnd, RaiseAlert,
             Crash, CallbackFails, Interrupt, Restart, LeaseExpires, StartReview
  <1>3. Init => Sound  BY SoundInit
  <1>4. CASE OneWorker
    <2>1. Sound /\ CommentedOnce /\ [Next]_vars => Sound' /\ CommentedOnce'  BY <1>2, <1>4
    <2>. QED  BY <1>1, <1>3, <2>1, PTL DEF Spec
  <1>5. CASE ~OneWorker  BY <1>5
  <1>. QED  BY <1>4, <1>5

=============================================================================
