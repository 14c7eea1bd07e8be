--------------------------- MODULE TaskQueue_proofs ---------------------------
(***************************************************************************)
(* Theorems about the task queue, for any messages, any threads, any       *)
(* number of attempts and any number of mishaps.                           *)
(***************************************************************************)
EXTENDS TaskQueue, TLAPS

-----------------------------------------------------------------------------
\* Type correctness.

\* The part of the type invariant that speaks of the threads.
ThreadsOK ==
    /\ wpc \in [Workers -> Phases]
    /\ hand \in [Workers -> 0 .. read]
    /\ rest \in [Workers -> SUBSET (1 .. read)]
    /\ src \in [Workers -> Calls]
    /\ \A w \in Workers : hand[w] # 0 <=> wpc[w] \in Busy

\* The step to the next entry, or to the other call, keeps the threads' types.
LEMMA TurnThreads ==
    ASSUME TypeOK, NEW w \in Workers, NEW call \in Calls,
           read' \in Nat, read <= read',
           NEW S \in SUBSET (1 .. read'), Turn(w, S, call)
    PROVE  ThreadsOK'
<1>1. /\ wpc \in [Workers -> Phases] /\ hand \in [Workers -> 0 .. read']
      /\ rest \in [Workers -> SUBSET (1 .. read')] /\ src \in [Workers -> Calls]
      /\ \A v \in Workers : hand[v] # 0 <=> wpc[v] \in Busy
  BY DEF TypeOK
<1>2. src' \in [Workers -> Calls]
  BY <1>1 DEF Turn
<1>3. CASE S = {}
  <2>1. /\ wpc' = [wpc EXCEPT ![w] = OtherCall(call)]
        /\ hand' = [hand EXCEPT ![w] = 0] /\ rest' = [rest EXCEPT ![w] = {}]
    BY <1>3 DEF Turn
  <2>2. OtherCall(call) \in Phases \ Busy
    BY DEF OtherCall, Calls, Phases, Busy
  <2>3. QED
    BY <1>1, <1>2, <2>1, <2>2 DEF ThreadsOK
<1>4. CASE S # {}
  <2>1. PICK i \in S : /\ wpc' = [wpc EXCEPT ![w] = "handle"]
                       /\ hand' = [hand EXCEPT ![w] = i]
                       /\ rest' = [rest EXCEPT ![w] = S \ {i}]
    BY <1>4 DEF Turn
  <2>2. i \in 1 .. read' /\ i # 0
    OBVIOUS
  <2>3. "handle" \in Phases /\ "handle" \in Busy
    BY DEF Phases, Busy
  <2>4. QED
    BY <1>1, <1>2, <2>1, <2>2, <2>3 DEF ThreadsOK
<1>5. QED
  BY <1>3, <1>4

\* Within an iteration only the phase changes.
LEMMA GoToThreads ==
    ASSUME TypeOK, NEW w \in Workers, NEW phase \in Phases,
           wpc[w] \in Busy <=> phase \in Busy,
           GoTo(w, phase), UNCHANGED read
    PROVE  ThreadsOK'
BY DEF TypeOK, ThreadsOK, GoTo

\* A thread that gives up what it has in hand.
LEMMA DropThreads ==
    ASSUME TypeOK, NEW w \in Workers, Abandon(w) \/ Halt(w), UNCHANGED read
    PROVE  ThreadsOK'
<1>1. PICK phase \in Phases \ Busy :
        /\ wpc' = [wpc EXCEPT ![w] = phase]
        /\ hand' = [hand EXCEPT ![w] = 0] /\ rest' = [rest EXCEPT ![w] = {}]
        /\ UNCHANGED src
  <2>1. CASE Abandon(w)
    <3>1. src[w] \in {"claim", "read"}
      BY DEF TypeOK, Calls
    <3>2. (CASE src[w] = "claim"               -> "read"
             [] src[w] = "read" /\ Decoded(w)  -> "claim"
             [] src[w] = "read" /\ ~Decoded(w) -> "exited") \in Phases \ Busy
      BY <3>1 DEF Phases, Calls, Busy
    <3>3. QED
      BY <2>1, <3>2 DEF Abandon
  <2>2. CASE Halt(w)
    <3>1. "down" \in Phases \ Busy
      BY DEF Phases, Busy
    <3>2. QED
      BY <2>2, <3>1 DEF Halt
  <2>3. QED
    BY <2>1, <2>2
<1>2. QED
  BY <1>1 DEF TypeOK, ThreadsOK

\* What an attempt is, for a thread that has an entry in hand.
LEMMA HandTypes ==
    ASSUME ConstantsAssumption, TypeOK, NEW w \in Workers, wpc[w] \in Busy
    PROVE  /\ hand[w] \in 1 .. read
           /\ hand[w] \in 1 .. Len(entries)
           /\ InHand(w) \in Messages
           /\ Decoded(w) \in BOOLEAN
           /\ Attempt(w) \in Nat
<1>1. hand[w] \in 1 .. read /\ hand[w] \in 1 .. Len(entries)
  BY DEF TypeOK
<1>2. entries[hand[w]] \in EntryType
  BY <1>1 DEF TypeOK
<1>3. QED
  BY <1>1, <1>2 DEF EntryType, InHand, Decoded, Attempt, ConstantsAssumption

\* The rest of the type invariant.
RedisOK ==
    /\ entries \in Seq(EntryType)
    /\ read \in 0 .. Len(entries)
    /\ pel \subseteq 1 .. read
    /\ stale \subseteq pel
    /\ dlq \subseteq [msg : Messages, attempt : Nat]

HistoryOK ==
    /\ owed \subseteq Messages
    /\ completed \subseteq Messages
    /\ refused \subseteq Messages
    /\ failures \in [Messages -> Nat]
    /\ submits \in [Messages -> Nat]
    /\ mishaps \in Nat

\* The type invariant, by the part of the queue it speaks of.
LEMMA TypeParts == TypeOK <=> RedisOK /\ ThreadsOK /\ HistoryOK
BY DEF TypeOK, RedisOK, ThreadsOK, HistoryOK

\* One element more at the end of a sequence.
LEMMA AppendFacts ==
    ASSUME NEW S, NEW s \in Seq(S), NEW e \in S
    PROVE  /\ Append(s, e) \in Seq(S)
           /\ Len(Append(s, e)) = Len(s) + 1
           /\ \A i \in 1 .. Len(s) : Append(s, e)[i] = s[i]
           /\ Append(s, e)[Len(s) + 1] = e
OBVIOUS

\* The stream after the XADD of a retry, and after that of a submission.
LEMMA RetryAdded ==
    ASSUME ConstantsAssumption, TypeOK, NEW w \in Workers, wpc[w] \in Busy, AddRetry(w)
    PROVE  /\ entries' \in Seq(EntryType)
           /\ Len(entries') = Len(entries) + 1
           /\ \A i \in Indices : entries'[i] = entries[i]
           /\ entries'[Len(entries')] = Envelope(InHand(w), Attempt(w), TRUE)
<1> DEFINE e == Envelope(InHand(w), Attempt(w), TRUE)
<1>1. e \in EntryType
  BY HandTypes DEF Envelope, EntryType
<1>2. entries \in Seq(EntryType) /\ entries' = Append(entries, e)
  BY DEF TypeOK, AddRetry
<1> HIDE DEF e
<1>3. /\ entries' \in Seq(EntryType) /\ Len(entries') = Len(entries) + 1
      /\ \A i \in Indices : entries'[i] = entries[i]
      /\ entries'[Len(entries')] = e
  BY <1>1, <1>2, AppendFacts DEF Indices
<1>4. QED
  BY <1>3 DEF e

\* The stream after a submission or a replay.
LEMMA Submitted ==
    ASSUME TypeOK, NEW m \in Messages, NEW ok \in BOOLEAN, Enqueue(m, ok)
    PROVE  /\ entries' \in Seq(EntryType)
           /\ Len(entries') = Len(entries) + 1
           /\ \A i \in Indices : entries'[i] = entries[i]
           /\ entries'[Len(entries')] = Envelope(m, 0, ok)
<1> DEFINE e == Envelope(m, 0, ok)
<1>1. e \in EntryType
  BY DEF Envelope, EntryType
<1>2. entries \in Seq(EntryType) /\ entries' = Append(entries, e)
  BY DEF TypeOK, Enqueue
<1> HIDE DEF e
<1>3. /\ entries' \in Seq(EntryType) /\ Len(entries') = Len(entries) + 1
      /\ \A i \in Indices : entries'[i] = entries[i]
      /\ entries'[Len(entries')] = e
  BY <1>1, <1>2, AppendFacts DEF Indices
<1>4. QED
  BY <1>3 DEF e

Step(w) == Work(w) \/ Handle(w) \/ Fault(w) \/ Crash(w) \/ Close(w) \/ Restart(w)

\* A step of a thread keeps the types of all threads.
LEMMA ThreadsStep ==
    ASSUME TypeOK, NEW w \in Workers, Step(w) PROVE ThreadsOK'
<1> USE DEF redis, threads, history
<1>1. CASE ReclaimStale(w)
  <2>1. Batch(stale) \in SUBSET (1 .. read')
    BY <1>1 DEF ReclaimStale, Batch, TypeOK
  <2>2. QED
    BY <1>1, <2>1, TurnThreads DEF ReclaimStale, Calls, TypeOK
<1>2. CASE ReadNew(w)
  <2>1. CASE read < Len(entries)
    <3>1. {read + 1} \in SUBSET (1 .. read') /\ read' = read + 1
      BY <1>2, <2>1 DEF ReadNew, TypeOK
    <3>2. QED
      BY <1>2, <2>1, <3>1, TurnThreads DEF ReadNew, Calls, TypeOK
  <2>2. CASE ~(read < Len(entries))
    BY <1>2, <2>2, TurnThreads DEF ReadNew, Calls, TypeOK
  <2>3. QED
    BY <2>1, <2>2
<1>3. CASE RefuseForeign(w) \/ Handle(w)
  <2>1. PICK phase \in {"requeue", "bury", "ack"} : GoTo(w, phase)
    BY <1>3 DEF RefuseForeign, Handle, HandlerReturns, HandlerRefuses, HandlerFails, FailTo
  <2>2. wpc[w] \in Busy /\ phase \in Busy /\ phase \in Phases /\ UNCHANGED read
    BY <1>3 DEF RefuseForeign, Handle, HandlerReturns, HandlerRefuses, HandlerFails, FailTo,
                Busy, Phases
  <2>3. QED
    BY <2>1, <2>2, GoToThreads
<1>4. CASE Requeue(w) \/ Bury(w) \/ Callback(w)
  <2>1. PICK phase \in {"callback", "ack"} : GoTo(w, phase)
    BY <1>4 DEF Requeue, Bury, Callback
  <2>2. wpc[w] \in Busy /\ phase \in Busy /\ phase \in Phases /\ UNCHANGED read
    BY <1>4 DEF Requeue, Bury, Callback, Busy, Phases
  <2>3. QED
    BY <2>1, <2>2, GoToThreads
<1>5. CASE Ack(w)
  <2>1. rest[w] \in SUBSET (1 .. read') /\ src[w] \in Calls
    BY <1>5 DEF Ack, TypeOK
  <2>2. QED
    BY <1>5, <2>1, TurnThreads DEF Ack, TypeOK
<1>6. CASE ClaimedForeign(w) \/ RequeueFault(w) \/ BuryFault(w) \/ CallbackFault(w) \/ AckFault(w)
  BY <1>6, DropThreads
     DEF ClaimedForeign, RequeueFault, BuryFault, CallbackFault, AckFault
<1>7. CASE ClaimFault(w)
  <2>1. wpc[w] \notin Busy /\ "read" \notin Busy /\ "read" \in Phases /\ UNCHANGED read
    BY <1>7 DEF ClaimFault, Busy, Phases, Calls
  <2>2. QED
    BY <1>7, <2>1, GoToThreads DEF ClaimFault
<1>8. CASE ReadFault(w)
  <2>1. /\ wpc' = [wpc EXCEPT ![w] = "exited"] /\ UNCHANGED <<hand, rest, src>>
        /\ wpc[w] \notin Busy /\ "exited" \notin Busy /\ "exited" \in Phases
        /\ read' \in Nat /\ read <= read'
    BY <1>8 DEF ReadFault, GoTo, Busy, Phases, TypeOK
  <2>2. QED
    BY <2>1 DEF TypeOK, ThreadsOK
<1>9. CASE Crash(w) \/ Close(w)
  BY <1>9, DropThreads DEF Crash, Close, Halt
<1>10. CASE Restart(w)
  <2>1. wpc[w] \notin Busy /\ "claim" \notin Busy /\ "claim" \in Phases /\ UNCHANGED read
    BY <1>10 DEF Restart, Busy, Phases, Calls
  <2>2. QED
    BY <1>10, <2>1, GoToThreads DEF Restart
<1>11. QED
  BY <1>1, <1>2, <1>3, <1>4, <1>5, <1>6, <1>7, <1>8, <1>9, <1>10 DEF Step, Work, Fault

\* A step of a thread keeps the types of the streams.
LEMMA RedisStep ==
    ASSUME ConstantsAssumption, TypeOK, NEW w \in Workers, Step(w) PROVE RedisOK'
<1> USE DEF redis, threads, history
<1>0. RedisOK
  BY TypeParts
<1>1. CASE Requeue(w) \/ RequeueFault(w)
  <2>1. wpc[w] \in Busy /\ Len(entries) \in Nat
    BY <1>0, <1>1 DEF Requeue, RequeueFault, Busy, RedisOK
  <2>2. entries' \in Seq(EntryType) /\ Len(entries) <= Len(entries')
    <3>1. CASE AddRetry(w)
      <4>1. entries' \in Seq(EntryType) /\ Len(entries') = Len(entries) + 1
        BY <2>1, <3>1, RetryAdded
      <4>2. QED
        BY <2>1, <4>1
    <3>2. CASE UNCHANGED entries
      BY <1>0, <3>2 DEF RedisOK
    <3>3. QED
      BY <1>1, <3>1, <3>2 DEF Requeue, RequeueFault
  <2>3. UNCHANGED <<read, pel, stale, dlq>>
    BY <1>1 DEF Requeue, RequeueFault
  <2>4. QED
    BY <1>0, <2>2, <2>3 DEF RedisOK
<1>2. CASE Bury(w) \/ BuryFault(w)
  <2>1. wpc[w] \in Busy
    BY <1>2 DEF Bury, BuryFault, Busy
  <2>2. [msg |-> InHand(w), attempt |-> Attempt(w)] \in [msg : Messages, attempt : Nat]
    BY <2>1, HandTypes
  <2>3. QED
    BY <1>0, <1>2, <2>2 DEF Bury, BuryFault, AddDeadLetter, RedisOK
<1>3. CASE ReadNew(w) \/ ReadFault(w)
  <2>1. /\ UNCHANGED <<entries, stale, dlq>>
        /\ \/ UNCHANGED <<read, pel>>
           \/ read < Len(entries) /\ read' = read + 1 /\ pel' = pel \cup {read + 1}
    BY <1>3 DEF ReadNew, ReadFault
  <2>2. CASE UNCHANGED <<read, pel>>
    BY <1>0, <2>1, <2>2 DEF RedisOK
  <2>3. CASE read < Len(entries) /\ read' = read + 1 /\ pel' = pel \cup {read + 1}
    <3>1. read' \in 0 .. Len(entries')
      BY <1>0, <2>1, <2>3 DEF RedisOK
    <3>2. pel' \subseteq 1 .. read' /\ stale' \subseteq pel'
      BY <1>0, <2>1, <2>3 DEF RedisOK
    <3>3. QED
      BY <1>0, <2>1, <3>1, <3>2 DEF RedisOK
  <2>4. QED
    BY <2>1, <2>2, <2>3
<1>4. CASE ReclaimStale(w) \/ ClaimFault(w) \/ Ack(w) \/ AckFault(w)
  BY <1>0, <1>4 DEF ReclaimStale, ClaimFault, Ack, AckFault, RedisOK
<1>5. CASE UNCHANGED redis
  BY <1>0, <1>5 DEF RedisOK
<1>6. QED
  BY <1>1, <1>2, <1>3, <1>4, <1>5
     DEF Step, Work, Handle, Fault, RefuseForeign, ClaimedForeign, Callback, HandlerReturns,
         HandlerRefuses, HandlerFails, FailTo, CallbackFault, Crash, Close, Halt, Restart

\* A step of a thread keeps the types of the history variables.
LEMMA HistoryStep ==
    ASSUME ConstantsAssumption, TypeOK, NEW w \in Workers, Step(w) PROVE HistoryOK'
<1> USE DEF redis, threads, history
<1>0. HistoryOK
  BY TypeParts
<1>1. CASE RefuseForeign(w) \/ Handle(w)
  <2>1. InHand(w) \in Messages
    BY <1>1, HandTypes
       DEF RefuseForeign, Handle, HandlerReturns, HandlerRefuses, HandlerFails, FailTo, Busy
  <2>2. QED
    BY <1>0, <1>1, <2>1
       DEF RefuseForeign, Handle, HandlerReturns, HandlerRefuses, HandlerFails, FailTo, HistoryOK
<1>2. CASE Bury(w) \/ BuryFault(w)
  BY <1>0, <1>2 DEF Bury, BuryFault, AddDeadLetter, Mishap, HistoryOK
<1>3. CASE UNCHANGED history /\ (Mishap \/ UNCHANGED mishaps)
  BY <1>0, <1>3 DEF Mishap, HistoryOK
<1>4. QED
  BY <1>1, <1>2, <1>3
     DEF Step, Work, Fault, ReclaimStale, ReadNew, ClaimedForeign, Requeue, Callback, Ack,
         ClaimFault, ReadFault, RequeueFault, CallbackFault, AckFault, Crash, Close, Halt,
         Restart

\* Every step preserves the types.
LEMMA TypeStep == ConstantsAssumption /\ TypeOK /\ [Next]_vars => TypeOK'
<1> SUFFICES ASSUME ConstantsAssumption, TypeOK, [Next]_vars PROVE TypeOK'
  OBVIOUS
<1> USE DEF redis, threads, history, vars
<1>0. RedisOK /\ ThreadsOK /\ HistoryOK
  BY TypeParts
<1>1. ASSUME NEW m \in Messages, NEW ok \in BOOLEAN, Enqueue(m, ok) PROVE TypeOK'
  <2>1. entries' \in Seq(EntryType) /\ Len(entries') = Len(entries) + 1
    BY <1>1, Submitted
  <2>2. QED
    BY <1>1, <2>1 DEF Enqueue, TypeOK
<1>2. ASSUME NEW m \in Messages, Produce(m) PROVE TypeOK'
  BY <1>1, <1>2 DEF Produce, Submit, WriteForeign, Replay
<1>3. ASSUME NEW w \in Workers, Step(w) PROVE TypeOK'
  <2>1. RedisOK' /\ ThreadsOK' /\ HistoryOK'
    BY <1>3, ThreadsStep, RedisStep, HistoryStep
  <2>2. QED
    BY <2>1 DEF TypeOK, RedisOK, ThreadsOK, HistoryOK
<1>4. ASSUME NEW i \in pel, LeaseExpires(i) PROVE TypeOK'
  BY <1>4 DEF LeaseExpires, Mishap, TypeOK
<1>5. CASE UNCHANGED vars
  BY <1>5 DEF TypeOK
<1>6. QED
  BY <1>2, <1>3, <1>4, <1>5 DEF Next, Step

\* The variables keep their types in every execution.
THEOREM TypeCorrect == Spec => []TypeOK
<1>1. Init => TypeOK
  BY DEF Init, TypeOK, Phases, Calls, Busy, EntryType
<1>2. QED
  BY <1>1, TypeStep, ConstantsAssumption, PTL DEF Spec

-----------------------------------------------------------------------------
\* No submission is lost.

\* Entries are never rewritten, and only an XACK takes one out of Live.
LEMMA StreamGrows ==
    ASSUME ConstantsAssumption, TypeOK, [Next]_vars
    PROVE  /\ Len(entries) <= Len(entries')
           /\ \A i \in Indices : i \in Indices' /\ entries'[i] = entries[i]
<1> USE DEF redis, threads, history, vars
<1>0. Len(entries) \in Nat
  BY DEF TypeOK
<1>1. CASE UNCHANGED entries
  BY <1>0, <1>1 DEF Indices
<1>2. ASSUME NEW m \in Messages, NEW ok \in BOOLEAN, Enqueue(m, ok)
      PROVE  /\ Len(entries') = Len(entries) + 1
             /\ \A i \in Indices : entries'[i] = entries[i]
  BY <1>2, Submitted
<1>3. ASSUME NEW w \in Workers, wpc[w] \in Busy, AddRetry(w)
      PROVE  /\ Len(entries') = Len(entries) + 1
             /\ \A i \in Indices : entries'[i] = entries[i]
  BY <1>3, RetryAdded
<1>4. CASE /\ Len(entries') = Len(entries) + 1
           /\ \A i \in Indices : entries'[i] = entries[i]
  BY <1>0, <1>4 DEF Indices
<1>5. \/ UNCHANGED entries
      \/ \E m \in Messages, ok \in BOOLEAN : Enqueue(m, ok)
      \/ \E w \in Workers : wpc[w] \in Busy /\ AddRetry(w)
  BY DEF Next, Produce, Submit, WriteForeign, Replay, Work, Handle, Fault, ReclaimStale,
         ReadNew, RefuseForeign, ClaimedForeign, Requeue, Bury, Callback, Ack, HandlerReturns,
         HandlerRefuses, HandlerFails, FailTo, ClaimFault, ReadFault, RequeueFault, BuryFault,
         CallbackFault, AckFault, Crash, Close, Halt, Restart, LeaseExpires, Busy
<1>6. QED
  BY <1>1, <1>2, <1>3, <1>4, <1>5

Acks(w) == Ack(w) \/ AckFault(w)

\* Where the stream, the group's position and the threads' entries stand.
LEMMA StreamTypes ==
    TypeOK => /\ entries \in Seq(EntryType) /\ Len(entries) \in Nat
              /\ read \in Nat /\ read <= Len(entries) /\ pel \subseteq 1 .. read
              /\ \A w \in Workers : hand[w] \in 0 .. read
<1>1. TypeOK => /\ entries \in Seq(EntryType) /\ read \in 0 .. Len(entries)
                /\ pel \subseteq 1 .. read /\ hand \in [Workers -> 0 .. read]
  BY DEF TypeOK
<1>2. QED
  BY <1>1

\* The same after a step.
LEMMA StreamTypesNext ==
    TypeOK' => /\ Len(entries') \in Nat /\ read' \in Nat /\ read' <= Len(entries')
               /\ \A w \in Workers : wpc'[w] \in Busy => hand'[w] \in 1 .. read'
<1>1. TypeOK' => /\ entries' \in Seq(EntryType) /\ read' \in 0 .. Len(entries')
                 /\ hand' \in [Workers -> 0 .. read']
                 /\ \A w \in Workers : hand'[w] # 0 <=> wpc'[w] \in Busy
  BY DEF TypeOK
<1>2. QED
  BY <1>1

\* An entry that no thread acknowledges stays live.
LEMMA LiveKept ==
    ASSUME ConstantsAssumption, TypeOK, [Next]_vars, \A w \in Workers : ~Acks(w)
    PROVE  Live \subseteq Live'
<1> USE DEF redis, threads, history, vars
<1>1. Len(entries) \in Nat /\ Len(entries') \in Nat /\ Len(entries) <= Len(entries')
  <2>1. TypeOK'
    BY TypeStep
  <2>2. QED
    BY <2>1, StreamTypes, StreamTypesNext, StreamGrows
<1>2. read \in Nat
  BY DEF TypeOK
<1>3. \/ UNCHANGED <<read, pel>>
      \/ read' = read + 1 /\ pel' = pel \cup {read + 1}
  BY DEF Next, Produce, Submit, WriteForeign, Replay, Enqueue, Work, Handle, Fault,
         ReclaimStale, ReadNew, RefuseForeign, ClaimedForeign, Requeue, Bury, Callback, Acks,
         HandlerReturns, HandlerRefuses, HandlerFails, FailTo, ClaimFault, ReadFault, RequeueFault,
         BuryFault, CallbackFault, Crash, Close, Halt, Restart, LeaseExpires
<1>4. CASE UNCHANGED <<read, pel>>
  BY <1>1, <1>2, <1>4 DEF Live
<1>5. CASE read' = read + 1 /\ pel' = pel \cup {read + 1}
  BY <1>1, <1>2, <1>5 DEF Live
<1>6. QED
  BY <1>3, <1>4, <1>5

\* A live entry is an entry of the stream.
LEMMA LiveIndices == ASSUME TypeOK PROVE Live \subseteq Indices /\ Indices \subseteq Nat
<1>1. Len(entries) \in Nat /\ read \in Nat /\ read <= Len(entries) /\ pel \subseteq 1 .. read
  BY StreamTypes
<1>2. Indices \subseteq Nat
  BY <1>1 DEF Indices
<1>3. ASSUME NEW i \in Live PROVE i \in Indices
  <2>1. CASE i \in pel
    BY <1>1, <2>1 DEF Indices
  <2>2. CASE i \in (read + 1) .. Len(entries)
    BY <1>1, <2>2 DEF Indices
  <2>3. QED
    BY <1>3, <2>1, <2>2 DEF Live
<1>4. QED
  BY <1>2, <1>3

\* Both parts of the argument, as one inductive invariant.
Delivery == NoLoss /\ AckCovered

\* A message that is owed something stays carried, whatever step is taken.
LEMMA CarriedStep ==
    ASSUME ConstantsAssumption, TypeOK, Delivery, [Next]_vars,
           NEW m \in owed, NEW i \in Nat, Carried(m, i)
    PROVE  Carried(m, i)'
<1>1. PICK j \in Live : j > i /\ entries[j].msg = m
  BY DEF Carried
<1>2. \A k \in Live : entries'[k] = entries[k] /\ k \in Nat
  <2>1. \A k \in Indices : entries'[k] = entries[k]
    BY StreamGrows
  <2>2. QED
    BY <2>1, LiveIndices
<1>3. CASE \A w \in Workers : ~Acks(w)
  BY <1>1, <1>2, <1>3, LiveKept DEF Carried
<1>4. ASSUME NEW w \in Workers, Acks(w) PROVE Carried(m, i)'
  <2>1. wpc[w] = "ack" /\ Live \ {hand[w]} \subseteq Live'
    BY <1>4 DEF Acks, Ack, AckFault, Live
  <2>2. CASE j # hand[w]
    BY <1>1, <1>2, <2>1, <2>2 DEF Carried
  <2>3. CASE j = hand[w]
    <3>1. Carried(m, j)
      BY <1>1, <2>1, <2>3 DEF Delivery, AckCovered, InHand
    <3>2. PICK k \in Live : k > j /\ entries[k].msg = m
      BY <3>1 DEF Carried
    <3>3. k # hand[w] /\ k > i
      BY <1>1, <1>2, <2>3, <3>2
    <3>4. QED
      BY <1>2, <2>1, <3>2, <3>3 DEF Carried
  <2>4. QED
    BY <2>2, <2>3
<1>5. QED
  BY <1>3, <1>4

\* A message just added to the stream is carried beyond every older entry.
LEMMA CarriedByNew ==
    ASSUME ConstantsAssumption, TypeOK, TypeOK', UNCHANGED <<read, pel>>,
           Len(entries') = Len(entries) + 1,
           NEW m, entries'[Len(entries')].msg = m, NEW i \in 0 .. Len(entries)
    PROVE  Carried(m, i)'
<1>1. Len(entries) \in Nat /\ read \in 0 .. Len(entries) /\ read' = read
  BY DEF TypeOK
<1>2. Len(entries') \in Live' /\ Len(entries') > i
  BY <1>1 DEF Live
<1>3. QED
  BY <1>2 DEF Carried

\* Only submit and replay make a message owed, and they add its entry.
LEMMA OwedByEnqueue ==
    ASSUME ConstantsAssumption, TypeOK, [Next]_vars, NEW m \in owed', m \notin owed
    PROVE  /\ Len(entries') = Len(entries) + 1 /\ UNCHANGED <<read, pel>>
           /\ entries'[Len(entries')].msg = m
<1> USE DEF redis, threads, history, vars
<1>1. PICK ok \in BOOLEAN : m \in Messages /\ Enqueue(m, ok)
  <2>1. \E k \in Messages : Produce(k) /\ owed' = owed \cup {k}
    BY DEF Next, Produce, Submit, WriteForeign, Replay, Enqueue, Work, Handle, Fault, ReclaimStale, ReadNew, RefuseForeign, ClaimedForeign,
           Requeue, Bury, Callback, Ack, HandlerReturns, HandlerRefuses, HandlerFails, FailTo,
           ClaimFault, ReadFault, RequeueFault, BuryFault, AddDeadLetter, CallbackFault,
           AckFault, Crash, Close, Halt, Restart, LeaseExpires
  <2>2. PICK k \in Messages : Produce(k) /\ owed' = owed \cup {k}
    BY <2>1
  <2>3. k = m
    BY <2>2
  <2>4. QED
    BY <2>2, <2>3 DEF Produce, Submit, WriteForeign, Replay
<1>2. QED
  BY <1>1, Submitted DEF Enqueue, Envelope

\* A thread gets beyond "handle" only by its own steps on the entry it has in hand.
LEMMA Settling ==
    ASSUME ConstantsAssumption, TypeOK, [Next]_vars,
           NEW w \in Workers, wpc'[w] \in {"requeue", "bury", "callback", "ack"}
    PROVE  /\ hand'[w] = hand[w]
           /\ \/ UNCHANGED wpc[w]
              \/ RefuseForeign(w) \/ Handle(w) \/ Requeue(w) \/ Bury(w) \/ Callback(w)
<1> USE DEF redis, threads, history, vars
<1>0. wpc \in [Workers -> Phases] /\ hand \in [Workers -> 0 .. read] /\ src \in [Workers -> Calls]
  BY DEF TypeOK
<1>1. ASSUME NEW v \in Workers, NEW S, NEW call \in Calls, Turn(v, S, call)
      PROVE  v # w /\ UNCHANGED <<wpc[w], hand[w]>>
  BY <1>0, <1>1 DEF Turn, OtherCall, Calls
<1>2. ASSUME NEW v \in Workers, Abandon(v) \/ Halt(v)
      PROVE  v # w /\ UNCHANGED <<wpc[w], hand[w]>>
  BY <1>0, <1>2 DEF Abandon, Halt, Calls
<1>3. ASSUME NEW v \in Workers, NEW phase, GoTo(v, phase)
      PROVE  /\ UNCHANGED hand
             /\ \/ UNCHANGED wpc[w]
                \/ v = w /\ phase = wpc'[w]
  <2>1. UNCHANGED hand /\ wpc' = [wpc EXCEPT ![v] = phase]
    BY <1>3 DEF GoTo
  <2>2. wpc'[w] = IF v = w THEN phase ELSE wpc[w]
    BY <1>0, <2>1
  <2>3. QED
    BY <2>1, <2>2
<1>4. ASSUME NEW v \in Workers, ReclaimStale(v) \/ ReadNew(v) \/ Ack(v)
      PROVE  UNCHANGED <<wpc[w], hand[w]>>
  BY <1>0, <1>1, <1>4 DEF ReclaimStale, ReadNew, Ack, Calls
<1>5. ASSUME NEW v \in Workers, \/ ClaimedForeign(v) \/ RequeueFault(v) \/ BuryFault(v)
                                \/ CallbackFault(v) \/ AckFault(v) \/ Crash(v) \/ Close(v)
      PROVE  UNCHANGED <<wpc[w], hand[w]>>
  BY <1>2, <1>5 DEF ClaimedForeign, RequeueFault, BuryFault, CallbackFault, AckFault,
                    Crash, Close
<1>6. ASSUME NEW v \in Workers, ClaimFault(v) \/ ReadFault(v) \/ Restart(v)
      PROVE  UNCHANGED <<wpc[w], hand[w]>>
  BY <1>3, <1>6 DEF ClaimFault, ReadFault, Restart
<1>7. ASSUME NEW v \in Workers, \/ RefuseForeign(v) \/ Handle(v) \/ Requeue(v)
                                \/ Bury(v) \/ Callback(v)
      PROVE  UNCHANGED hand /\ (v = w \/ UNCHANGED wpc[w])
  BY <1>3, <1>7 DEF RefuseForeign, Handle, HandlerReturns, HandlerRefuses, HandlerFails, FailTo,
                    Requeue, Bury, Callback
<1>8. ASSUME NEW m \in Messages, Produce(m)
      PROVE  UNCHANGED <<wpc[w], hand[w]>>
  BY <1>8 DEF Produce, Submit, WriteForeign, Replay, Enqueue
<1>9. ASSUME NEW i \in pel, LeaseExpires(i)
      PROVE  UNCHANGED <<wpc[w], hand[w]>>
  BY <1>9 DEF LeaseExpires
<1>10. QED
  BY <1>4, <1>5, <1>6, <1>7, <1>8, <1>9 DEF Next, Work, Fault

\* The entry such a thread has in hand was there before the step.
LEMMA SettlingEntry ==
    ASSUME ConstantsAssumption, TypeOK, TypeOK', [Next]_vars,
           NEW w \in Workers, wpc'[w] \in {"requeue", "bury", "callback", "ack"}
    PROVE  /\ hand[w] \in Indices /\ hand[w] \in 1 .. Len(entries)
           /\ InHand(w)' = InHand(w) /\ Attempt(w)' = Attempt(w)
<1>1. hand'[w] = hand[w] /\ wpc'[w] \in Busy
  BY Settling DEF Busy
<1>2. hand[w] \in 1 .. read'
  BY <1>1, StreamTypesNext
<1>3. hand[w] \in Indices /\ hand[w] \in 1 .. Len(entries)
  BY <1>2, StreamTypes DEF Indices
<1>4. entries'[hand'[w]] = entries[hand[w]]
  BY <1>1, <1>3, StreamGrows
<1>5. QED
  BY <1>3, <1>4 DEF InHand, Attempt, Decoded

\* How a thread comes to be about to acknowledge.
LEMMA SettlesFrom ==
    ASSUME ConstantsAssumption, TypeOK, TypeOK', [Next]_vars,
           NEW w \in Workers, wpc'[w] \in {"callback", "ack"}
    PROVE  /\ hand'[w] = hand[w]
           /\ wpc[w] \in {"callback", "ack"} \/ Requeue(w) \/ Bury(w) \/ HandlerReturns(w)
<1>1. wpc \in [Workers -> Phases]
  BY DEF TypeOK
<1>2. ASSUME NEW phase \in {"requeue", "bury"}, GoTo(w, phase) PROVE FALSE
  BY <1>1, <1>2 DEF GoTo
<1>3. ~RefuseForeign(w) /\ ~HandlerRefuses(w) /\ ~HandlerFails(w)
  BY <1>2 DEF RefuseForeign, HandlerRefuses, HandlerFails, FailTo
<1>4. QED
  BY <1>3, Settling DEF Handle, Callback

\* NoLoss and AckCovered together are preserved by every step.
LEMMA DeliveryStep ==
    ConstantsAssumption /\ TypeOK /\ Delivery /\ [Next]_vars => Delivery'
<1> SUFFICES ASSUME ConstantsAssumption, TypeOK, Delivery, [Next]_vars PROVE Delivery'
  OBVIOUS
<1> USE DEF redis, threads, history, vars
<1>1. TypeOK'
  BY TypeStep
<1>2. NoLoss'
  <2> SUFFICES ASSUME NEW m \in owed' PROVE Carried(m, 0)'
    BY DEF NoLoss
  <2>1. CASE m \in owed
    BY <2>1, CarriedStep DEF Delivery, NoLoss
  <2>2. CASE m \notin owed
    <3>1. /\ Len(entries') = Len(entries) + 1 /\ UNCHANGED <<read, pel>>
          /\ entries'[Len(entries')].msg = m
      BY <2>2, OwedByEnqueue
    <3>2. 0 \in 0 .. Len(entries)
      BY StreamTypes
    <3>3. QED
      BY <1>1, <3>1, <3>2, CarriedByNew
  <2>3. QED
    BY <2>1, <2>2
<1>3. AckCovered'
  <2> SUFFICES ASSUME NEW w \in Workers, wpc'[w] \in {"callback", "ack"},
                      NEW i, i = hand'[w], NEW m \in owed', m = entries'[i].msg
               PROVE  Carried(m, i)'
    BY DEF AckCovered, InHand, Carried
  <2>1. /\ hand'[w] = hand[w]
        /\ wpc[w] \in {"callback", "ack"} \/ Requeue(w) \/ Bury(w) \/ HandlerReturns(w)
    BY <1>1, SettlesFrom
  <2>2. i \in Indices /\ i \in 1 .. Len(entries) /\ m = InHand(w) /\ i = hand[w]
    BY <1>1, <2>1, SettlingEntry DEF InHand
  <2>3. CASE m \notin owed
    <3>1. /\ Len(entries') = Len(entries) + 1 /\ UNCHANGED <<read, pel>>
          /\ entries'[Len(entries')].msg = m
      BY <2>3, OwedByEnqueue
    <3>2. i \in 0 .. Len(entries)
      BY <2>2, StreamTypes
    <3>3. QED
      BY <1>1, <3>1, <3>2, CarriedByNew
  <2>4. CASE m \in owed /\ wpc[w] \in {"callback", "ack"}
    <3>1. Carried(m, i)
      BY <2>1, <2>2, <2>4 DEF Delivery, AckCovered
    <3>2. QED
      BY <2>2, <2>4, <3>1, CarriedStep
  <2>5. CASE Requeue(w)
    <3>1. wpc[w] \in Busy /\ AddRetry(w) /\ UNCHANGED <<read, pel>>
      BY <2>5 DEF Requeue, Busy
    <3>2. /\ Len(entries') = Len(entries) + 1
          /\ entries'[Len(entries')] = Envelope(InHand(w), Attempt(w), TRUE)
      BY <3>1, RetryAdded
    <3>3. entries'[Len(entries')].msg = m
      BY <2>2, <3>2 DEF Envelope
    <3>4. i \in 0 .. Len(entries)
      BY <2>2, StreamTypes
    <3>5. QED
      BY <1>1, <3>1, <3>2, <3>3, <3>4, CarriedByNew
  <2>6. CASE Bury(w) \/ HandlerReturns(w)
    BY <2>2, <2>6 DEF Bury, AddDeadLetter, HandlerReturns
  <2>7. QED
    BY <2>1, <2>3, <2>4, <2>5, <2>6
<1>4. QED
  BY <1>2, <1>3 DEF Delivery

\* A submitted or replayed message has an entry in the stream, undelivered or
\* pending, until it completes or is dead-lettered.
THEOREM NothingLost == Spec => []NoLoss
<1>1. Init => Delivery
  BY DEF Init, Delivery, NoLoss, AckCovered
<1>2. TypeOK /\ Delivery /\ [Next]_vars => Delivery'
  BY DeliveryStep, ConstantsAssumption
<1>3. Delivery => NoLoss
  BY DEF Delivery
<1>4. QED
  BY <1>1, <1>2, <1>3, TypeCorrect, PTL DEF Spec

\* No entry is acknowledged before what became of it is on record.
THEOREM AckAfterOutcome == Spec => []AckCovered
<1>1. Init => Delivery
  BY DEF Init, Delivery, NoLoss, AckCovered
<1>2. TypeOK /\ Delivery /\ [Next]_vars => Delivery'
  BY DeliveryStep, ConstantsAssumption
<1>3. Delivery => AckCovered
  BY DEF Delivery
<1>4. QED
  BY <1>1, <1>2, <1>3, TypeCorrect, PTL DEF Spec

-----------------------------------------------------------------------------
\* No message is given up early.

Patience == AttemptsCounted /\ DeadLetterJustified

\* What is on record about a message is never taken back.
LEMMA RecordsGrow ==
    ASSUME ConstantsAssumption, TypeOK, [Next]_vars
    PROVE  /\ refused \subseteq refused'
           /\ \A m \in Messages : failures[m] \in Nat /\ failures'[m] \in Nat
                                 /\ failures[m] <= failures'[m]
<1> USE DEF redis, threads, history, vars
<1>1. failures \in [Messages -> Nat]
  BY DEF TypeOK
<1>2. \/ UNCHANGED failures
      \/ \E w \in Workers : failures' = [failures EXCEPT ![InHand(w)] = @ + 1]
  BY DEF Next, Produce, Submit, WriteForeign, Replay, Enqueue, Work, Handle, Fault,
         ReclaimStale, ReadNew, RefuseForeign, ClaimedForeign, Requeue, Bury, Callback, Ack,
         HandlerReturns, HandlerRefuses, HandlerFails, FailTo, ClaimFault, ReadFault, RequeueFault,
         BuryFault, CallbackFault, AckFault, Crash, Close, Halt, Restart, LeaseExpires
<1>3. refused \subseteq refused'
  BY DEF Next, Produce, Submit, WriteForeign, Replay, Enqueue, Work, Handle, Fault,
         ReclaimStale, ReadNew, RefuseForeign, ClaimedForeign, Requeue, Bury, Callback, Ack,
         HandlerReturns, HandlerRefuses, HandlerFails, FailTo, ClaimFault, ReadFault, RequeueFault,
         BuryFault, CallbackFault, AckFault, Crash, Close, Halt, Restart, LeaseExpires
<1>4. QED
  BY <1>1, <1>2, <1>3

\* Who writes to the stream, and where the new entry goes.
LEMMA WritesEntry ==
    ASSUME ConstantsAssumption, TypeOK, [Next]_vars, entries' # entries
    PROVE  \/ \E m \in Messages, ok \in BOOLEAN : Enqueue(m, ok)
           \/ \E w \in Workers : wpc[w] = "requeue" /\ AddRetry(w)
BY DEF Next, Produce, Submit, WriteForeign, Replay, Work, Handle, Fault, ReclaimStale,
       ReadNew, RefuseForeign, ClaimedForeign, Requeue, Bury, Callback, Ack, HandlerReturns,
       HandlerRefuses, HandlerFails, FailTo, ClaimFault, ReadFault, RequeueFault, BuryFault,
       CallbackFault, AckFault, Crash, Close, Halt, Restart, LeaseExpires,
       redis, threads, history, vars

\* An index that was not there before is the last one.
LEMMA NewIndex ==
    ASSUME ConstantsAssumption, TypeOK, [Next]_vars, NEW i \in Indices', i \notin Indices
    PROVE  i = Len(entries') /\ entries' # entries
<1>1. entries' # entries
  BY DEF Indices
<1>2. Len(entries') = Len(entries) + 1
  <2>1. ASSUME NEW m \in Messages, NEW ok \in BOOLEAN, Enqueue(m, ok)
        PROVE  Len(entries') = Len(entries) + 1
    BY <2>1, Submitted
  <2>2. ASSUME NEW w \in Workers, wpc[w] = "requeue", AddRetry(w)
        PROVE  Len(entries') = Len(entries) + 1
    BY <2>2, RetryAdded DEF Busy
  <2>3. QED
    BY <1>1, <2>1, <2>2, WritesEntry
<1>3. QED
  BY <1>1, <1>2, StreamTypes DEF Indices

\* The part of the type invariant the next proof updates.
LEMMA PhaseTypes == TypeOK => wpc \in [Workers -> Phases]
BY DEF TypeOK

\* Every step keeps the attempts true.
LEMMA PatienceStep ==
    ConstantsAssumption /\ TypeOK /\ Patience /\ [Next]_vars => Patience'
<1> SUFFICES ASSUME ConstantsAssumption, TypeOK, Patience, [Next]_vars PROVE Patience'
  OBVIOUS
<1> USE DEF redis, threads, history, vars
<1>0. TypeOK' /\ MaxAttempts \in Nat
  BY TypeStep DEF ConstantsAssumption
<1>1. ASSUME NEW i \in Indices' PROVE entries'[i].attempt <= failures'[entries'[i].msg]
  <2>1. CASE i \in Indices
    <3>1. entries'[i] = entries[i] /\ entries[i].attempt <= failures[entries[i].msg]
      BY <2>1, StreamGrows DEF Patience, AttemptsCounted
    <3>2. entries[i] \in EntryType
      BY <2>1, StreamTypes DEF Indices
    <3>3. entries[i].attempt \in Nat /\ entries[i].msg \in Messages
      BY <3>2 DEF EntryType
    <3>4. QED
      BY <3>1, <3>3, RecordsGrow
  <2>2. CASE i \notin Indices
    <3>1. i = Len(entries') /\ entries' # entries
      BY <1>1, <2>2, NewIndex
    <3>2. ASSUME NEW m \in Messages, NEW ok \in BOOLEAN, Enqueue(m, ok)
          PROVE  entries'[i].attempt <= failures'[entries'[i].msg]
      <4>1. entries'[i] = Envelope(m, 0, ok)
        BY <3>1, <3>2, Submitted
      <4>2. entries'[i].attempt = 0 /\ entries'[i].msg = m
        BY <4>1 DEF Envelope
      <4>3. QED
        BY <4>2, RecordsGrow
    <3>3. ASSUME NEW w \in Workers, wpc[w] = "requeue", AddRetry(w)
          PROVE  entries'[i].attempt <= failures'[entries'[i].msg]
      <4>1. wpc[w] \in Busy
        BY <3>3 DEF Busy
      <4>2. entries'[i] = Envelope(InHand(w), Attempt(w), TRUE)
        BY <3>1, <3>3, <4>1, RetryAdded
      <4>3. Attempt(w) <= failures[InHand(w)]
        BY <3>3 DEF Patience, AttemptsCounted
      <4>4. Attempt(w) \in Nat /\ InHand(w) \in Messages
        BY <4>1, HandTypes
      <4>5. entries'[i].attempt = Attempt(w) /\ entries'[i].msg = InHand(w)
        BY <4>2 DEF Envelope
      <4>6. QED
        BY <4>3, <4>4, <4>5, RecordsGrow
    <3>4. QED
      BY <3>1, <3>2, <3>3, WritesEntry
  <2>3. QED
    BY <2>1, <2>2
<1>2. ASSUME NEW w \in Workers, wpc'[w] \in {"requeue", "bury"}
      PROVE  /\ wpc'[w] = "requeue" => Attempt(w)' <= failures'[InHand(w)']
             /\ wpc'[w] = "bury" => \/ InHand(w)' \in refused'
                                    \/ failures'[InHand(w)'] >= MaxAttempts
  <2>1. InHand(w)' = InHand(w) /\ Attempt(w)' = Attempt(w) /\ hand[w] \in Indices
    BY <1>0, <1>2, SettlingEntry
  <2>2. InHand(w) \in Messages /\ Attempt(w) \in Nat
    <3>1. entries[hand[w]] \in EntryType
      BY <2>1, StreamTypes DEF Indices
    <3>2. QED
      BY <1>0, <3>1 DEF EntryType, InHand, Attempt, Decoded
  <2>3. CASE UNCHANGED wpc[w]
    <3>1. /\ wpc[w] = "requeue" => Attempt(w) <= failures[InHand(w)]
          /\ wpc[w] = "bury" => InHand(w) \in refused \/ failures[InHand(w)] >= MaxAttempts
      BY DEF Patience, AttemptsCounted
    <3>2. QED
      BY <1>0, <2>1, <2>2, <2>3, <3>1, RecordsGrow
  <2>4. CASE RefuseForeign(w) \/ HandlerRefuses(w)
    <3>1. InHand(w) \in refused' /\ wpc'[w] = "bury"
      BY <2>4, <1>2, PhaseTypes DEF RefuseForeign, HandlerRefuses, GoTo
    <3>2. QED
      BY <2>1, <3>1
  <2>5. CASE HandlerFails(w)
    <3>1. /\ failures'[InHand(w)] = failures[InHand(w)] + 1
          /\ wpc'[w] = "bury" => Attempt(w) >= MaxAttempts
      BY <2>2, <2>5, PhaseTypes DEF HandlerFails, FailTo, GoTo, TypeOK
    <3>2. Attempt(w) = entries[hand[w]].attempt + 1
      BY <2>5 DEF HandlerFails, FailTo, Attempt
    <3>3. entries[hand[w]].attempt <= failures[InHand(w)]
      BY <2>1 DEF Patience, AttemptsCounted, InHand
    <3>4. entries[hand[w]].attempt \in Nat
      <4>1. entries[hand[w]] \in EntryType
        BY <2>1, StreamTypes DEF Indices
      <4>2. QED
        BY <4>1 DEF EntryType
    <3>5. failures[InHand(w)] \in Nat /\ failures'[InHand(w)] \in Nat
      BY <2>2, RecordsGrow
    <3>6. Attempt(w) <= failures'[InHand(w)]
      BY <3>1, <3>2, <3>3, <3>4, <3>5
    <3>7. QED
      BY <1>0, <2>1, <2>2, <3>1, <3>5, <3>6
  <2>6. QED
    BY <1>2, <2>3, <2>4, <2>5, Settling, PhaseTypes
       DEF Handle, HandlerReturns, Requeue, Bury, Callback, GoTo
<1>3. ASSUME NEW d \in dlq' PROVE d.msg \in refused' \/ failures'[d.msg] >= MaxAttempts
  <2>1. CASE d \in dlq
    <3>1. d.msg \in refused \/ failures[d.msg] >= MaxAttempts
      BY <2>1 DEF Patience, DeadLetterJustified
    <3>2. d.msg \in Messages
      BY <2>1 DEF TypeOK
    <3>3. QED
      BY <1>0, <3>1, <3>2, RecordsGrow
  <2>2. CASE d \notin dlq
    <3>1. PICK w \in Workers : wpc[w] = "bury" /\ AddDeadLetter(w)
      BY <1>3, <2>2
         DEF Next, Produce, Submit, WriteForeign, Replay, Enqueue, Work, Handle, Fault,
         ReclaimStale, ReadNew, RefuseForeign, ClaimedForeign, Requeue, Bury, Callback, Ack,
         HandlerReturns, HandlerRefuses, HandlerFails, FailTo, ClaimFault, ReadFault, RequeueFault,
         BuryFault, CallbackFault, AckFault, Crash, Close, Halt, Restart, LeaseExpires
    <3>2. d.msg = InHand(w)
      BY <2>2, <3>1 DEF AddDeadLetter
    <3>3. InHand(w) \in Messages
      BY <3>1, HandTypes DEF Busy
    <3>4. InHand(w) \in refused \/ failures[InHand(w)] >= MaxAttempts
      BY <3>1 DEF Patience, AttemptsCounted
    <3>5. QED
      BY <1>0, <3>2, <3>3, <3>4, RecordsGrow
  <2>3. QED
    BY <2>1, <2>2
<1>4. AttemptsCounted'
  BY <1>1, <1>2 DEF AttemptsCounted
<1>5. DeadLetterJustified'
  BY <1>3 DEF DeadLetterJustified
<1>6. QED
  BY <1>4, <1>5 DEF Patience

\* A dead letter stands for a refusal or for max_attempts real failures.
THEOREM NoEarlyDeadLetter == Spec => []DeadLetterJustified
<1>1. Init => Patience
  BY DEF Init, Patience, AttemptsCounted, DeadLetterJustified, Indices
<1>2. TypeOK /\ Patience /\ [Next]_vars => Patience'
  BY PatienceStep, ConstantsAssumption
<1>3. Patience => DeadLetterJustified
  BY DEF Patience
<1>4. QED
  BY <1>1, <1>2, <1>3, TypeCorrect, PTL DEF Spec


\* The attempts on the envelopes never exceed the failures there really were.
THEOREM AttemptsReal == Spec => []AttemptsCounted
<1>1. Init => Patience
  BY DEF Init, Patience, AttemptsCounted, DeadLetterJustified, Indices
<1>2. TypeOK /\ Patience /\ [Next]_vars => Patience'
  BY PatienceStep, ConstantsAssumption
<1>3. Patience => AttemptsCounted
  BY DEF Patience
<1>4. QED
  BY <1>1, <1>2, <1>3, TypeCorrect, PTL DEF Spec

-----------------------------------------------------------------------------
\* The queue implements AtLeastOnce.

\* Every entry of the stream goes back to a submission.
Sourced == \A i \in Indices : submits[entries[i].msg] > 0

\* Submissions are only ever added.
LEMMA SubmitsGrow ==
    ASSUME ConstantsAssumption, TypeOK, [Next]_vars
    PROVE  \A m \in Messages : submits[m] > 0 => submits'[m] > 0
<1> USE DEF redis, threads, history, vars
<1>1. submits \in [Messages -> Nat]
  BY DEF TypeOK
<1>2. \/ UNCHANGED submits
      \/ \E m \in Messages : submits' = [submits EXCEPT ![m] = @ + 1]
  BY DEF Next, Produce, Submit, WriteForeign, Replay, Enqueue, Work, Handle, Fault,
         ReclaimStale, ReadNew, RefuseForeign, ClaimedForeign, Requeue, Bury, Callback, Ack,
         HandlerReturns, HandlerRefuses, HandlerFails, FailTo, ClaimFault, ReadFault,
         RequeueFault, BuryFault, CallbackFault, AckFault, Crash, Close, Halt, Restart,
         LeaseExpires
<1>3. QED
  BY <1>1, <1>2

\* The message a thread has in hand was submitted.
LEMMA InHandSourced ==
    ASSUME ConstantsAssumption, TypeOK, Sourced, NEW w \in Workers, wpc[w] \in Busy
    PROVE  InHand(w) \in Messages /\ submits[InHand(w)] > 0
<1>1. hand[w] # 0
  BY DEF TypeOK
<1>2. hand[w] \in Indices
  BY <1>1, StreamTypes DEF Indices
<1>3. QED
  BY <1>2, HandTypes DEF Sourced, InHand

\* A retry carries a submitted message on, and nothing else adds one.
LEMMA SourcedStep == ConstantsAssumption /\ TypeOK /\ Sourced /\ [Next]_vars => Sourced'
<1> SUFFICES ASSUME ConstantsAssumption, TypeOK, Sourced, [Next]_vars,
                    NEW i \in Indices'
             PROVE  submits'[entries'[i].msg] > 0
  BY DEF Sourced
<1>1. CASE i \in Indices
  <2>1. entries'[i] = entries[i] /\ entries[i] \in EntryType
    BY <1>1, StreamGrows, StreamTypes DEF Indices
  <2>2. entries[i].msg \in Messages /\ submits[entries[i].msg] > 0
    BY <1>1, <2>1 DEF EntryType, Sourced
  <2>3. QED
    BY <2>1, <2>2, SubmitsGrow
<1>2. CASE i \notin Indices
  <2>1. i = Len(entries') /\ entries' # entries
    BY <1>2, NewIndex
  <2>2. ASSUME NEW m \in Messages, NEW ok \in BOOLEAN, Enqueue(m, ok)
        PROVE  submits'[entries'[i].msg] > 0
    <3>1. entries'[i] = Envelope(m, 0, ok)
      BY <2>1, <2>2, Submitted
    <3>2. entries'[i].msg = m
      BY <3>1 DEF Envelope
    <3>3. submits \in [Messages -> Nat] /\ submits' = [submits EXCEPT ![m] = @ + 1]
      BY <2>2 DEF TypeOK, Enqueue
    <3>4. QED
      BY <3>2, <3>3
  <2>3. ASSUME NEW w \in Workers, wpc[w] = "requeue", AddRetry(w)
        PROVE  submits'[entries'[i].msg] > 0
    <3>1. wpc[w] \in Busy
      BY <2>3 DEF Busy
    <3>2. entries'[i] = Envelope(InHand(w), Attempt(w), TRUE)
      BY <2>1, <2>3, <3>1, RetryAdded
    <3>3. entries'[i].msg = InHand(w)
      BY <3>2 DEF Envelope
    <3>4. QED
      BY <3>1, <3>3, InHandSourced, SubmitsGrow
  <2>4. QED
    BY <2>1, <2>2, <2>3, WritesEntry
<1>3. QED
  BY <1>1, <1>2

\* A step of the queue is a step of the promise, or none of its business.
LEMMA PromiseStep ==
    ConstantsAssumption /\ TypeOK /\ Sourced /\ [Next]_vars
      => [Promise!Next]_(Promise!promised)
<1> SUFFICES ASSUME ConstantsAssumption, TypeOK, Sourced, [Next]_vars
             PROVE  [Promise!Next]_(Promise!promised)
  OBVIOUS
<1> USE DEF redis, threads, history, vars
<1>1. ASSUME NEW m \in Messages, NEW ok \in BOOLEAN, Enqueue(m, ok) PROVE Promise!Accept(m)
  <2>1. submits \in [Messages -> Nat] /\ submits' = [submits EXCEPT ![m] = @ + 1]
    BY <1>1 DEF TypeOK, Enqueue
  <2>2. {k \in Messages : submits'[k] > 0} = {k \in Messages : submits[k] > 0} \cup {m}
    BY <2>1
  <2>3. QED
    BY <1>1, <2>2 DEF Enqueue, Promise!Accept, Dead
<1>2. ASSUME NEW w \in Workers, HandlerReturns(w) PROVE Promise!Complete(InHand(w))
  <2>1. InHand(w) \in Messages /\ submits[InHand(w)] > 0
    BY <1>2, InHandSourced DEF HandlerReturns, Busy
  <2>2. QED
    BY <1>2, <2>1 DEF HandlerReturns, Promise!Complete, Dead
<1>3. ASSUME NEW w \in Workers, wpc[w] = "bury", AddDeadLetter(w), UNCHANGED <<submits, completed>>
      PROVE  Promise!Bury(InHand(w))
  <2>1. InHand(w) \in Messages /\ submits[InHand(w)] > 0
    BY <1>3, InHandSourced DEF Busy
  <2>2. {m \in Messages : Dead(m)}' = {m \in Messages : Dead(m)} \cup {InHand(w)}
    <3> DEFINE d == [msg |-> InHand(w), attempt |-> Attempt(w)]
    <3>1. dlq' = dlq \cup {d} /\ d.msg = InHand(w)
      BY <1>3 DEF AddDeadLetter
    <3> HIDE DEF d
    <3>2. ASSUME NEW m \in Messages PROVE Dead(m)' <=> Dead(m) \/ m = InHand(w)
      BY <3>1 DEF Dead
    <3>3. QED
      BY <2>1, <3>2
  <2>3. QED
    BY <1>3, <2>1, <2>2 DEF AddDeadLetter, Promise!Bury
<1>4. CASE UNCHANGED <<submits, owed, completed, dlq>>
  BY <1>4 DEF Promise!promised, Dead
<1>5. \/ UNCHANGED <<submits, owed, completed, dlq>>
      \/ \E m \in Messages, ok \in BOOLEAN : Enqueue(m, ok)
      \/ \E w \in Workers : HandlerReturns(w)
      \/ \E w \in Workers :
            wpc[w] = "bury" /\ AddDeadLetter(w) /\ UNCHANGED <<submits, completed>>
  BY DEF Next, Produce, Submit, WriteForeign, Replay, Work, Handle, Fault,
         ReclaimStale, ReadNew, RefuseForeign, ClaimedForeign, Requeue, Bury, Callback, Ack,
         HandlerRefuses, HandlerFails, FailTo, ClaimFault, ReadFault,
         RequeueFault, BuryFault, CallbackFault, AckFault, Crash, Close, Halt, Restart,
         LeaseExpires
<1>6. ASSUME NEW w \in Workers, HandlerReturns(w) \/ wpc[w] = "bury"
      PROVE  InHand(w) \in Messages
  BY <1>6, InHandSourced DEF HandlerReturns, Busy
<1>7. QED
  BY <1>1, <1>2, <1>3, <1>4, <1>5, <1>6 DEF Promise!Next

\* The queue keeps what AtLeastOnce promises, but for the liveness: every step on
\* streams, leases and threads is an acceptance, an outcome or invisible.
THEOREM ImplementsAtLeastOnce == Spec => Promise!Safety
<1>1. Init => Promise!Init /\ Sourced
  BY DEF Init, Promise!Init, Sourced, Indices, Dead
<1>2. TypeOK /\ Sourced /\ [Next]_vars => Sourced'
  BY SourcedStep, ConstantsAssumption
<1>3. TypeOK /\ Sourced /\ [Next]_vars => [Promise!Next]_(Promise!promised)
  BY PromiseStep, ConstantsAssumption
<1>4. QED
  BY <1>1, <1>2, <1>3, TypeCorrect, PTL DEF Spec, Promise!Safety

=============================================================================
