------------------------------- MODULE TaskQueue -------------------------------
(***************************************************************************)
(* The Redis Streams mode of src/codeevo/task_queue.py: one stream, one    *)
(* consumer group, a pool of worker threads, leases recovered with         *)
(* XAUTOCLAIM, retries by re-adding the envelope, and a dead-letter stream.*)
(*                                                                         *)
(* An action is the work a thread does between two calls of Redis or of    *)
(* the handler; each Redis command is atomic on the server.  The process   *)
(* may die between any two of them, and a command may fail with or without *)
(* having been executed (a reply lost to socket_timeout).                  *)
(*                                                                         *)
(* Whose consumer name an entry is pending under is left out: XACK accepts *)
(* any consumer of the group, and all threads of a process share one name. *)
(* The pause of XREADGROUP's BLOCK and the wording of errors are left out. *)
(***************************************************************************)
EXTENDS Integers, Sequences, FiniteSets

CONSTANTS
    Messages,     \* message ids (the service uses the task id)
    Foreign,      \* the ids of stream entries that are not a JSON envelope
    Workers,      \* worker threads, of every process that shares the stream
    MaxAttempts,  \* queue_max_attempts
    ClaimBatch,   \* COUNT of XAUTOCLAIM, 10 in the code
    ReadFaults,   \* whether XREADGROUP itself may fail
    MaxSubmits,   \* bound: submissions per message
    MaxMishaps    \* bound: deaths, failed Redis calls, leases too short

ASSUME ConstantsAssumption ==
    /\ Foreign \subseteq Messages
    /\ MaxAttempts \in Nat \ {0}
    /\ ClaimBatch \in Nat \ {0}
    /\ ReadFaults \in BOOLEAN
    /\ MaxSubmits \in Nat
    /\ MaxMishaps \in Nat

VARIABLES
    entries,    \* the stream: [msg, attempt, valid], in id order, never trimmed
    read,       \* last-delivered id of the group
    pel,        \* delivered and not acknowledged
    stale,      \* the part of pel whose idle time has reached the lease
    dlq,        \* the dead-letter stream, as the set of its [msg, attempt]
    wpc,        \* where each thread is in _redis_worker
    hand,       \* the entry it works on, 0 when none
    rest,       \* entries of its claimed batch it has not come to yet
    src,        \* which call its entry came from
    owed,       \* history: submitted or replayed, and no outcome since
    completed,  \* history: the handler returned normally
    refused,    \* history: the handler raised PermanentTaskError, or undecodable
    failures,   \* history: other exceptions of the handler, per message
    submits,    \* history: calls of submit and replay, per message
    mishaps     \* deaths, failed calls and too-short leases so far

redis   == <<entries, read, pel, stale, dlq>>
threads == <<wpc, hand, rest, src>>
history == <<owed, completed, refused, failures, submits>>
vars    == <<redis, threads, history, mishaps>>

Calls  == {"claim", "read"}
Phases == Calls \cup {"handle", "requeue", "bury", "callback", "ack", "down", "exited"}
Busy   == {"handle", "requeue", "bury", "callback", "ack"}

Indices == 1 .. Len(entries)
Live    == ((read + 1) .. Len(entries)) \cup pel
Held(i) == \E w \in Workers : hand[w] = i \/ i \in rest[w]
Dead(m) == \E d \in dlq : d.msg = m

\* The message, decodability and attempt number of what a thread has in hand:
\* _deliver counts the attempt before it runs the handler, and an undecodable
\* envelope is replaced by one that has none left.
InHand(w)  == entries[hand[w]].msg
Decoded(w) == entries[hand[w]].valid
Attempt(w) == IF Decoded(w) THEN entries[hand[w]].attempt + 1 ELSE MaxAttempts

Envelope(m, a, ok) == [msg |-> m, attempt |-> a, valid |-> ok]

EntryType == [msg : Messages, attempt : Nat, valid : BOOLEAN]

TypeOK ==
    /\ entries \in Seq(EntryType)
    /\ read \in 0 .. Len(entries)
    /\ pel \subseteq 1 .. read
    /\ stale \subseteq pel
    /\ dlq \subseteq [msg : Messages, attempt : Nat]
    /\ wpc \in [Workers -> Phases]
    /\ hand \in [Workers -> 0 .. read]
    /\ rest \in [Workers -> SUBSET (1 .. read)]
    /\ src \in [Workers -> Calls]
    /\ \A w \in Workers : hand[w] # 0 <=> wpc[w] \in Busy
    /\ owed \subseteq Messages
    /\ completed \subseteq Messages
    /\ refused \subseteq Messages
    /\ failures \in [Messages -> Nat]
    /\ submits \in [Messages -> Nat]
    /\ mishaps \in Nat

-----------------------------------------------------------------------------

Init ==
    /\ entries = <<>> /\ read = 0 /\ pel = {} /\ stale = {} /\ dlq = {}
    /\ wpc = [w \in Workers |-> "claim"]
    /\ hand = [w \in Workers |-> 0]
    /\ rest = [w \in Workers |-> {}]
    /\ src = [w \in Workers |-> "claim"]
    /\ owed = {} /\ completed = {} /\ refused = {}
    /\ failures = [m \in Messages |-> 0]
    /\ submits = [m \in Messages |-> 0]
    /\ mishaps = 0

(***************************************************************************)
(* Producers.                                                              *)
(***************************************************************************)

\* XADD of a fresh envelope: attempt 0, whatever happened to the message before.
Enqueue(m, ok) ==
    /\ submits[m] < MaxSubmits
    /\ entries' = Append(entries, Envelope(m, 0, ok))
    /\ submits' = [submits EXCEPT ![m] = @ + 1]
    /\ owed' = owed \cup {m}
    /\ UNCHANGED <<read, pel, stale, dlq, threads, completed, refused, failures, mishaps>>

Submit(m) == m \in Messages \ Foreign /\ Enqueue(m, TRUE)

\* Something else writes to the stream what json.loads rejects.
WriteForeign(m) == m \in Foreign /\ submits[m] = 0 /\ Enqueue(m, FALSE)

\* (Wrong: the replayed dead letter is deleted.)
ReplayDeleting(m) ==
    /\ Dead(m) /\ submits[m] < MaxSubmits
    /\ entries' = Append(entries, Envelope(m, 0, TRUE))
    /\ submits' = [submits EXCEPT ![m] = @ + 1]
    /\ owed' = owed \cup {m}
    /\ dlq' = {d \in dlq : d.msg # m}
    /\ UNCHANGED <<read, pel, stale, threads, completed, refused, failures, mishaps>>

\* replay_dead_letter resubmits the payload; the dead letter stays where it is.
Replay(m) == Dead(m) /\ Enqueue(m, TRUE)

(***************************************************************************)
(* A worker thread.  Turn(w, S, call) ends a step of a loop over the       *)
(* entries S that are left: the least of them comes next, and after the    *)
(* last one the thread goes on to the other call.                          *)
(***************************************************************************)

OtherCall(call) == IF call = "claim" THEN "read" ELSE "claim"

Turn(w, S, call) ==
    /\ src' = [src EXCEPT ![w] = call]
    /\ \/ /\ S = {}
          /\ wpc' = [wpc EXCEPT ![w] = OtherCall(call)]
          /\ hand' = [hand EXCEPT ![w] = 0]
          /\ rest' = [rest EXCEPT ![w] = {}]
       \/ \E i \in S :
          /\ \A j \in S : i <= j
          /\ wpc' = [wpc EXCEPT ![w] = "handle"]
          /\ hand' = [hand EXCEPT ![w] = i]
          /\ rest' = [rest EXCEPT ![w] = S \ {i}]

GoTo(w, phase) == wpc' = [wpc EXCEPT ![w] = phase] /\ UNCHANGED <<hand, rest, src>>

\* The first entries, in id order, that XAUTOCLAIM returns.
Batch(S) == {i \in S : Cardinality({j \in S : j < i}) < ClaimBatch}

\* (Wrong: the loop does not recover leases.)
ReclaimNothing(w) ==
    /\ wpc[w] = "claim"
    /\ GoTo(w, "read")
    /\ UNCHANGED <<redis, history, mishaps>>

\* XAUTOCLAIM takes over stale entries and restarts their idle time.
ReclaimStale(w) ==
    /\ wpc[w] = "claim"
    /\ stale' = stale \ Batch(stale)
    /\ Turn(w, Batch(stale), "claim")
    /\ UNCHANGED <<entries, read, pel, dlq, history, mishaps>>

\* XREADGROUP: the next undelivered entry, or nothing within the block time.
ReadNew(w) ==
    /\ wpc[w] = "read"
    /\ IF read < Len(entries)
         THEN /\ read' = read + 1
              /\ pel' = pel \cup {read + 1}
              /\ Turn(w, {read + 1}, "read")
         ELSE UNCHANGED <<read, pel>> /\ Turn(w, {}, "read")
    /\ UNCHANGED <<entries, stale, dlq, history, mishaps>>

\* An undecodable entry that was just read goes straight to the dead letters.
RefuseForeign(w) ==
    /\ wpc[w] = "handle" /\ ~Decoded(w) /\ src[w] = "read"
    /\ refused' = refused \cup {InHand(w)}
    /\ GoTo(w, "bury")
    /\ UNCHANGED <<redis, owed, completed, failures, submits, mishaps>>

HandlerReturns(w) ==
    /\ wpc[w] = "handle" /\ Decoded(w)
    /\ completed' = completed \cup {InHand(w)}
    /\ owed' = owed \ {InHand(w)}
    /\ GoTo(w, "ack")
    /\ UNCHANGED <<redis, refused, failures, submits, mishaps>>

HandlerRefuses(w) ==
    /\ wpc[w] = "handle" /\ Decoded(w)
    /\ refused' = refused \cup {InHand(w)}
    /\ GoTo(w, "bury")
    /\ UNCHANGED <<redis, owed, completed, failures, submits, mishaps>>

FailTo(w, phase) ==
    /\ wpc[w] = "handle" /\ Decoded(w)
    /\ failures' = [failures EXCEPT ![InHand(w)] = @ + 1]
    /\ GoTo(w, phase)
    /\ UNCHANGED <<redis, owed, completed, refused, submits, mishaps>>

\* (Wrong: acknowledged without being requeued; given up one attempt early.)
FailUnrequeued(w) == FailTo(w, IF Attempt(w) >= MaxAttempts THEN "bury" ELSE "ack")
FailEarly(w)      == FailTo(w, IF Attempt(w) + 1 >= MaxAttempts THEN "bury" ELSE "requeue")

HandlerFails(w) == FailTo(w, IF Attempt(w) >= MaxAttempts THEN "bury" ELSE "requeue")

\* (Wrong: the attempt is counted again when it is written back.)
AddRetryCountedTwice(w) ==
    entries' = Append(entries, Envelope(InHand(w), Attempt(w) + 1, TRUE))

\* The two effects on the streams, also used when only the reply is lost.
AddRetry(w)      == entries' = Append(entries, Envelope(InHand(w), Attempt(w), TRUE))
AddDeadLetter(w) ==
    /\ dlq' = dlq \cup {[msg |-> InHand(w), attempt |-> Attempt(w)]}
    /\ owed' = owed \ {InHand(w)}

Requeue(w) ==
    /\ wpc[w] = "requeue"
    /\ AddRetry(w)
    /\ GoTo(w, "ack")
    /\ UNCHANGED <<read, pel, stale, dlq, history, mishaps>>

Bury(w) ==
    /\ wpc[w] = "bury"
    /\ AddDeadLetter(w)
    /\ GoTo(w, "callback")
    /\ UNCHANGED <<entries, read, pel, stale, completed, refused, failures, submits, mishaps>>

\* on_dead_letter: what it does belongs to the service.
Callback(w) ==
    /\ wpc[w] = "callback"
    /\ GoTo(w, "ack")
    /\ UNCHANGED <<redis, history, mishaps>>

Ack(w) ==
    /\ wpc[w] = "ack"
    /\ pel' = pel \ {hand[w]}
    /\ stale' = stale \ {hand[w]}
    /\ Turn(w, rest[w], src[w])
    /\ UNCHANGED <<entries, read, dlq, history, mishaps>>

(***************************************************************************)
(* Exceptions.  In _reclaim_stale one abandons the rest of the batch; in   *)
(* the read loop it is swallowed for a decoded entry and kills the thread  *)
(* for an undecodable one, which is handled in the except clause itself.   *)
(***************************************************************************)

Abandon(w) ==
    /\ wpc' = [wpc EXCEPT ![w] =
                 CASE src[w] = "claim"             -> "read"
                   [] src[w] = "read" /\ Decoded(w)  -> "claim"
                   [] src[w] = "read" /\ ~Decoded(w) -> "exited"]
    /\ hand' = [hand EXCEPT ![w] = 0]
    /\ rest' = [rest EXCEPT ![w] = {}]
    /\ UNCHANGED src

Mishap == mishaps < MaxMishaps /\ mishaps' = mishaps + 1

\* json.loads in _reclaim_stale has no handler of its own.
ClaimedForeign(w) ==
    /\ wpc[w] = "handle" /\ ~Decoded(w) /\ src[w] = "claim"
    /\ Abandon(w)
    /\ UNCHANGED <<redis, history, mishaps>>

ClaimFault(w) ==
    /\ wpc[w] = "claim" /\ Mishap
    /\ stale' \in {stale, stale \ Batch(stale)}
    /\ GoTo(w, "read")
    /\ UNCHANGED <<entries, read, pel, dlq, history>>

\* XREADGROUP is outside every try: the exception ends the thread for good.
ReadFault(w) ==
    /\ ReadFaults /\ wpc[w] = "read" /\ Mishap
    /\ \/ UNCHANGED <<read, pel>>
       \/ read < Len(entries) /\ read' = read + 1 /\ pel' = pel \cup {read + 1}
    /\ GoTo(w, "exited")
    /\ UNCHANGED <<entries, stale, dlq, history>>

\* (Wrong: the error of XADD is ignored.)
RequeueFaultIgnored(w) ==
    /\ wpc[w] = "requeue" /\ Mishap
    /\ AddRetry(w) \/ UNCHANGED entries
    /\ GoTo(w, "ack")
    /\ UNCHANGED <<read, pel, stale, dlq, history>>

RequeueFault(w) ==
    /\ wpc[w] = "requeue" /\ Mishap
    /\ AddRetry(w) \/ UNCHANGED entries
    /\ Abandon(w)
    /\ UNCHANGED <<read, pel, stale, dlq, history>>

BuryFault(w) ==
    /\ wpc[w] = "bury" /\ Mishap
    /\ AddDeadLetter(w) \/ UNCHANGED <<dlq, owed>>
    /\ Abandon(w)
    /\ UNCHANGED <<entries, read, pel, stale, completed, refused, failures, submits>>

CallbackFault(w) ==
    /\ wpc[w] = "callback" /\ Mishap
    /\ Abandon(w)
    /\ UNCHANGED <<redis, history>>

AckFault(w) ==
    /\ wpc[w] = "ack" /\ Mishap
    /\ \/ pel' = pel \ {hand[w]} /\ stale' = stale \ {hand[w]}
       \/ UNCHANGED <<pel, stale>>
    /\ Abandon(w)
    /\ UNCHANGED <<entries, read, dlq, history>>

(***************************************************************************)
(* The environment: time, deaths and restarts (docker-compose restarts a   *)
(* dead container), and close(), seen at the head of the loop.             *)
(***************************************************************************)

LeaseExpires(i) ==
    /\ i \in pel \ stale
    /\ IF Held(i) THEN Mishap ELSE UNCHANGED mishaps
    /\ stale' = stale \cup {i}
    /\ UNCHANGED <<entries, read, pel, dlq, threads, history>>

Halt(w) ==
    /\ wpc' = [wpc EXCEPT ![w] = "down"]
    /\ hand' = [hand EXCEPT ![w] = 0]
    /\ rest' = [rest EXCEPT ![w] = {}]
    /\ UNCHANGED <<src, redis, history>>

Crash(w) ==
    /\ wpc[w] # "down" /\ Mishap
    /\ Halt(w)

Close(w) == wpc[w] = "claim" /\ UNCHANGED mishaps /\ Halt(w)

Restart(w) ==
    /\ wpc[w] = "down"
    /\ GoTo(w, "claim")
    /\ UNCHANGED <<redis, history, mishaps>>

-----------------------------------------------------------------------------

Produce(m) == Submit(m) \/ WriteForeign(m) \/ Replay(m)

Handle(w) == HandlerReturns(w) \/ HandlerRefuses(w) \/ HandlerFails(w)

Work(w) ==
    \/ ReclaimStale(w) \/ ReadNew(w)
    \/ RefuseForeign(w) \/ ClaimedForeign(w)
    \/ Requeue(w) \/ Bury(w) \/ Callback(w) \/ Ack(w)

Fault(w) ==
    \/ ClaimFault(w) \/ ReadFault(w) \/ RequeueFault(w)
    \/ BuryFault(w) \/ CallbackFault(w) \/ AckFault(w)

Next ==
    \/ \E m \in Messages : Produce(m)
    \/ \E w \in Workers :
         Work(w) \/ Handle(w) \/ Fault(w) \/ Crash(w) \/ Close(w) \/ Restart(w)
    \/ \E i \in pel : LeaseExpires(i)

Spec == Init /\ [][Next]_vars

\* A thread that can run does; the handler ends (it works under a time limit);
\* a container is restarted; the idle time of an entry nobody holds grows.
\* Strong fairness for the thread, because close() takes it down at the head of
\* the loop: a process is not stopped every time before its first call.
Fairness ==
    /\ \A w \in Workers : SF_vars(Work(w) \/ Handle(w)) /\ WF_vars(Restart(w))
    /\ WF_vars(\E i \in pel : ~Held(i) /\ LeaseExpires(i))

FairSpec == Spec /\ Fairness

-----------------------------------------------------------------------------
\* PROPERTIES

\* No submission is lost: until a message that was submitted or replayed has
\* completed or reached the dead letters, some entry of the stream still carries
\* it, undelivered or pending, whatever threads die or Redis calls fail between
\* the handler, the XADD of the retry and the XACK of the old entry.
Carried(m, i) == \E j \in Live : j > i /\ entries[j].msg = m

NoLoss == \A m \in owed : Carried(m, 0)

\* "ACK only after work completed or was safely requeued/DLQed": when a thread is
\* about to acknowledge an entry, either its message is owed nothing or a later
\* entry, that no thread has acknowledged in the meantime, carries it on.
AckCovered ==
    \A w \in Workers : wpc[w] \in {"callback", "ack"} /\ InHand(w) \in owed =>
        Carried(InHand(w), hand[w])

\* A message is dead-lettered only when it was refused (PermanentTaskError, or
\* undecodable) or its handler really failed max_attempts times: neither a crash,
\* a lost ACK nor a redelivery eats an attempt.
DeadLetterJustified ==
    \A d \in dlq : d.msg \in refused \/ failures[d.msg] >= MaxAttempts

\* The attempt written on an envelope never exceeds the failures its message has
\* really had, so the decision to give up (attempt >= max_attempts) is never taken
\* early, however the copies of a message multiply.
AttemptsCounted ==
    /\ \A i \in Indices : entries[i].attempt <= failures[entries[i].msg]
    /\ \A w \in Workers :
         /\ wpc[w] = "requeue" => Attempt(w) <= failures[InHand(w)]
         /\ wpc[w] = "bury" =>
              InHand(w) \in refused \/ failures[InHand(w)] >= MaxAttempts

\* "Durable task delivery": a message whose submission was accepted gets its
\* outcome in the end, whichever calls of _redis_worker fail on the way.
EventuallySettled == \A m \in Messages : m \in owed ~> m \notin owed

\* What the queue promises its users, without streams, leases and threads.
Promise == INSTANCE AtLeastOnce WITH
    accepted <- {m \in Messages : submits[m] > 0},
    dead     <- {m \in Messages : Dead(m)}

\* The queue keeps that promise: an outcome only for an accepted message, one
\* message at a time, a retry or a redelivery never visible as an outcome, and
\* an outcome for every submission.
KeepsPromise == Promise!Spec

=============================================================================
