----------------------------- MODULE Collaboration -----------------------------
(***************************************************************************)
(* MultiAgentCoordinator.review_with_context (src/codeevo/agents.py) on    *)
(* AgentRuntime: plan, specialists in a thread pool with retries and       *)
(* substitutes, rounds of critique and revision, evidence, verification,   *)
(* arbitration, memory; and the harness, which may run it again.           *)
(*                                                                         *)
(* A finding is its key (path, line, rule) and its quality: "sound", or    *)
(* "thin" when the critic objects to it, or "unsafe" when the critic does  *)
(* not but the verifier does (evidence, remediation, confidence).  What a  *)
(* specialist does between its attempt's first message and its last one,   *)
(* the tool loop and the context included, is reduced to whether it        *)
(* answers or raises.  Every message is a write of the store that may      *)
(* fail; a message is kept here only if a property looks for it.           *)
(***************************************************************************)
EXTENDS Integers, Sequences, SequencesExt, FiniteSets

CONSTANTS
    Agents,       \* the specialists, in the registry's order
    Fallback,     \* fallback_agent
    Domains,      \* the risk domains each of them declares
    Keys,         \* finding keys
    AgentRetries, \* agent_retries
    Rounds,       \* collaboration_rounds
    NoOne, NoKey, \* no agent, no key
    MaxTries,     \* bound: runs of the collaboration by the harness
    MaxUpsets     \* bound: failing writes and deaths

Specialists == Range(Agents)
Names       == Specialists \cup {Fallback}
Quality     == {"sound", "thin", "unsafe"}
Verdict     == Quality \cup {"none"}
Reply       == [Keys -> Verdict]

\* The main thread's own invocations of an agent, one at a time.
Reviser == "reviser"
Jobs    == Specialists \cup {Reviser}

ASSUME CollaborationAssumption ==
    /\ Agents \in Seq(Specialists) /\ IsInjective(Agents) /\ Agents # <<>>
    /\ \A a \in Names : IsFiniteSet(Domains[a])
    /\ {NoOne, Reviser} \cap Names = {} /\ NoKey \notin Keys
    /\ AgentRetries \in Nat /\ Rounds \in Nat \ {0}

VARIABLES
    phase,      \* the node of the runtime, or how the call ended
    job,        \* each specialist's assignment, and the reviser's, as it is invoked
    outcome,    \* what came of each assignment, once it is gathered
    claims,     \* specialist_findings, per key and in their order
    source,     \* the first of finding_sources, per key
    round,      \* round_number
    pending,    \* revisions of the round still to be asked for, per key
    topic,      \* the key of the revision that is being asked for
    revised,    \* revised_by_key
    critique,   \* the quality of the finding the last critique was of
    evidence,   \* the same for the reproduction
    approved,   \* the keys of the approved decisions
    published,  \* the quality of the findings in the report
    transcript, \* agent_messages: the evidence and the hand-offs this call has recorded
    late,       \* the time budget ran out
    failed,     \* history: failed attempts on each assignment
    tries, upsets

dialogue == <<claims, source, round, pending, topic, revised,
              critique, evidence, approved, published>>
vars     == <<phase, job, outcome, dialogue, transcript, late, failed, tries, upsets>>

Stages == {"idle", "attempt", "agent", "answer", "failure", "retry", "handoff",
           "answered", "failed", "broken"}
NoReply == [k \in Keys |-> "none"]
NoJob   == [stage |-> "idle", agent |-> NoOne, standin |-> FALSE, attempt |-> 0, reply |-> NoReply]

Nodes == {"planner", "specialists", "deliberation", "revision", "evidence", "verifier",
          "arbiter", "memory"}

TypeOK ==
    /\ phase \in Nodes \cup {"returned", "raised"}
    /\ job \in [Jobs -> [stage : Stages, agent : Names \cup {NoOne}, standin : BOOLEAN,
                         attempt : 0 .. AgentRetries + 1, reply : Reply]]
    /\ outcome \in [Specialists -> {"pending", "completed", "failed"}]
    /\ claims \in [Keys -> Seq(Quality)]
    /\ source \in [Keys -> Names \cup {NoOne}]
    /\ round \in 1 .. Rounds
    /\ pending \in [Keys -> Nat] /\ topic \in Keys \cup {NoKey}
    /\ revised \in Reply /\ critique \in Reply /\ evidence \in Reply /\ published \in Reply
    /\ approved \subseteq Keys
    /\ late \in BOOLEAN
    /\ failed \in [Specialists -> Nat]
    /\ tries \in Nat /\ upsets \in Nat

Init ==
    /\ phase = "planner"
    /\ job = [j \in Jobs |-> NoJob]
    /\ outcome = [a \in Specialists |-> "pending"]
    /\ claims = [k \in Keys |-> <<>>]
    /\ source = [k \in Keys |-> NoOne]
    /\ round = 1
    /\ pending = [k \in Keys |-> 0] /\ topic = NoKey
    /\ revised = NoReply /\ critique = NoReply /\ evidence = NoReply /\ published = NoReply
    /\ approved = {}
    /\ late = FALSE
    /\ failed = [a \in Specialists |-> 0]
    /\ transcript = {}
    /\ tries = 1 /\ upsets = 0

Upset == upsets < MaxUpsets /\ upsets' = upsets + 1

(***************************************************************************)
(* _invoke_agent: attempts of one agent at one assignment.  The first      *)
(* message of an attempt, and those of the except clause, are outside the  *)
(* try: their failure is not an attempt's but the call's.                  *)
(***************************************************************************)

At(j, stage) == job[j].stage = stage
Go(j, stage) == job' = [job EXCEPT ![j].stage = stage]

Breaks(j) == Upset /\ Go(j, "broken") /\ UNCHANGED <<transcript, failed>>

Attempt(j) ==
    /\ At(j, "attempt")
    /\ \/ Go(j, "agent") /\ UNCHANGED <<transcript, failed, upsets>>
       \/ Breaks(j)

\* The agent's own work: its loop of tools, or one call.
Answer(j) ==
    /\ At(j, "agent")
    /\ \E r \in Reply : job' = [job EXCEPT ![j].stage = "answer", ![j].reply = r]
    /\ UNCHANGED <<transcript, failed, upsets>>

Raise(j) == At(j, "agent") /\ Go(j, "failure") /\ UNCHANGED <<transcript, failed, upsets>>

Statements(j) ==
    {<<"evidence", job[j].agent, k, job[j].reply[k]>> : k \in {k \in Keys : job[j].reply[k] # "none"}}

\* (Wrong: the message is sent if possible.)
ReportIfPossible(j) ==
    /\ At(j, "answer")
    /\ Go(j, "answered")
    /\ \/ transcript' = transcript \cup Statements(j) /\ UNCHANGED <<failed, upsets>>
       \/ Upset /\ UNCHANGED <<transcript, failed>>

\* specialist_evidence is inside the try: without it the attempt has failed.
Report(j) ==
    /\ At(j, "answer")
    /\ \/ /\ transcript' = transcript \cup Statements(j)
          /\ Go(j, "answered")
          /\ UNCHANGED <<failed, upsets>>
       \/ /\ Upset
          /\ job' = [job EXCEPT ![j].stage = "failure", ![j].reply = NoReply]
          /\ UNCHANGED <<transcript, failed>>

RetriesLeft(j) == job[j].attempt <= AgentRetries

\* An assignment is handed on once; a revision is not.
HandsOn(j) == j # Reviser /\ ~job[j].standin

NoteFailure(j) ==
    /\ At(j, "failure")
    /\ \/ /\ Go(j, IF RetriesLeft(j) THEN "retry" ELSE IF HandsOn(j) THEN "handoff" ELSE "failed")
          /\ failed' = [a \in Specialists |-> failed[a] + (IF a = j THEN 1 ELSE 0)]
          /\ UNCHANGED <<transcript, upsets>>
       \/ Breaks(j)

Retry(j) ==
    /\ At(j, "retry")
    /\ \/ /\ job' = [job EXCEPT ![j].stage = "attempt", ![j].attempt = @ + 1]
          /\ UNCHANGED <<transcript, failed, upsets>>
       \/ Breaks(j)

(***************************************************************************)
(* replan: of the other specialists and the fallback, the first of those   *)
(* that share the most risk domains with the failed assignment.            *)
(***************************************************************************)

Candidates(a) == (Specialists \ {a}) \cup {Fallback}
Shared(a, b)  == Cardinality(Domains[a] \cap Domains[b])

\* The fallback comes last, unless it is one of the other specialists.
Rank(a, b) == IF b \in Specialists \ {a} THEN CHOOSE i \in DOMAIN Agents : Agents[i] = b
              ELSE Len(Agents) + 1

Substitute(a) ==
    CHOOSE b \in Candidates(a) : \A c \in Candidates(a) :
        \/ Shared(a, c) < Shared(a, b)
        \/ Shared(a, c) = Shared(a, b) /\ Rank(a, b) <= Rank(a, c)

Start(a) == [NoJob EXCEPT !.stage = "attempt", !.agent = a, !.attempt = 1]

Handoff(a) ==
    /\ At(a, "handoff")
    /\ \/ /\ transcript' = transcript \cup {<<"handoff", a, Substitute(a)>>}
          /\ job' = [job EXCEPT ![a] = [Start(Substitute(a)) EXCEPT !.standin = TRUE]]
          /\ UNCHANGED <<failed, upsets>>
       \/ Breaks(a)

Invoke(j) == Attempt(j) \/ Answer(j) \/ Raise(j) \/ Report(j) \/ NoteFailure(j) \/ Retry(j)

Settled(j) == job[j].stage \in {"answered", "failed", "broken"}

(***************************************************************************)
(* The nodes.  The runtime looks at the clock before each of them; its     *)
(* eight steps are enough for the six nodes.                               *)
(***************************************************************************)

In(node) == phase = node

Enter(node) ==
    \/ phase' = node /\ UNCHANGED late
    \/ phase' = "raised" /\ late' = TRUE

\* A message or a memory of the node itself cannot be written.
NodeBreaks ==
    /\ phase \in Nodes \ {"specialists"} /\ At(Reviser, "idle")
    /\ Upset
    /\ phase' = "raised"
    /\ UNCHANGED <<job, outcome, dialogue, transcript, late, failed, tries>>

Plan ==
    /\ In("planner")
    /\ Enter("specialists")
    /\ job' = [j \in Jobs |-> IF j = Reviser THEN NoJob ELSE Start(j)]
    /\ UNCHANGED <<outcome, dialogue, transcript, failed, tries, upsets>>

Specialist(a) ==
    /\ In("specialists")
    /\ Invoke(a) \/ Handoff(a)
    /\ UNCHANGED <<phase, outcome, dialogue, late, tries>>

\* Outcomes are gathered as they complete, in any order; what an agent reports
\* comes after what others have reported of the same key.
Gather(a) ==
    /\ In("specialists") /\ outcome[a] = "pending"
    /\ job[a].stage \in {"answered", "failed"}
    /\ outcome' = [outcome EXCEPT ![a] = IF At(a, "answered") THEN "completed" ELSE "failed"]
    /\ LET said == IF At(a, "answered") THEN job[a].reply ELSE NoReply
       IN  /\ claims' = [k \in Keys |-> IF said[k] = "none" THEN claims[k] ELSE Append(claims[k], said[k])]
           /\ source' = [k \in Keys |-> IF said[k] # "none" /\ source[k] = NoOne
                                          THEN job[a].agent ELSE source[k]]
    /\ job' = [job EXCEPT ![a] = NoJob]
    /\ UNCHANGED <<phase, round, pending, topic, revised, critique, evidence, approved, published,
                   transcript, late, failed, tries, upsets>>

\* (Wrong: one assignment that cannot be done ends the review.)
AnyGivenUp == \E a \in Specialists : outcome[a] = "failed"

AllGivenUp == \A a \in Specialists : outcome[a] = "failed"

GatheredAll ==
    /\ In("specialists")
    /\ \A a \in Specialists : outcome[a] # "pending"
    /\ IF AllGivenUp THEN phase' = "raised" /\ UNCHANGED late ELSE Enter("deliberation")
    /\ UNCHANGED <<job, outcome, dialogue, transcript, failed, tries, upsets>>

\* The pool waits for the other threads before the exception of one gets out.
GatherBreaks ==
    /\ In("specialists")
    /\ \A a \in Specialists : outcome[a] # "pending" \/ job[a].stage \in {"answered", "failed", "broken"}
    /\ \E a \in Specialists : At(a, "broken")
    /\ phase' = "raised"
    /\ UNCHANGED <<job, outcome, dialogue, transcript, late, failed, tries, upsets>>

(***************************************************************************)
(* Deliberation.  Critiques, reproductions and decisions are kept by key:  *)
(* of several findings with one key, the last one's is what stays.         *)
(***************************************************************************)

LastClaim == [k \in Keys |-> IF claims[k] = <<>> THEN "none" ELSE Last(claims[k])]
Thin(k)   == Cardinality({i \in DOMAIN claims[k] : claims[k][i] = "thin"})

Challenge ==
    /\ In("deliberation")
    /\ critique' = LastClaim
    /\ IF round >= Rounds \/ (\A k \in Keys : Thin(k) = 0)
         THEN Enter("evidence") /\ UNCHANGED pending
         ELSE phase' = "revision" /\ pending' = [k \in Keys |-> Thin(k)] /\ UNCHANGED late
    /\ UNCHANGED <<job, outcome, claims, source, round, topic, revised, evidence, approved, published,
                   transcript, failed, tries, upsets>>

\* The request goes to the first source of the key, whoever made the claim.
AskRevision(k) ==
    /\ In("revision") /\ At(Reviser, "idle") /\ pending[k] > 0
    /\ pending' = [pending EXCEPT ![k] = @ - 1]
    /\ topic' = k
    /\ job' = [job EXCEPT ![Reviser] = Start(source[k])]
    /\ UNCHANGED <<phase, outcome, claims, source, round, revised, critique, evidence, approved,
                   published, transcript, late, failed, tries, upsets>>

Revise ==
    /\ In("revision")
    /\ Invoke(Reviser)
    /\ UNCHANGED <<phase, outcome, dialogue, late, tries>>

\* An answer that does not come back to the key leaves it as it is.
TakeFrom(stages) ==
    /\ In("revision") /\ job[Reviser].stage \in stages
    /\ revised' = [revised EXCEPT ![topic] =
                     IF job[Reviser].reply[topic] # "none" THEN job[Reviser].reply[topic] ELSE @]
    /\ topic' = NoKey
    /\ job' = [job EXCEPT ![Reviser] = NoJob]
    /\ UNCHANGED <<phase, outcome, claims, source, round, pending, critique, evidence, approved,
                   published, transcript, late, failed, tries, upsets>>

\* (Wrong: a revision that failed is waited for.)
TakeRevisionAnswered == TakeFrom({"answered"})

TakeRevision == TakeFrom({"answered", "failed"})

ReviseBreaks ==
    /\ In("revision") /\ At(Reviser, "broken")
    /\ phase' = "raised"
    /\ UNCHANGED <<job, outcome, dialogue, transcript, late, failed, tries, upsets>>

\* All findings of a key become the revised one.
Revision ==
    [k \in Keys |-> IF revised[k] = "none" THEN claims[k] ELSE [i \in DOMAIN claims[k] |-> revised[k]]]

RoundTo(node) ==
    /\ In("revision") /\ At(Reviser, "idle")
    /\ \A k \in Keys : pending[k] = 0
    /\ claims' = Revision
    /\ revised' = NoReply
    /\ round' = round + 1
    /\ phase' = node
    /\ UNCHANGED <<job, outcome, source, pending, topic, critique, evidence, approved, published,
                   transcript, late, failed, tries, upsets>>

\* (Wrong: the revisions of the last round are not challenged again.)
EndRoundUnchallenged == RoundTo(IF round + 1 = Rounds THEN "evidence" ELSE "deliberation")

EndRound == RoundTo("deliberation")

(***************************************************************************)
(* Evidence, verification, arbitration, memory.                            *)
(***************************************************************************)

Reproduce ==
    /\ In("evidence")
    /\ evidence' = LastClaim
    /\ Enter("verifier")
    /\ UNCHANGED <<job, outcome, claims, source, round, pending, topic, revised, critique, approved,
                   published, transcript, failed, tries, upsets>>

\* (Wrong: the critic's objections are not a reason to reject.)
ApprovesUncritically(k) == evidence[k] \in {"sound", "thin"}

\* The last decision on a key: no objection, and nothing wrong with evidence,
\* remediation or confidence.
Approves(k) == critique[k] \in {"sound", "unsafe"} /\ evidence[k] = "sound"

Verify ==
    /\ In("verifier")
    /\ approved' = {k \in Keys : Approves(k)}
    /\ Enter("arbiter")
    /\ UNCHANGED <<job, outcome, claims, source, round, pending, topic, revised, critique, evidence,
                   published, transcript, failed, tries, upsets>>

\* Every finding of an approved key has the decision's confidence, so the first
\* of them is kept.
Arbitrate ==
    /\ In("arbiter")
    /\ published' = [k \in Keys |-> IF k \in approved THEN Head(claims[k]) ELSE "none"]
    /\ phase' = "memory"
    /\ UNCHANGED <<job, outcome, claims, source, round, pending, topic, revised, critique, evidence,
                   approved, transcript, late, failed, tries, upsets>>

\* remember_finding and consolidate_task; their failure is NodeBreaks.
Remember ==
    /\ In("memory")
    /\ phase' = "returned"
    /\ UNCHANGED <<job, outcome, dialogue, transcript, late, failed, tries, upsets>>

(***************************************************************************)
(* The harness retries its node, or a later run of the task does.          *)
(***************************************************************************)

Die ==
    /\ phase \in Nodes
    /\ Upset
    /\ phase' = "raised"
    /\ UNCHANGED <<job, outcome, dialogue, transcript, late, failed, tries>>

TryAgain ==
    /\ phase = "raised" /\ tries < MaxTries
    /\ phase' = "planner"
    /\ job' = [j \in Jobs |-> NoJob]
    /\ outcome' = [a \in Specialists |-> "pending"]
    /\ claims' = [k \in Keys |-> <<>>]
    /\ source' = [k \in Keys |-> NoOne]
    /\ round' = 1
    /\ pending' = [k \in Keys |-> 0] /\ topic' = NoKey
    /\ revised' = NoReply /\ critique' = NoReply /\ evidence' = NoReply /\ published' = NoReply
    /\ approved' = {}
    /\ late' = FALSE
    /\ failed' = [a \in Specialists |-> 0]
    /\ transcript' = {}
    /\ tries' = tries + 1
    /\ UNCHANGED upsets

-----------------------------------------------------------------------------

Dialogue ==
    \/ Challenge \/ Revise \/ TakeRevision \/ ReviseBreaks \/ EndRound
    \/ \E k \in Keys : AskRevision(k)

Step ==
    \/ Plan \/ GatheredAll \/ GatherBreaks
    \/ \E a \in Specialists : Specialist(a) \/ Gather(a)
    \/ Dialogue
    \/ Reproduce \/ Verify \/ Arbitrate \/ Remember

Next == Step \/ NodeBreaks \/ Die \/ TryAgain

Spec == Init /\ [][Next]_vars

\* An agent's call ends (tool loop and HTTP calls have time limits), threads run.
Fairness == WF_vars(Step)
FairSpec == Spec /\ Fairness

-----------------------------------------------------------------------------
\* PROPERTIES

\* A finding is published only if a finding with its key, in the version that was
\* challenged last, satisfies critic and verifier: no report of a key that nobody
\* could support, whichever agents raised it and however it was revised.
PublishedSupported ==
    \A k \in Keys : published[k] # "none" => \E i \in DOMAIN claims[k] : claims[k][i] = "sound"

\* The decision on a key rests on a critique of the findings as they are, not as
\* they were before a revision.
CritiqueCurrent == phase \in {"evidence", "verifier", "arbiter", "memory", "returned"} => critique = LastClaim

\* "every hand-off is persisted": what deliberation works on was recorded in the
\* store by the agent it came from, and so was the hand-off of an assignment
\* before its substitute starts.
Recorded ==
    /\ \A k \in Keys : \A i \in DOMAIN claims[k] :
          \E n \in Names : <<"evidence", n, k, claims[k][i]>> \in transcript
    /\ \A a \in Specialists : job[a].standin => <<"handoff", a, job[a].agent>> \in transcript

\* Failures are contained: while nothing is wrong with the store or the clock, the
\* review fails only when every assignment was given up, each of them after
\* all attempts of two agents.
FailuresContained ==
    phase = "raised" /\ upsets = 0 /\ ~late =>
        \A a \in Specialists : failed[a] = 2 * (AgentRetries + 1)

\* A collaboration that has begun ends, whatever agents fail and revisions are
\* asked for.
CollaborationEnds == phase = "planner" ~> phase \in {"returned", "raised"}

=============================================================================
