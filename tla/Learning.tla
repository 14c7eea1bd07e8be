------------------------------ MODULE Learning ------------------------------
(***************************************************************************)
(* The two learning loops of the service, inside one process of the API:   *)
(* prompt versions (evolution.py) and declarative skill artifacts          *)
(* (skill_evolution.py), over the version tables of store.py and           *)
(* postgres_store.py, with the feedback both learn from and the reviewer   *)
(* the process has registered.                                             *)
(*                                                                         *)
(* A request of the thread pool is cut where it lets others run: at every  *)
(* transaction, and where it waits for a lock.  The text of a prompt and   *)
(* the rules of an artifact are the set of lessons they hold; replaying a  *)
(* dataset is a score of that set, and what else may fail in a replay is   *)
(* chosen by the environment (Gates).                                      *)
(***************************************************************************)
EXTENDS Naturals, Sequences, FiniteSets

CONSTANTS
    Requests,       \* threads of the API's pool
    Rules,          \* rule identifiers: upper case, as FEEDBACK_RULE_ID wants them
    RuleOf,         \* what upper-casing a rule_id, as users write it, comes to
    Reports,        \* the feedback users give: records [kind, rule]
    Manual,         \* contents users propose by hand, per chain
    Score,          \* replay score of a content
    MinGain,        \* min_improvement
    Backends,       \* the databases an instance may start on
    MaxReports,     \* bound: rows of failure_cases
    MaxVersions,    \* bound: versions of one chain
    MaxCalls,       \* bound: calls of the learning endpoints
    MaxMishaps      \* bound: failed calls and deaths of the process

Chains == {"prompt", "skill"}

\* Categories service.record_feedback accepts, and those that teach a prompt.
Kinds == {"false_positive", "missed_issue", "bad_fix", "accepted"}
Directed == Kinds \ {"accepted"}
Lessons == Directed \cup Rules

NoOne == "nobody"

\* A rule_id that is no identifier in either case, or is missing.
NoRule == "none"
Names == DOMAIN RuleOf

ASSUME LearningAssumption ==
    /\ NoOne \notin Requests
    /\ Rules \cap Directed = {} /\ NoRule \notin Rules
    /\ Rules \subseteq Names /\ RuleOf \in [Names -> Rules \cup {NoRule}]
    /\ \A rule \in Rules : RuleOf[rule] = rule
    /\ Reports \subseteq [kind : Kinds, rule : Names]
    /\ Manual \in [Chains -> SUBSET SUBSET Lessons]
    /\ Score \in [SUBSET Lessons -> Nat]
    /\ MinGain \in Nat
    /\ Backends \subseteq {"sqlite", "postgres"}
    /\ MaxReports \in Nat /\ MaxVersions \in Nat
    /\ MaxCalls \in Nat /\ MaxMishaps \in Nat

VARIABLES
    backend,        \* which store the process runs on
    versions,       \* skill_versions and skill_artifact_versions: rows per chain, in order
    evolved,        \* candidates with an 'activated' run in (skill_)evolution_runs, per chain
    feedback,       \* failure_cases, in order of their ids
    lock,           \* holder of the engine's RLock, per chain
    thr,            \* what each request has read and where it stands
    live,           \* version of the prompt in the registered reviewer
    calls,          \* calls begun
    mishaps,        \* failed calls and deaths
    \* History, read by the properties only.
    last,           \* version whose activation was committed last, per chain
    stray           \* a reload overlapped one that had read another version, or
                    \* a call failed after its activation, before its reload was done

vars == <<backend, versions, evolved, feedback, lock, thr, live, calls, mishaps, last, stray>>

Idle == [pc |-> "idle", chain |-> "prompt", auto |-> FALSE, used |-> {}, cand |-> {},
         base |-> 0, parent |-> 0, decision |-> "none", version |-> 0, snap |-> {}]

Stages == {"idle", "listed", "waiting", "evaluating", "decided", "parented", "saved",
           "resolving", "reloading", "registering", "clearing"}

Row == [content : SUBSET Lessons, active : BOOLEAN, parent : 0..MaxVersions, won : BOOLEAN]

TypeOK ==
    /\ backend \in Backends
    /\ versions \in [Chains -> Seq(Row)]
    /\ \A c \in Chains : Len(versions[c]) <= MaxVersions
    /\ \A c \in Chains : \A v \in DOMAIN versions[c] : versions[c][v].parent < v
    /\ evolved \in [Chains -> SUBSET (1..MaxVersions)]
    /\ \A c \in Chains : evolved[c] \subseteq DOMAIN versions[c]
    /\ feedback \in Seq([kind : Kinds, rule : Names, resolved : BOOLEAN])
    /\ Len(feedback) <= MaxReports
    /\ lock \in [Chains -> Requests \cup {NoOne}]
    /\ thr \in [Requests -> [pc : Stages, chain : Chains, auto : BOOLEAN,
                             used : SUBSET (1..MaxReports), cand : SUBSET Lessons,
                             base : 0..MaxVersions, parent : 0..MaxVersions,
                             decision : {"none", "activated", "rejected", "deferred"},
                             version : 0..MaxVersions, snap : SUBSET (1..MaxVersions)]]
    /\ live \in 0..MaxVersions
    /\ calls \in 0..MaxCalls
    /\ mishaps \in 0..MaxMishaps
    /\ last \in [Chains -> 0..MaxVersions]
    /\ \A c \in Chains : last[c] <= Len(versions[c])
    /\ stray \in BOOLEAN

-----------------------------------------------------------------------------
(* What the store answers. *)

Active(c) == {v \in DOMAIN versions[c] : versions[c][v].active}

\* The active version with the highest number, 0 when there is none.
Serving(c) ==
    IF Active(c) = {} THEN 0
    ELSE CHOOSE v \in Active(c) : \A w \in Active(c) : w <= v

\* DEFAULT_PROMPT and the empty artifact hold no lesson.
Content(c, v) == IF v = 0 THEN {} ELSE versions[c][v].content

Unresolved == {k \in DOMAIN feedback : ~feedback[k].resolved}

\* A prompt may go back to any version it has; an artifact only to one that is
\* active or has a run that activated it.
PromptExists(v) == v \in DOMAIN versions["prompt"]
\* Wrong: any version that exists, as for prompts.
SkillEligibleExisting(v) == v \in DOMAIN versions["skill"]
SkillEligible(v) ==
    /\ v \in DOMAIN versions["skill"]
    /\ versions["skill"][v].active \/ v \in evolved["skill"]
MayReturn(c, v) == IF c = "prompt" THEN PromptExists(v) ELSE SkillEligible(v)

\* Wrong: the other rows are left alone.
ActivateRowOnly(rows, seen, v) == [rows EXCEPT ![v].active = TRUE]

\* UPDATE ... SET active=0 on the rows of seen, then SET active=1 on v.
ActivateRow(rows, seen, v) ==
    [w \in DOMAIN rows |->
        [rows[w] EXCEPT !.active = (w = v) \/ (@ /\ w \notin seen)]]

\* A new row; activating it clears every other.
InsertRow(rows, content, parent, activate) ==
    Append([w \in DOMAIN rows |-> [rows[w] EXCEPT !.active = @ /\ ~activate]],
           [content |-> content, active |-> activate, parent |-> parent, won |-> activate])

-----------------------------------------------------------------------------
(* What an engine makes of feedback and of a candidate. *)

\* A rule_id enters a prompt only when it is written as an identifier.
PromptLessons(seen) ==
    ({feedback[k].kind : k \in seen} \cap Directed)
        \cup ({feedback[k].rule : k \in {j \in seen : feedback[j].kind = "missed_issue"}} \cap Rules)

\* An artifact takes it in either case.
RuleIn(k) == RuleOf[feedback[k].rule]

\* The cases are read newest first: what case k finds is what the next newer
\* case of its rule left, or the artifact's rules when there is none.
Later(seen, k) == {j \in seen : j > k /\ RuleIn(j) = RuleIn(k)
                                /\ feedback[j].kind \in {"missed_issue", "false_positive"}}
Held(seen, k, rules) ==
    IF Later(seen, k) = {} THEN RuleIn(k) \in rules
    ELSE LET j == CHOOSE j \in Later(seen, k) : \A i \in Later(seen, k) : j <= i
         IN feedback[j].kind = "missed_issue"
SkillUses(seen, rules) ==
    {k \in seen : /\ RuleIn(k) \in Rules
                  /\ \/ feedback[k].kind = "missed_issue" /\ ~Held(seen, k, rules)
                     \/ feedback[k].kind = "false_positive" /\ Held(seen, k, rules)}
Oldest(used, k) == \A j \in used : RuleIn(j) = RuleIn(k) => j >= k
SkillRules(used, rules) ==
    LET decided(kind) == {RuleIn(k) : k \in
                            {j \in used : feedback[j].kind = kind /\ Oldest(used, j)}}
    IN (rules \ decided("false_positive")) \cup decided("missed_issue")

\* What the replays report besides the score: the safety terms of the prompt,
\* datasets and a reviewer are there, no case failed, nothing protected regressed.
Gates == [safe : BOOLEAN, ready : BOOLEAN, clean : BOOLEAN, holdout : BOOLEAN]

Improved(cand, base) == Score[cand] >= Score[base] + MinGain

PromptDecision(g, cand, base) ==
    IF ~g.safe THEN "rejected"
    ELSE IF ~g.ready THEN "deferred"
    ELSE IF g.clean /\ Improved(cand, base) /\ g.holdout THEN "activated"
    ELSE "rejected"

SkillDecision(g, cand, base) ==
    IF ~g.ready THEN "deferred"
    ELSE IF g.clean /\ Improved(cand, base) /\ g.holdout THEN "activated"
    ELSE "rejected"

-----------------------------------------------------------------------------
Init ==
    /\ backend \in Backends
    /\ versions = [c \in Chains |-> <<>>]
    /\ evolved = [c \in Chains |-> {}]
    /\ feedback = <<>>
    /\ lock = [c \in Chains |-> NoOne]
    /\ thr = [r \in Requests |-> Idle]
    /\ live = 0
    /\ calls = 0
    /\ mishaps = 0
    /\ last = [c \in Chains |-> 0]
    /\ stray = FALSE

Go(r, next) == thr' = [thr EXCEPT ![r] = next]
At(r, stage) == thr[r].pc = stage
tables == <<versions, evolved, last>>
process == <<backend, live, mishaps, stray>>

\* A call begins on a thread of the pool that is free.
Call(r) == At(r, "idle") /\ calls < MaxCalls /\ calls' = calls + 1

\* POST /v1/tasks/{id}/feedback on a task that succeeded.
RecordFeedback(f) ==
    /\ Len(feedback) < MaxReports
    /\ feedback' = Append(feedback, [kind |-> f.kind, rule |-> f.rule, resolved |-> FALSE])
    /\ UNCHANGED <<tables, process, calls, lock, thr>>

\* POST /v1/evolution/auto and /v1/skill-evolution/auto: the unresolved cases
\* are read first, before and outside the engine's lock.
ListFailures(r, c) ==
    /\ Call(r)
    /\ Go(r, [Idle EXCEPT !.pc = "listed", !.chain = c, !.auto = TRUE, !.used = Unresolved])
    /\ UNCHANGED <<tables, process, feedback, lock>>
AutoPrompt(r) == ListFailures(r, "prompt")
AutoSkill(r) == ListFailures(r, "skill")

\* Every listed case counts as used once one of them adds a directive.
PromptCandidate(r) ==
    /\ At(r, "listed") /\ thr[r].chain = "prompt"
    /\ LET base == Content("prompt", Serving("prompt"))
           additions == PromptLessons(thr[r].used) \ base
       IN Go(r, IF additions = {} THEN Idle
                ELSE [thr[r] EXCEPT !.pc = "waiting", !.cand = base \cup additions])
    /\ UNCHANGED <<tables, process, calls, feedback, lock>>

SkillCandidate(r) ==
    /\ At(r, "listed") /\ thr[r].chain = "skill"
    /\ LET rules == Content("skill", Serving("skill"))
           used == SkillUses(thr[r].used, rules)
       IN Go(r, IF used = {} THEN Idle
                ELSE [thr[r] EXCEPT !.pc = "waiting", !.used = used,
                                    !.cand = SkillRules(used, rules)])
    /\ UNCHANGED <<tables, process, calls, feedback, lock>>

\* POST /v1/evolution/propose and /v1/skill-evolution/propose.
Submit(r, c) ==
    /\ Call(r)
    /\ \E content \in Manual[c] :
          Go(r, [Idle EXCEPT !.pc = "waiting", !.chain = c, !.cand = content])
    /\ UNCHANGED <<tables, process, feedback, lock>>
ProposePrompt(r) == Submit(r, "prompt")
ProposeSkill(r) == Submit(r, "skill")

\* The lock, and the baseline read under it.  A candidate equal to what is
\* active is deferred without a version.
Enter(r) ==
    LET c == thr[r].chain
        base == Serving(c)
    IN /\ At(r, "waiting") /\ lock[c] = NoOne
       /\ IF base # 0 /\ thr[r].cand = Content(c, base)
          THEN Go(r, Idle) /\ UNCHANGED lock
          ELSE /\ lock' = [lock EXCEPT ![c] = r]
               /\ Go(r, [thr[r] EXCEPT !.pc = "evaluating", !.base = base])
       /\ UNCHANGED <<tables, process, calls, feedback>>

\* Both datasets replayed with the baseline and with the candidate.
EvaluatePrompt(r) ==
    /\ At(r, "evaluating") /\ thr[r].chain = "prompt"
    /\ \E g \in Gates :
          Go(r, [thr[r] EXCEPT !.pc = "decided",
                    !.decision = PromptDecision(g, thr[r].cand, Content("prompt", thr[r].base))])
    /\ UNCHANGED <<tables, process, calls, feedback, lock>>

EvaluateSkill(r) ==
    /\ At(r, "evaluating") /\ thr[r].chain = "skill"
    /\ \E g \in Gates :
          Go(r, [thr[r] EXCEPT !.pc = "decided",
                    !.decision = SkillDecision(g, thr[r].cand, Content("skill", thr[r].base))])
    /\ UNCHANGED <<tables, process, calls, feedback, lock>>

Won(r) == thr[r].decision = "activated"

\* PostgreSQL reads the parent on a connection of its own, before the
\* transaction that takes the advisory lock.
PgReadParent(r) ==
    /\ At(r, "decided") /\ backend = "postgres"
    /\ Go(r, [thr[r] EXCEPT !.pc = "parented", !.parent = Serving(thr[r].chain)])
    /\ UNCHANGED <<tables, process, calls, feedback, lock>>

SaveRow(r, parent) ==
    LET c == thr[r].chain
        number == Len(versions[c]) + 1
    IN /\ number <= MaxVersions
       /\ versions' = [versions EXCEPT ![c] = InsertRow(@, thr[r].cand, parent, Won(r))]
       /\ last' = IF Won(r) THEN [last EXCEPT ![c] = number] ELSE last
       /\ Go(r, [Idle EXCEPT !.pc = "saved", !.chain = c, !.auto = thr[r].auto,
                             !.used = thr[r].used, !.decision = thr[r].decision,
                             !.version = number])
       /\ UNCHANGED <<evolved, process, calls, feedback, lock>>
SaveVersion(r) ==
    At(r, "decided") /\ backend = "sqlite" /\ SaveRow(r, Serving(thr[r].chain))
PgSaveVersion(r) ==
    At(r, "parented") /\ SaveRow(r, thr[r].parent)

\* Wrong: an automatic proposal resolves its cases whatever was decided.
SaveRunResolving(r) ==
    LET c == thr[r].chain
    IN /\ At(r, "saved")
       /\ evolved' = IF Won(r) THEN [evolved EXCEPT ![c] = @ \cup {thr[r].version}] ELSE evolved
       /\ lock' = [lock EXCEPT ![c] = NoOne]
       /\ Go(r, IF thr[r].auto THEN [Idle EXCEPT !.pc = "resolving", !.used = thr[r].used]
                ELSE [Idle EXCEPT !.pc = "reloading"])
       /\ UNCHANGED <<versions, last, process, calls, feedback>>

\* The audit row of the run is a transaction of its own; the lock goes with it.
SaveRun(r) ==
    LET c == thr[r].chain
    IN /\ At(r, "saved")
       /\ evolved' = IF Won(r) THEN [evolved EXCEPT ![c] = @ \cup {thr[r].version}] ELSE evolved
       /\ lock' = [lock EXCEPT ![c] = NoOne]
       /\ Go(r, IF ~Won(r) THEN Idle
                ELSE IF thr[r].auto THEN [Idle EXCEPT !.pc = "resolving", !.used = thr[r].used]
                ELSE [Idle EXCEPT !.pc = "reloading"])
       /\ UNCHANGED <<versions, last, process, calls, feedback>>

ResolveFailures(r) ==
    /\ At(r, "resolving")
    /\ feedback' = [k \in DOMAIN feedback |->
                       [feedback[k] EXCEPT !.resolved = @ \/ k \in thr[r].used]]
    /\ Go(r, [Idle EXCEPT !.pc = "reloading"])
    /\ UNCHANGED <<tables, process, calls, lock>>

\* service.reload_skills: the active prompt is read, then registered, the skill
\* directory scanned and the reviewer rebuilt; no lock spans the two steps.
ReloadRead(r) ==
    /\ At(r, "reloading")
    /\ Go(r, [Idle EXCEPT !.pc = "registering", !.version = Serving("prompt")])
    /\ UNCHANGED <<tables, process, calls, feedback, lock>>

ReloadRegister(r) ==
    /\ At(r, "registering")
    /\ live' = thr[r].version
    /\ stray' = (stray \/ \E q \in Requests :
                              At(q, "registering") /\ thr[q].version # thr[r].version)
    /\ Go(r, Idle)
    /\ UNCHANGED <<tables, backend, calls, mishaps, feedback, lock>>

\* Wrong: a prompt is rolled back while a proposal is being measured.
MayRollUnlocked(r, c) == Call(r)

\* The activate endpoints.  EvolutionEngine.rollback holds its lock around the
\* store's transaction, SkillEvolutionEngine.rollback takes none.
MayRoll(r, c) == Call(r) /\ (c = "prompt" => lock[c] = NoOne)

Commit(c, seen, v) ==
    /\ versions' = [versions EXCEPT ![c] = ActivateRow(@, seen, v)]
    /\ last' = [last EXCEPT ![c] = v]

\* Wrong: the reviewer is not rebuilt after a rollback.
RollbackQuietly(r, c, v) ==
    /\ backend = "sqlite" /\ MayRoll(r, c) /\ MayReturn(c, v)
    /\ Commit(c, DOMAIN versions[c], v)
    /\ Go(r, Idle)
    /\ UNCHANGED <<evolved, process, feedback, lock>>
Rollback(r, c, v) ==
    /\ backend = "sqlite" /\ MayRoll(r, c) /\ MayReturn(c, v)
    /\ Commit(c, DOMAIN versions[c], v)
    /\ Go(r, [Idle EXCEPT !.pc = "reloading"])
    /\ UNCHANGED <<evolved, process, feedback, lock>>
RollbackPrompt(r) == \E v \in 1..MaxVersions : Rollback(r, "prompt", v)
RollbackSkill(r) == \E v \in 1..MaxVersions : Rollback(r, "skill", v)

\* On PostgreSQL the clearing UPDATE touches the rows committed when it began,
\* also when it had to wait for the row locks of a save that inserts another.
PgRollbackBegin(r, c, v) ==
    /\ backend = "postgres" /\ MayRoll(r, c) /\ MayReturn(c, v)
    /\ lock' = IF c = "prompt" THEN [lock EXCEPT ![c] = r] ELSE lock
    /\ Go(r, [Idle EXCEPT !.pc = "clearing", !.chain = c, !.version = v,
                          !.snap = DOMAIN versions[c]])
    /\ UNCHANGED <<tables, process, feedback>>
PgRollbackPrompt(r) == \E v \in 1..MaxVersions : PgRollbackBegin(r, "prompt", v)
PgRollbackSkill(r) == \E v \in 1..MaxVersions : PgRollbackBegin(r, "skill", v)

PgRollbackCommit(r) ==
    LET c == thr[r].chain
    IN /\ At(r, "clearing")
       /\ Commit(c, thr[r].snap, thr[r].version)
       /\ lock' = IF c = "prompt" THEN [lock EXCEPT ![c] = NoOne] ELSE lock
       /\ Go(r, [Idle EXCEPT !.pc = "reloading"])
       /\ UNCHANGED <<evolved, process, calls, feedback>>

\* A call of the store raises, or a manifest of the skill directory is refused
\* while the registry reloads, before the reviewer is rebuilt: the endpoint
\* answers 500, and what was committed stays.
CallFails(r) ==
    LET committed == (At(r, "saved") /\ Won(r)) \/ At(r, "resolving")
                        \/ At(r, "reloading") \/ At(r, "registering")
    IN /\ ~At(r, "idle") /\ ~At(r, "evaluating")
       /\ mishaps < MaxMishaps
       /\ mishaps' = mishaps + 1
       /\ lock' = [c \in Chains |-> IF lock[c] = r THEN NoOne ELSE lock[c]]
       /\ stray' = (stray \/ committed)
       /\ Go(r, Idle)
       /\ UNCHANGED <<backend, tables, live, calls, feedback>>

\* The process dies and starts again on the active prompt.
Crash ==
    /\ mishaps < MaxMishaps
    /\ mishaps' = mishaps + 1
    /\ thr' = [r \in Requests |-> Idle]
    /\ lock' = [c \in Chains |-> NoOne]
    /\ live' = Serving("prompt")
    /\ stray' = FALSE
    /\ UNCHANGED <<backend, calls, tables, feedback>>

Next ==
    \/ \E f \in Reports : RecordFeedback(f)
    \/ \E r \in Requests :
          \/ AutoPrompt(r) \/ AutoSkill(r) \/ PromptCandidate(r) \/ SkillCandidate(r)
          \/ ProposePrompt(r) \/ ProposeSkill(r)
          \/ Enter(r) \/ EvaluatePrompt(r) \/ EvaluateSkill(r)
          \/ SaveVersion(r) \/ PgReadParent(r) \/ PgSaveVersion(r)
          \/ SaveRun(r) \/ ResolveFailures(r) \/ ReloadRead(r) \/ ReloadRegister(r)
          \/ RollbackPrompt(r) \/ RollbackSkill(r)
          \/ PgRollbackPrompt(r) \/ PgRollbackSkill(r) \/ PgRollbackCommit(r) \/ CallFails(r)
    \/ Crash

Spec == Init /\ [][Next]_vars

-----------------------------------------------------------------------------
(* Properties. *)

\* What a chain serves is the version whose activation was committed last, and
\* that version alone: a rollback is not undone by a proposal that was already
\* on its way, nor the other way round.  On PostgreSQL it is promised for the
\* prompts only, whose engine holds its lock through a rollback: an artifact's
\* rollback that waits for a save leaves both rows active, and the saved one,
\* the higher number, keeps serving.
LastActivationWins ==
    \A c \in Chains : (backend = "sqlite" \/ c = "prompt") =>
        Active(c) = {last[c]} \ {0}

\* An artifact that lost its gate, or was never measured, serves no review,
\* whatever is rolled back and wherever the process dies.
OnlyWinnersServe ==
    \A v \in Active("skill") : versions["skill"][v].won

\* A case is resolved only when a version that won its gate holds its lesson:
\* for a prompt the directive of its category, and the missed rule itself when
\* the report writes it as an identifier; a missed rule written otherwise is
\* resolved with the directive alone.
\* For an artifact the cases of one rule are applied newest first, so a newer
\* report may be resolved although an older one of the same batch undid it.
Reflects(c, content, k) ==
    LET f == feedback[k]
        contradicted == \E j \in 1..(k - 1) : RuleIn(j) = RuleIn(k) /\ feedback[j].kind # f.kind
    IN IF c = "prompt"
       THEN /\ {f.kind} \cap Directed \subseteq content
            /\ f.kind = "missed_issue" /\ f.rule \in Rules => f.rule \in content
       ELSE /\ RuleIn(k) \in Rules
            /\ \/ contradicted
               \/ f.kind = "missed_issue" /\ RuleIn(k) \in content
               \/ f.kind = "false_positive" /\ RuleIn(k) \notin content
ResolvedIsLearned ==
    \A k \in DOMAIN feedback : feedback[k].resolved =>
        \E c \in Chains : \E v \in DOMAIN versions[c] :
            versions[c][v].won /\ Reflects(c, versions[c][v].content, k)

\* When no request is under way the process reviews with the active prompt,
\* unless two reloads overlapped after reading different versions, or a call
\* failed after the activation had been committed, at a write that took the
\* reload with it or in the reload itself.
LiveFollows ==
    (~stray /\ \A r \in Requests : At(r, "idle")) => live = Serving("prompt")

\* A prompt that takes over by a proposal beats the prompt it takes over from,
\* not some earlier one, and names it as its parent: proposals and rollbacks
\* of prompts exclude each other from the baseline's replay to the insert.
TakeoverEarned ==
    [][\A v \in DOMAIN versions'["prompt"] \ DOMAIN versions["prompt"] :
         versions'["prompt"][v].active =>
           /\ Improved(versions'["prompt"][v].content, Content("prompt", Serving("prompt")))
           /\ versions'["prompt"][v].parent = Serving("prompt")]_vars

=============================================================================
