----------------------------- MODULE Benchmark -----------------------------
(***************************************************************************)
(* The resumable benchmark (benchmark_runner.py): processes that review    *)
(* the cases of a dataset by several routes, keep a checkpoint file per    *)
(* route and case, meter what the model's provider charges, and write a    *)
(* report in three files.  Processes may share the output directory, die,  *)
(* and find dataset and settings changed when they are started again.      *)
(*                                                                         *)
(* A case's content and a setting are version numbers; a response counts   *)
(* one token; latencies, costs, contexts and the rendering of the report   *)
(* are left out.                                                           *)
(***************************************************************************)
EXTENDS Naturals, Sequences, FiniteSetsExt

CONSTANTS
    Runners,        \* processes
    Cases,          \* the dataset
    Invocations,    \* the cases one may select (--splits, --limit), in the order of the
                    \* dataset, with the routes it may run (--routes), sorted
    Local,          \* those that call no model
    Teams,          \* those on which agents.py contains the failure of a call
    MaxRepairs,     \* max_json_repair_attempts
    MaxCalls,       \* bound: calls that one review of a team makes
    MaxRuns,        \* bound: invocations
    MaxEdits,       \* bound: changes of the dataset or the settings
    MaxMishaps      \* bound: deaths, failed writes, and calls that go wrong in any way

Selections == {x[1] : x \in Invocations}
Orders == {x[2] : x \in Invocations}
Routes == UNION {{order[i] : i \in DOMAIN order} : order \in Orders}
Files == <<"json", "markdown", "html">>

ASSUME BenchmarkAssumption ==
    /\ MaxRepairs \in {0, 1} /\ MaxRuns \in Nat /\ MaxEdits \in Nat /\ MaxMishaps \in Nat
    /\ Local \subseteq Routes /\ Teams \subseteq Routes \ Local /\ MaxCalls \in Nat
    /\ Selections \subseteq Seq(Cases) \ {<<>>}   \* select_cases raises on none,
    /\ Orders \subseteq Seq(Routes) \ {<<>>}      \* normalize_routes too

VARIABLES
    content,        \* the dataset file: version of every case
    settings,       \* version of the prompt, model and limits
    checkpoints,    \* the checkpoint file of a route and case
    reports,        \* the three files of the report
    runner,         \* what each process has read and where it stands
    runs, edits, mishaps,
    \* History, read by the properties only.
    saved,          \* the key of the last result saved of a route and case
    bills,          \* by key: what the provider ever charged for reviews under it
    repeated        \* the keys under which a review was begun more than once

ledger == <<bills, repeated>>
vars == <<content, settings, checkpoints, reports, runner, runs, edits, mishaps, saved, ledger>>

\* _usage of the route's reviewer.
NoUsage == [calls |-> 0, responses |-> 0, metered |-> 0, tokens |-> 0]

NoResult == [version |-> 0, settings |-> 0, success |-> FALSE,
             status |-> "unavailable", tokens |-> 0]

Idle == [pc |-> "idle", resume |-> FALSE, retry |-> FALSE, dataset |-> <<>>, settings |-> 0,
         routes |-> {}, todo |-> <<>>, results |-> <<>>, result |-> NoResult, usage |-> NoUsage,
         before |-> NoUsage, attempt |-> 0, files |-> <<>>]

Init ==
    /\ content = [c \in Cases |-> 1]
    /\ settings = 1
    /\ checkpoints = <<>>
    /\ reports = <<>>
    /\ runner = [p \in Runners |-> Idle]
    /\ runs = 0 /\ edits = 0 /\ mishaps = 0
    /\ saved = <<>> /\ bills = <<>> /\ repeated = {}

With(f, x, value) == [y \in DOMAIN f \cup {x} |-> IF y = x THEN value ELSE f[y]]
At(p, stage) == runner[p].pc = stage
Go(p, next) == runner' = [runner EXCEPT ![p] = next]
Item(p) == Head(runner[p].todo)
RouteOf(p) == Item(p)[1]
CaseOf(p) == Item(p)[2]
world == <<content, settings, runs, edits>>
Mishap == mishaps < MaxMishaps /\ mishaps' = mishaps + 1

\* BenchmarkRunner.run: all cases of a route, then those of the next.
Start(p, selection, order, resume, retry) ==
    LET n == Len(selection)
    IN /\ At(p, "idle") /\ runs < MaxRuns /\ (retry => resume)
       /\ runs' = runs + 1
       /\ Go(p, [Idle EXCEPT
             !.pc = "load", !.resume = resume, !.retry = retry, !.settings = settings,
             !.dataset = [c \in {selection[i] : i \in 1..n} |-> content[c]],
             !.routes = {order[i] : i \in DOMAIN order},
             !.todo = [i \in 1..(n * Len(order)) |->
                         <<order[((i - 1) \div n) + 1], selection[((i - 1) % n) + 1]>>]])
       /\ UNCHANGED <<content, settings, checkpoints, reports, edits, mishaps, saved, ledger>>

-----------------------------------------------------------------------------
(* Checkpoints. *)

\* The local route has no setting but the constant "local-rules-v1".
Config(route, s) == IF route \in Local THEN 0 ELSE s

\* Wrong: the settings are not part of the key.
KeyUnconfigured(p) == [dataset |-> runner[p].dataset, item |-> Item(p)]

\* _checkpoint_key: the selected cases with their content, the route with its
\* settings, the case.
KeyOf(x, item) == [dataset |-> x.dataset, item |-> item, settings |-> Config(item[1], x.settings)]
Key(p) == KeyOf(runner[p], Item(p))

\* Wrong: one file for all routes of a case.
SlotOfCase(p) == <<CHOOSE route \in Routes : TRUE, CaseOf(p)>>

\* _checkpoint_path
Slot(p) == Item(p)

\* _load_checkpoint
Reusable(p) ==
    /\ runner[p].resume
    /\ Slot(p) \in DOMAIN checkpoints
    /\ checkpoints[Slot(p)].key = Key(p)
    /\ runner[p].retry => checkpoints[Slot(p)].result.success

\* A case is done.  The next route has a reviewer of its own; after the last
\* case the report is written.
Done(p, result) ==
    LET rest == Tail(runner[p].todo)
        same == rest # <<>> /\ Head(rest)[1] = RouteOf(p)
    IN Go(p, [runner[p] EXCEPT
          !.pc = IF rest = <<>> THEN "report" ELSE "load",
          !.todo = rest,
          !.results = With(@, Item(p), result),
          !.result = NoResult,
          !.usage = IF same THEN @ ELSE NoUsage,
          !.files = IF rest = <<>> THEN Files ELSE <<>>])

Bill(p) == KeyOf(runner[p], Item(p))
Charge(p, cost) == bills' = [bills EXCEPT ![Bill(p)] = @ + cost] /\ UNCHANGED repeated

\* run_case reads the meter.
Begin(p) ==
    /\ Go(p, [runner[p] EXCEPT !.pc = "review", !.before = runner[p].usage, !.attempt = 0])
    /\ IF Bill(p) \in DOMAIN bills THEN repeated' = repeated \cup {Bill(p)} /\ UNCHANGED bills
       ELSE bills' = With(bills, Bill(p), 0) /\ UNCHANGED repeated

\* A checkpoint that cannot be read, or makes no sense, is as good as none.
Load(p) ==
    /\ At(p, "load")
    /\ \/ Reusable(p) /\ Done(p, checkpoints[Slot(p)].result) /\ UNCHANGED <<mishaps, ledger>>
       \/ Reusable(p) /\ Begin(p) /\ Mishap
       \/ ~Reusable(p) /\ Begin(p) /\ UNCHANGED mishaps
    /\ UNCHANGED <<world, checkpoints, reports, saved>>

-----------------------------------------------------------------------------
(* A review and what it costs. *)

\* Wrong: calls that were not answered are not looked at.
CompleteIfAnswered(u) == u.responses = u.metered

\* evaluation_usage: the status is that of all calls of this reviewer.
Complete(u) == u.calls = u.responses /\ u.responses = u.metered

\* usage_delta
Metered(p, u) ==
    LET b == runner[p].before
        known == Complete(u) /\ u.responses - b.responses = u.metered - b.metered
    IN IF RouteOf(p) \in Local THEN [status |-> "not_applicable", tokens |-> 0]
       ELSE [status |-> IF known THEN "available" ELSE "unavailable",
             tokens |-> IF known THEN u.tokens - b.tokens ELSE 0]

\* run_case: what a review that found something, or raised, comes to.
Result(p, u, success) ==
    [version |-> runner[p].dataset[CaseOf(p)],
     settings |-> Config(RouteOf(p), runner[p].settings),
     success |-> success,
     status |-> Metered(p, u).status, tokens |-> Metered(p, u).tokens]

Reviewed(p, u, success) ==
    Go(p, [runner[p] EXCEPT !.pc = "save", !.usage = u, !.before = NoUsage, !.attempt = 0,
                            !.result = Result(p, u, success)])

LocalReview(p) ==
    /\ At(p, "review") /\ RouteOf(p) \in Local
    /\ Reviewed(p, runner[p].usage, TRUE)
    /\ UNCHANGED <<world, checkpoints, reports, mishaps, saved, ledger>>

\* The agents that call no model finish without the one that does: its calls
\* are retried, handed over and asked for a revision.
Contained(p) == RouteOf(p) \in Teams

Again(p, u) ==
    /\ runner[p].attempt < (IF Contained(p) THEN MaxCalls - 1 ELSE MaxRepairs)
    /\ Go(p, [runner[p] EXCEPT !.usage = u, !.attempt = @ + 1])

\* _request_body raises: the provider may have worked all the same.
CallFails(p) ==
    LET u == [runner[p].usage EXCEPT !.calls = @ + 1]
    IN /\ At(p, "review") /\ RouteOf(p) \notin Local /\ Mishap
       /\ Reviewed(p, u, Contained(p)) \/ (Contained(p) /\ Again(p, u))
       /\ \E cost \in {0, 1} : Charge(p, cost)
       /\ UNCHANGED <<world, checkpoints, reports, saved>>

\* _record_usage: a response says what it cost, or does not.
Answered(u, metered) ==
    [calls |-> u.calls + 1, responses |-> u.responses + 1,
     metered |-> u.metered + (IF metered THEN 1 ELSE 0),
     tokens |-> u.tokens + (IF metered THEN 1 ELSE 0)]

\* _request_json: valid JSON, or something that is sent back for repair as long
\* as there are attempts left, or nothing at all.
CallAnswers(p, metered, valid) ==
    LET u == Answered(runner[p].usage, metered)
    IN /\ At(p, "review") /\ RouteOf(p) \notin Local
       /\ IF metered /\ valid THEN UNCHANGED mishaps ELSE Mishap
       /\ Reviewed(p, u, valid \/ Contained(p)) \/ ((~valid \/ Contained(p)) /\ Again(p, u))
       /\ Charge(p, 1)
       /\ UNCHANGED <<world, checkpoints, reports, saved>>

\* _save_checkpoint replaces the file at once.
Save(p) ==
    /\ At(p, "save")
    /\ checkpoints' = With(checkpoints, Slot(p), [key |-> Key(p), result |-> runner[p].result])
    /\ saved' = With(saved, Item(p), [key |-> Key(p), success |-> runner[p].result.success])
    /\ Done(p, runner[p].result)
    /\ UNCHANGED <<world, reports, mishaps, ledger>>

-----------------------------------------------------------------------------
(* The report. *)

Of(results, route) == {x \in DOMAIN results : x[1] = route}

\* summarize_resources: a total needs every case.
Totals(results, routes) ==
    [route \in {q \in routes : \A x \in Of(results, q) : results[x].status # "unavailable"} |->
        MapThenSumSet(LAMBDA x : results[x].tokens, Of(results, route))]

Report(p) ==
    [dataset |-> runner[p].dataset, settings |-> runner[p].settings, routes |-> runner[p].routes,
     results |-> runner[p].results, tokens |-> Totals(runner[p].results, runner[p].routes)]

\* write_reports: three files, one after the other.
WriteReport(p) ==
    /\ At(p, "report")
    /\ reports' = With(reports, Head(runner[p].files), Report(p))
    /\ Go(p, IF Len(runner[p].files) = 1 THEN Idle ELSE [runner[p] EXCEPT !.files = Tail(@)])
    /\ UNCHANGED <<world, checkpoints, mishaps, saved, ledger>>

-----------------------------------------------------------------------------
(* Mishaps and edits. *)

\* The process dies, or a write fails and main returns 2.  A call it was waiting
\* for may be charged.
Ends(p) ==
    /\ ~At(p, "idle") /\ Mishap
    /\ Go(p, Idle)
    /\ \/ UNCHANGED ledger
       \/ At(p, "review") /\ RouteOf(p) \notin Local /\ Charge(p, 1)
    /\ UNCHANGED <<world, checkpoints, reports, saved>>

\* After the last invocation nobody reads it.
Edit ==
    /\ runs < MaxRuns /\ edits < MaxEdits /\ edits' = edits + 1
    /\ \/ \E c \in Cases : content' = [content EXCEPT ![c] = @ + 1] /\ UNCHANGED settings
       \/ settings' = settings + 1 /\ UNCHANGED content
    /\ UNCHANGED <<checkpoints, reports, runner, runs, mishaps, saved, ledger>>

Next ==
    \/ \E p \in Runners :
          \/ \E x \in Invocations, resume, retry \in BOOLEAN : Start(p, x[1], x[2], resume, retry)
          \/ Load(p) \/ LocalReview(p) \/ CallFails(p)
          \/ \E metered, valid \in BOOLEAN : CallAnswers(p, metered, valid)
          \/ Save(p) \/ WriteReport(p) \/ Ends(p)
    \/ Edit

Spec == Init /\ [][Next]_vars

-----------------------------------------------------------------------------
(* Properties. *)

\* A report says what it is about: each of its results is of the very content
\* and settings it names, though most may come from the checkpoints of earlier
\* invocations, or of another process on another selection.
ReportTrue ==
    \A f \in DOMAIN reports :
        LET r == reports[f]
        IN /\ DOMAIN r.results = r.routes \X DOMAIN r.dataset
           /\ \A x \in DOMAIN r.results :
                 /\ r.results[x].version = r.dataset[x[2]]
                 /\ r.results[x].settings = Config(x[1], r.settings)

\* No cost is made up, and none is left out without a trace: what a report gives
\* for a case was charged for it, and a total it gives for a route is everything
\* the provider ever charged for its cases, whatever calls failed, were repaired
\* or were answered without usage, in this invocation or in those it resumes -
\* unless a review was begun again, after a death, as a retry or by another
\* process: what the first one cost is in no report.
CostReal ==
    \A f \in DOMAIN reports :
        LET r == reports[f]
        IN /\ \A x \in DOMAIN r.results :
                 r.results[x].status # "unavailable" => r.results[x].tokens <= bills[KeyOf(r, x)]
           /\ \A route \in DOMAIN r.tokens :
                 (\A x \in Of(r.results, route) : KeyOf(r, x) \notin repeated)
                 => r.tokens[route] =
                       MapThenSumSet(LAMBDA x : bills[KeyOf(r, x)], Of(r.results, route))

\* A resumed invocation does not pay again for a review whose result was saved
\* last for its route and case, unless it retries a failure or cannot read it.
PaidOnce ==
    [][\A p \in Runners :
          (At(p, "load") /\ runner'[p].pc = "review" /\ runner[p].resume /\ Item(p) \in DOMAIN saved
             /\ saved[Item(p)].key = Key(p) /\ UNCHANGED mishaps)
          => runner[p].retry /\ ~saved[Item(p)].success]_vars

=============================================================================
