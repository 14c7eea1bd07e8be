-------------------------- MODULE Benchmark_proofs --------------------------
(***************************************************************************)
(* For any numbers of processes, cases, routes, invocations, edits and     *)
(* mishaps: a report is about the content and settings it names, the costs *)
(* it gives are those that were charged, and a resumed invocation pays for *)
(* nothing it finds saved.                                                 *)
(***************************************************************************)
EXTENDS Benchmark, TLAPS

Items == Routes \X Cases
Data == UNION {[S -> Nat] : S \in SUBSET Cases}
Outcome == [version : Nat, settings : Nat, success : BOOLEAN,
            status : {"available", "unavailable", "not_applicable"}, tokens : Int]
Outcomes == UNION {[S -> Outcome] : S \in SUBSET Items}
Usage == [calls : Nat, responses : Nat, metered : Nat, tokens : Nat]
Keys == [dataset : Data, item : Items, settings : Nat]
Stages == {"idle", "load", "review", "save", "report"}

Process == [pc : Stages, resume : BOOLEAN, retry : BOOLEAN, dataset : Data, settings : Nat,
            routes : SUBSET Routes, todo : Seq(Items), results : Outcomes, result : Outcome, usage : Usage,
            before : Usage, attempt : Nat, files : Seq({"json", "markdown", "html"})]

\* A result is of the content and the settings it is filed under.
True(result, dataset, config, item) ==
    /\ result.version = dataset[item[2]]
    /\ result.settings = Config(item[1], config)

\* Results and what is left to do make up all cases by all routes.
Whole(x) ==
    /\ \A i \in x.routes \X DOMAIN x.dataset : i \in DOMAIN x.results \/ \E k \in DOMAIN x.todo : x.todo[k] = i
    /\ \A k \in DOMAIN x.todo : x.todo[k] \in x.routes \X DOMAIN x.dataset
    /\ \A i \in DOMAIN x.results : i \in x.routes \X DOMAIN x.dataset
    /\ \A i \in DOMAIN x.results : True(x.results[i], x.dataset, x.settings, i)

\* Where a process stands.
Placed(x) ==
    /\ x.pc \in {"load", "review", "save"} => x.todo # <<>>
    /\ x.pc = "report" => x.todo = <<>> /\ x.files # <<>>
    /\ x.pc = "save" => True(x.result, x.dataset, x.settings, Head(x.todo))

\* The checkpoint files, and that the last result saved is the one on file.
Filed ==
    /\ DOMAIN checkpoints \subseteq Items
    /\ DOMAIN saved = DOMAIN checkpoints
    /\ \A i \in DOMAIN checkpoints :
          /\ checkpoints[i] \in [key : Keys, result : Outcome]
          /\ checkpoints[i].key.item = i
          /\ checkpoints[i].result.version = checkpoints[i].key.dataset[i[2]]
          /\ checkpoints[i].result.settings = checkpoints[i].key.settings
          /\ saved[i].key = checkpoints[i].key
          /\ saved[i].success = checkpoints[i].result.success

Sure ==
    /\ content \in [Cases -> Nat] /\ settings \in Nat
    /\ runner \in [Runners -> Process]
    /\ \A p \in Runners : Whole(runner[p]) /\ Placed(runner[p])
    /\ Filed
    /\ ReportTrue

-----------------------------------------------------------------------------
(* What Start makes of a selection. *)

\* Of n columns, the row and the column of the i-th thing.
RowOf(i, n) == ((i - 1) \div n) + 1
ColumnOf(i, n) == ((i - 1) % n) + 1
\* Some place of m rows is in row a and column b.
Reached(n, m, a, b) == \E i \in 1..(n * m) : RowOf(i, n) = a /\ ColumnOf(i, n) = b

CasesOf(s) == {s[i] : i \in 1..Len(s)}
RoutesOf(order) == {order[i] : i \in DOMAIN order}
PlanOf(s, order) == [i \in 1..(Len(s) * Len(order)) |->
                       <<order[RowOf(i, Len(s))], s[ColumnOf(i, Len(s))]>>]

\* The routes are numbered, and there is one.
LEMMA RouteTypes ==
    ASSUME NEW order \in Orders
    PROVE  /\ Len(order) \in Nat \ {0} /\ DOMAIN order = 1..Len(order)
           /\ \A k \in 1..Len(order) : order[k] \in RoutesOf(order)
           /\ RoutesOf(order) \subseteq Routes
<1>r. PICK R : R = Routes
    BY Zenon
<1>1. order \in Seq(R) /\ order # <<>>
    BY <1>r, BenchmarkAssumption, Zenon
<1>2. Len(order) \in Nat \ {0} /\ DOMAIN order = 1..Len(order)
    BY <1>1, SMT
<1>. QED
    BY <1>2, Zenon DEF RoutesOf, Routes

\* The i-th of n * m things is one of n in one of m rows.
LEMMA Split ==
    ASSUME NEW n \in Nat \ {0}, NEW m \in Nat, NEW i \in 1..(n * m)
    PROVE  RowOf(i, n) \in 1..m /\ ColumnOf(i, n) \in 1..n
BY SMT DEF RowOf, ColumnOf

\* And each of them is some i-th.
LEMMA Join ==
    ASSUME NEW n \in Nat \ {0}, NEW m \in Nat, NEW a \in Nat, NEW b \in Nat, a \in 1..m, b \in 1..n
    PROVE  Reached(n, m, a, b)
<1>. DEFINE i == n * (a - 1) + b
<1>1. n * (a - 1) \in Nat /\ n * (a - 1) + n <= n * m
    <2>1. n * (a - 1) + n = n * a
        BY SMT
    <2>2. n * a <= n * m
        BY SMT
    <2>3. n * (a - 1) \in Nat
        BY SMT
    <2>. QED
        BY <2>1, <2>2, <2>3, SMT
<1>2. i \in 1..(n * m)
    BY <1>1, SMT
<1>3. (n * (a - 1) + (b - 1)) \div n = a - 1 /\ (n * (a - 1) + (b - 1)) % n = b - 1
    BY SMT
<1>4. i - 1 = n * (a - 1) + (b - 1)
    BY <1>1, SMT
<1>5. RowOf(i, n) = a /\ ColumnOf(i, n) = b
    <2>1. (i - 1) \div n = a - 1 /\ (i - 1) % n = b - 1
        BY <1>3, <1>4, Zenon
    <2>. HIDE DEF i
    <2>. QED
        BY <2>1, SMT DEF RowOf, ColumnOf
<1>. HIDE DEF i
<1>. QED
    BY <1>2, <1>5, Zenon DEF Reached

\* All cases by all routes, and nothing else.
LEMMA Plan ==
    ASSUME NEW s \in Seq(Cases), s # <<>>, NEW order \in Orders
    PROVE  /\ PlanOf(s, order) \in Seq(RoutesOf(order) \X CasesOf(s)) /\ PlanOf(s, order) # <<>>
           /\ CasesOf(s) \subseteq Cases
           /\ \A i \in RoutesOf(order) \X CasesOf(s) :
                 \E k \in DOMAIN PlanOf(s, order) : PlanOf(s, order)[k] = i
<1>n. PICK n : n = Len(s)
    BY Zenon
<1>m. PICK m : m = Len(order)
    BY Zenon
<1>. DEFINE todo == [i \in 1..(n * m) |-> <<order[RowOf(i, n)], s[ColumnOf(i, n)]>>]
            cases == {s[i] : i \in 1..n}
<1>r. PICK routes : routes = RoutesOf(order)
    BY Zenon
<1>1. n \in Nat \ {0} /\ m \in Nat \ {0} /\ DOMAIN s = 1..n /\ n * m \in Nat \ {0}
    <2>1. n \in Nat \ {0} /\ m \in Nat \ {0} /\ DOMAIN s = 1..n
        BY <1>n, <1>m, RouteTypes, SMT
    <2>. QED
        BY <2>1, SMT
<1>2. \A k \in 1..n : s[k] \in Cases /\ s[k] \in cases
    BY <1>1, SMT
<1>3. \A k \in 1..m : order[k] \in routes
    BY <1>m, <1>r, RouteTypes, Zenon
<1>4. ASSUME NEW i \in 1..(n * m) PROVE todo[i] \in routes \X cases
    <2>1. RowOf(i, n) \in 1..m /\ ColumnOf(i, n) \in 1..n
        BY <1>1, Split, Zenon
    <2>2. order[RowOf(i, n)] \in routes /\ s[ColumnOf(i, n)] \in cases
        BY <2>1, <1>2, <1>3, Zenon
    <2>. HIDE DEF cases
    <2>. QED
        BY <2>2, Zenon
<1>5. todo \in Seq(routes \X cases) /\ todo # <<>>
    <2>. HIDE DEF cases
    <2>. PICK N : N = n * m
        BY Zenon
    <2>1. todo \in [1..N -> routes \X cases] /\ N \in Nat \ {0}
        BY <1>1, <1>4, Zenon
    <2>. HIDE DEF todo
    <2>. PICK C : C = routes \X cases
        BY Zenon
    <2>2. todo \in [1..N -> C]
        BY <2>1, Zenon
    <2>3. todo \in Seq(C)
        BY <2>1, <2>2, SMT
    <2>4. todo # <<>>
        BY <2>1, <2>2, SMT
    <2>. QED
        BY <2>3, <2>4, Zenon
<1>6. ASSUME NEW route \in routes, NEW c \in cases PROVE \E k \in 1..(n * m) : todo[k] = <<route, c>>
    <2>1. PICK a \in 1..m : order[a] = route
        BY <1>m, <1>r, RouteTypes, Zenon DEF RoutesOf
    <2>2. PICK b \in 1..n : s[b] = c
        BY Zenon
    <2>3. PICK i \in 1..(n * m) : RowOf(i, n) = a /\ ColumnOf(i, n) = b
        <3>1. n \in Nat \ {0} /\ m \in Nat /\ a \in 1..m /\ b \in 1..n
            BY <1>1, Zenon
        <3>2. a \in Nat /\ b \in Nat
            BY <3>1, SMT
        <3>. HIDE DEF todo, cases
        <3>3. Reached(n, m, a, b)
            BY <3>1, <3>2, Join, Zenon
        <3>. QED
            BY <3>3, Zenon DEF Reached
    <2>. HIDE DEF cases
    <2>4. todo[i] = <<route, c>>
        BY <2>1, <2>2, <2>3, Zenon
    <2>. QED
        BY <2>4, Zenon
<1>7. cases \subseteq Cases
    BY <1>2, Zenon
<1>8. \A i \in routes \X cases : \E k \in DOMAIN todo : todo[k] = i
    <2>. HIDE DEF cases
    <2>1. DOMAIN todo = 1..(n * m)
        OBVIOUS
    <2>2. ASSUME NEW i \in routes \X cases PROVE \E k \in DOMAIN todo : todo[k] = i
        <3>1. PICK route \in routes, c \in cases : i = <<route, c>>
            OBVIOUS
        <3>2. PICK k \in 1..(n * m) : todo[k] = <<route, c>>
            BY <1>6, Zenon
        <3>. HIDE DEF todo
        <3>. QED
            BY <2>1, <3>1, <3>2, Zenon
    <2>. HIDE DEF todo
    <2>. QED
        BY <2>2, Zenon
<1>. QED
    <2>1. todo = PlanOf(s, order) /\ cases = CasesOf(s)
        BY <1>n, <1>m, Zenon DEF PlanOf, CasesOf
    <2>. HIDE DEF todo, cases
    <2>. QED
        BY <2>1, <1>5, <1>7, <1>8, <1>r, Zenon

-----------------------------------------------------------------------------
(* What a process may do. *)

\* One process moves, to where it may be.
LEMMA Carry ==
    ASSUME Sure, NEW p \in Runners, NEW next \in Process, Go(p, next), Whole(next), Placed(next),
           content' \in [Cases -> Nat], settings' \in Nat, Filed', ReportTrue'
    PROVE  Sure'
<1>1. runner' \in [Runners -> Process] /\ runner'[p] = next /\ \A q \in Runners : q # p => runner'[q] = runner[q]
    BY Zenon DEF Sure, Go
<1>2. ASSUME NEW q \in Runners PROVE Whole(runner'[q]) /\ Placed(runner'[q])
    BY <1>1, Zenon DEF Sure
<1>3. \A q \in Runners : (Whole(runner[q]) /\ Placed(runner[q]))'
    BY <1>2, Zenon DEF Whole, Placed
<1>. QED
    BY <1>1, <1>3, Zenon DEF Sure

\* The checkpoint files and the reports stay.
LEMMA Stays ==
    ASSUME Sure, NEW p \in Runners, NEW next \in Process, Go(p, next), Whole(next), Placed(next),
           UNCHANGED <<content, settings, checkpoints, reports, saved>>
    PROVE  Sure'
<1>1. Filed' /\ ReportTrue'
    BY Zenon DEF Sure, Filed, ReportTrue
<1>2. content' \in [Cases -> Nat] /\ settings' \in Nat
    BY Zenon DEF Sure
<1>. QED
    BY <1>1, <1>2, Carry, Zenon

\* An idle process has nothing to do and has done nothing.
LEMMA IdleGood == Idle \in Process /\ Whole(Idle) /\ Placed(Idle)
<1>1. NoUsage \in Usage /\ NoResult \in Outcome
    BY SMT DEF NoUsage, Usage, NoResult, Outcome
<1>2. <<>> \in Data
    <2>1. <<>> \in [{} -> Nat]
        BY SMT
    <2>. QED
        BY <2>1, Zenon DEF Data
<1>3. <<>> \in Outcomes
    <2>1. <<>> \in [{} -> Outcome]
        BY SMT
    <2>. QED
        BY <2>1, Zenon DEF Outcomes
<1>4. <<>> \in Seq(Items) /\ <<>> \in Seq({"json", "markdown", "html"})
    <2>1. \A S : <<>> \in Seq(S)
        BY SMT
    <2>. QED
        BY <2>1, Zenon
<1>5. "idle" \in Stages /\ 0 \in Nat
    BY SMT DEF Stages
<1>6. {} \in SUBSET Routes
    BY Zenon
<1>11. Idle \in Process
    BY <1>1, <1>2, <1>3, <1>4, <1>5, <1>6, Zenon DEF Idle, Process
<1>7. Idle.pc = "idle" /\ Idle.dataset = <<>> /\ Idle.todo = <<>> /\ Idle.results = <<>>
    BY Zenon DEF Idle
<1>8. DOMAIN <<>> = {}
    BY SMT
<1>9. Placed(Idle)
    BY <1>7, Zenon DEF Placed
<1>10. Whole(Idle)
    <2>1. DOMAIN Idle.dataset = {} /\ DOMAIN Idle.todo = {} /\ DOMAIN Idle.results = {}
        BY <1>7, <1>8, Zenon
    <2>2. \A i \in Idle.routes \X DOMAIN Idle.dataset : FALSE
        BY <2>1
    <2>. QED
        BY <2>1, <2>2, Zenon DEF Whole
<1>. QED
    BY <1>9, <1>10, <1>11, Zenon

\* The first of a sequence and the others.
LEMMA HeadTail ==
    ASSUME NEW S, NEW s \in Seq(S), s # <<>>
    PROVE  /\ Head(s) \in S /\ Tail(s) \in Seq(S)
           /\ \E k \in DOMAIN s : s[k] = Head(s)
           /\ \A k \in DOMAIN s : s[k] = Head(s) \/ \E j \in DOMAIN Tail(s) : Tail(s)[j] = s[k]
           /\ \A j \in DOMAIN Tail(s) : \E k \in DOMAIN s : s[k] = Tail(s)[j]
<1>1. Head(s) \in S /\ Tail(s) \in Seq(S) /\ s[1] = Head(s) /\ 1 \in DOMAIN s
    BY SMT
<1>2. ASSUME NEW k \in DOMAIN s, s[k] # Head(s) PROVE \E j \in DOMAIN Tail(s) : Tail(s)[j] = s[k]
    <2>1. k # 1
        BY <1>1, <1>2
    <2>2. k - 1 \in DOMAIN Tail(s) /\ Tail(s)[k - 1] = s[k]
        BY <2>1, SMT
    <2>. QED
        BY <2>2, Zenon
<1>3. ASSUME NEW j \in DOMAIN Tail(s) PROVE \E k \in DOMAIN s : s[k] = Tail(s)[j]
    <2>1. j + 1 \in DOMAIN s /\ Tail(s)[j] = s[j + 1]
        BY SMT
    <2>. QED
        BY <2>1, Zenon
<1>. QED
    BY <1>1, <1>2, <1>3, Zenon

\* Of two or more, some are left.
LEMMA LongTail ==
    ASSUME NEW S, NEW s \in Seq(S), s # <<>>, Len(s) # 1
    PROVE  Tail(s) # <<>>
<1>1. Len(s) \in Nat /\ Len(s) # 0
    BY SMT
<1>2. Len(Tail(s)) = Len(s) - 1
    BY <1>1, SMT
<1>3. Len(Tail(s)) # 0
    BY <1>1, <1>2, SMT
<1>4. Len(<<>>) = 0
    BY SMT
<1>. QED
    BY <1>3, <1>4, Zenon

\* The item a process is at.
LEMMA ItemTypes ==
    ASSUME NEW x \in Process, Whole(x), x.todo # <<>>
    PROVE  LET i == Head(x.todo)
           IN i \in Items /\ i \in x.routes \X DOMAIN x.dataset /\ i[1] \in Routes /\ i[2] \in DOMAIN x.dataset
              /\ x.dataset[i[2]] \in Nat
<1>. PICK i : i = Head(x.todo)
    BY Zenon
<1>. PICK s \in Seq(Items) : s = x.todo
    BY Zenon DEF Process
<1>1. i \in Items /\ \E k \in DOMAIN x.todo : x.todo[k] = i
    BY HeadTail, Zenon
<1>2. i \in x.routes \X DOMAIN x.dataset
    BY <1>1, Zenon DEF Whole
<1>3. i[1] \in Routes /\ i[2] \in DOMAIN x.dataset
    <2>1. i[1] \in x.routes /\ i[2] \in DOMAIN x.dataset
        BY <1>2
    <2>. QED
        BY <2>1, Zenon DEF Process
<1>4. PICK S \in SUBSET Cases : x.dataset \in [S -> Nat]
    BY Zenon DEF Process, Data
<1>5. x.dataset[i[2]] \in Nat
    BY <1>3, <1>4, Zenon
<1>. QED
    BY <1>1, <1>2, <1>3, <1>5, Zenon

\* A function of outcomes with one more.
LEMMA WithOutcome ==
    ASSUME NEW f \in Outcomes, NEW i \in Items, NEW result \in Outcome
    PROVE  /\ With(f, i, result) \in Outcomes
           /\ DOMAIN With(f, i, result) = DOMAIN f \cup {i}
           /\ With(f, i, result)[i] = result
           /\ \A j \in DOMAIN f : j # i => With(f, i, result)[j] = f[j]
<1>1. PICK S \in SUBSET Items : f \in [S -> Outcome]
    BY Zenon DEF Outcomes
<1>2. DOMAIN f = S
    BY <1>1, Zenon
<1>3. With(f, i, result) \in [S \cup {i} -> Outcome]
    BY <1>1, <1>2, Zenon DEF With
<1>4. S \cup {i} \in SUBSET Items
    BY Zenon
<1>5. With(f, i, result) \in Outcomes
    BY <1>3, <1>4, Zenon DEF Outcomes
<1>. QED
    BY <1>2, <1>3, <1>5, Zenon DEF With

\* A case is done with a result that is its own.
LEMMA DoneGood ==
    ASSUME NEW p \in Runners, NEW x \in Process, Whole(x), x.todo # <<>>, runner[p] = x,
           NEW result \in Outcome, True(result, x.dataset, x.settings, Head(x.todo)), Done(p, result)
    PROVE  \E next \in Process : Go(p, next) /\ Whole(next) /\ Placed(next)
<1>i. PICK i : i = Head(x.todo)
    BY Zenon
<1>t. PICK rest : rest = Tail(x.todo)
    BY Zenon
<1>s. PICK res : res = With(x.results, i, result)
    BY Zenon
<1>u. PICK u : u \in Usage /\ u = (IF rest # <<>> /\ Head(rest)[1] = i[1] THEN x.usage ELSE NoUsage)
    <2>1. NoUsage \in Usage
        BY SMT DEF NoUsage, Usage
    <2>. QED
        BY <2>1, Zenon DEF Process
<1>f. PICK files : files = (IF rest = <<>> THEN Files ELSE <<>>)
    BY Zenon
<1>c. PICK pc : pc = (IF rest = <<>> THEN "report" ELSE "load")
    BY Zenon
<1>. DEFINE next == [x EXCEPT !.pc = pc, !.todo = rest, !.results = res, !.result = NoResult,
                              !.usage = u, !.files = files]
<1>1. Go(p, next)
    BY <1>i, <1>t, <1>s, <1>u, <1>f, <1>c, Zenon DEF Done, Item, RouteOf
<1>2. x.todo \in Seq(Items) /\ x.results \in Outcomes
    BY Zenon DEF Process
<1>3. rest \in Seq(Items) /\ i \in Items
    <2>1. Tail(x.todo) \in Seq(Items) /\ Head(x.todo) \in Items
        BY <1>2, HeadTail, Zenon
    <2>. QED
        BY <2>1, <1>i, <1>t, Zenon
<1>4. /\ res \in Outcomes /\ DOMAIN res = DOMAIN x.results \cup {i} /\ res[i] = result
      /\ \A j \in DOMAIN x.results : j # i => res[j] = x.results[j]
    <2>1. PICK f \in Outcomes : f = x.results
        BY <1>2, Zenon
    <2>2. res = With(f, i, result)
        BY <1>s, <2>1, Zenon
    <2>3. /\ With(f, i, result) \in Outcomes
          /\ DOMAIN With(f, i, result) = DOMAIN f \cup {i}
          /\ With(f, i, result)[i] = result
          /\ \A j \in DOMAIN f : j # i => With(f, i, result)[j] = f[j]
        BY <1>3, WithOutcome, Zenon
    <2>4. res \in Outcomes /\ DOMAIN res = DOMAIN f \cup {i} /\ res[i] = result
        BY <2>2, <2>3, Zenon
    <2>5. \A j \in DOMAIN f : j # i => res[j] = f[j]
        BY <2>2, <2>3, Zenon
    <2>. QED
        BY <2>1, <2>4, <2>5, Zenon
<1>5. files \in Seq({"json", "markdown", "html"}) /\ (rest = <<>> => files # <<>>)
    <2>. DEFINE N == {"json", "markdown", "html"}
    <2>1. Files \in Seq(N)
        BY SMT DEF Files
    <2>2. Files # <<>>
        BY SMT DEF Files
    <2>3. <<>> \in Seq(N)
        BY SMT
    <2>. HIDE DEF N
    <2>4. files \in Seq(N) /\ (rest = <<>> => files # <<>>)
        BY <1>f, <2>1, <2>2, <2>3, Zenon
    <2>. QED
        BY <2>4, Zenon DEF N
<1>6. pc \in Stages /\ pc \in {"load", "report"} /\ (pc = "report" <=> rest = <<>>)
    BY <1>c, Zenon DEF Stages
<1>7. NoResult \in Outcome
    BY SMT DEF NoResult, Outcome
<1>8. next \in Process
    BY <1>3, <1>4, <1>5, <1>6, <1>7, <1>u, Zenon DEF Process
<1>9. /\ next.pc = pc /\ next.todo = rest /\ next.results = res /\ next.files = files
      /\ next.dataset = x.dataset /\ next.settings = x.settings /\ next.routes = x.routes
    BY Zenon DEF Process
<1>. HIDE DEF next
<1>10. Placed(next)
    BY <1>5, <1>6, <1>9, Zenon DEF Placed
<1>11. /\ \A k \in DOMAIN x.todo : x.todo[k] = i \/ \E j \in DOMAIN rest : rest[j] = x.todo[k]
       /\ \A j \in DOMAIN rest : \E k \in DOMAIN x.todo : x.todo[k] = rest[j]
    BY <1>2, <1>i, <1>t, HeadTail, Zenon
<1>12. i \in x.routes \X DOMAIN x.dataset
    BY <1>i, ItemTypes, Zenon
<1>13. ASSUME NEW j \in DOMAIN res PROVE j \in x.routes \X DOMAIN x.dataset /\ True(res[j], x.dataset, x.settings, j)
    BY <1>4, <1>12, <1>i, Zenon DEF Whole
<1>14. Whole(next)
    <2>1. ASSUME NEW j \in x.routes \X DOMAIN x.dataset, j \notin DOMAIN res
          PROVE  \E k \in DOMAIN rest : rest[k] = j
        <3>1. j \notin DOMAIN x.results /\ j # i
            BY <1>4, <2>1, Zenon
        <3>2. PICK k \in DOMAIN x.todo : x.todo[k] = j
            BY <2>1, <3>1, Zenon DEF Whole
        <3>. QED
            BY <1>11, <3>1, <3>2, Zenon
    <2>2. ASSUME NEW k \in DOMAIN rest PROVE rest[k] \in x.routes \X DOMAIN x.dataset
        BY <1>11, Zenon DEF Whole
    <2>. QED
        BY <1>9, <1>13, <2>1, <2>2, Zenon DEF Whole
<1>. QED
    BY <1>1, <1>8, <1>10, <1>14, Zenon

\* What a checkpoint holds is what a review would have been asked for.
LEMMA LoadSure ==
    ASSUME Sure, NEW p \in Runners, Load(p)
    PROVE  Sure'
<1>x. PICK x \in Process : x = runner[p]
    BY Zenon DEF Sure
<1>1. Whole(x) /\ x.todo # <<>> /\ x.pc = "load"
    BY <1>x, Zenon DEF Sure, Placed, Load, At
<1>2. UNCHANGED <<content, settings, checkpoints, reports, saved>>
    BY Zenon DEF Load, world
<1>3. CASE Reusable(p) /\ Done(p, checkpoints[Slot(p)].result)
    <2>i. PICK i : i = Head(x.todo)
        BY Zenon
    <2>1. i = Slot(p) /\ i = Item(p) /\ CaseOf(p) = i[2] /\ RouteOf(p) = i[1]
        BY <1>x, <2>i, Zenon DEF Slot, Item, CaseOf, RouteOf
    <2>2. i \in DOMAIN checkpoints /\ checkpoints[i].key = Key(p)
        BY <1>3, <2>1, Zenon DEF Reusable
    <2>3. PICK file \in [key : Keys, result : Outcome] : file = checkpoints[i]
        BY <2>2, Zenon DEF Sure, Filed
    <2>4. file.result.version = file.key.dataset[i[2]] /\ file.result.settings = file.key.settings
        BY <2>2, <2>3, Zenon DEF Sure, Filed
    <2>5. file.key.dataset = x.dataset /\ file.key.settings = Config(i[1], x.settings)
        <3>1. Key(p) = [dataset |-> x.dataset, item |-> i, settings |-> Config(i[1], x.settings)]
            BY <1>x, <2>1, Zenon DEF Key, KeyOf
        <3>2. file.key = [dataset |-> x.dataset, item |-> i, settings |-> Config(i[1], x.settings)]
            BY <2>2, <2>3, <3>1, Zenon
        <3>. QED
            BY <3>2, SMT
    <2>6. file.result \in Outcome /\ True(file.result, x.dataset, x.settings, Head(x.todo))
        BY <2>3, <2>4, <2>5, <2>i, Zenon DEF True
    <2>7. PICK result \in Outcome : result = file.result
        BY <2>6, Zenon
    <2>8. Done(p, result) /\ True(result, x.dataset, x.settings, Head(x.todo)) /\ runner[p] = x
        BY <1>x, <1>3, <2>1, <2>3, <2>6, <2>7, Zenon
    <2>9. PICK next \in Process : Go(p, next) /\ Whole(next) /\ Placed(next)
        BY <1>1, <2>8, DoneGood, Zenon
    <2>. QED
        BY <1>2, <2>9, Stays, Zenon
<1>4. CASE Go(p, [runner[p] EXCEPT !.pc = "review", !.before = runner[p].usage, !.attempt = 0])
    <2>. DEFINE next == [x EXCEPT !.pc = "review", !.before = x.usage, !.attempt = 0]
    <2>1. Go(p, next)
        BY <1>x, <1>4, Zenon
    <2>2. next \in Process
        <3>1. "review" \in Stages /\ 0 \in Nat
            BY SMT DEF Stages
        <3>. QED
            BY <3>1, Zenon DEF Process
    <2>3. /\ next.pc = "review" /\ next.todo = x.todo /\ next.results = x.results
          /\ next.dataset = x.dataset /\ next.settings = x.settings /\ next.routes = x.routes
        BY Zenon DEF Process
    <2>. HIDE DEF next
    <2>4. Whole(next) /\ Placed(next)
        BY <1>1, <2>3, Zenon DEF Whole, Placed
    <2>. QED
        BY <1>2, <2>1, <2>2, <2>4, Stays, Zenon
<1>. QED
    BY <1>3, <1>4, Zenon DEF Load, Begin

\* A review is of the content and settings the process read when it began.
LEMMA ReviewedGood ==
    ASSUME Sure, NEW p \in Runners, NEW u \in Usage, NEW success \in BOOLEAN,
           At(p, "review"), Reviewed(p, u, success)
    PROVE  \E next \in Process : Go(p, next) /\ Whole(next) /\ Placed(next)
<1>x. PICK x \in Process : x = runner[p]
    BY Zenon DEF Sure
<1>1. Whole(x) /\ x.todo # <<>>
    BY <1>x, Zenon DEF Sure, Placed, At
<1>i. PICK i : i = Head(x.todo)
    BY Zenon
<1>2. CaseOf(p) = i[2] /\ RouteOf(p) = i[1]
    BY <1>x, <1>i, Zenon DEF Item, CaseOf, RouteOf
<1>3. x.dataset[i[2]] \in Nat
    BY <1>1, <1>i, ItemTypes, Zenon
<1>4. Config(i[1], x.settings) \in Nat
    BY SMT DEF Config, Process
<1>5. Metered(p, u).status \in {"available", "unavailable", "not_applicable"} /\ Metered(p, u).tokens \in Int
    <2>1. x.before \in Usage
        BY Zenon DEF Process
    <2>2. u.tokens - x.before.tokens \in Int
        BY <2>1, SMT DEF Usage
    <2>. QED
        BY <1>x, <2>2, SMT DEF Metered
<1>r. PICK result : result = Result(p, u, success)
    BY Zenon
<1>7. /\ result \in Outcome
      /\ result.version = x.dataset[i[2]] /\ result.settings = Config(i[1], x.settings)
    BY <1>x, <1>r, <1>2, <1>3, <1>4, <1>5, Zenon DEF Result, Outcome
<1>8. True(result, x.dataset, x.settings, Head(x.todo))
    BY <1>7, <1>i, Zenon DEF True
<1>. DEFINE next == [x EXCEPT !.pc = "save", !.usage = u, !.before = NoUsage, !.attempt = 0, !.result = result]
<1>9. Go(p, next)
    BY <1>x, <1>r, Zenon DEF Reviewed
<1>10. NoUsage \in Usage
    BY SMT DEF NoUsage, Usage
<1>11. next \in Process
    <2>1. "save" \in Stages /\ 0 \in Nat
        BY SMT DEF Stages
    <2>. QED
        BY <1>7, <1>10, <2>1, Zenon DEF Process
<1>12. /\ next.pc = "save" /\ next.todo = x.todo /\ next.results = x.results /\ next.result = result
       /\ next.dataset = x.dataset /\ next.settings = x.settings /\ next.routes = x.routes
    BY Zenon DEF Process
<1>. HIDE DEF next
<1>13. Whole(next) /\ Placed(next)
    BY <1>1, <1>8, <1>12, Zenon DEF Whole, Placed
<1>. QED
    BY <1>9, <1>11, <1>13, Zenon

\* However the model answers.
LEMMA ReviewSure ==
    ASSUME Sure, NEW p \in Runners,
           LocalReview(p) \/ CallFails(p) \/ \E metered, valid \in BOOLEAN : CallAnswers(p, metered, valid)
    PROVE  Sure'
<1>x. PICK x \in Process : x = runner[p]
    BY Zenon DEF Sure
<1>1. Whole(x) /\ x.todo # <<>> /\ x.usage \in Usage /\ At(p, "review") /\ x.attempt \in Nat
    BY <1>x, Zenon DEF Sure, Placed, At, LocalReview, CallFails, CallAnswers, Process
<1>2. UNCHANGED <<content, settings, checkpoints, reports, saved>>
    BY Zenon DEF LocalReview, CallFails, CallAnswers, world
<1>3. ASSUME NEW u \in Usage, NEW success \in BOOLEAN, Reviewed(p, u, success) PROVE Sure'
    <2>1. PICK next \in Process : Go(p, next) /\ Whole(next) /\ Placed(next)
        BY <1>1, <1>3, ReviewedGood, Zenon
    <2>. QED
        BY <1>2, <2>1, Stays, Zenon
<1>4. CASE LocalReview(p)
    BY <1>x, <1>1, <1>3, <1>4, Zenon DEF LocalReview
<1>7. ASSUME NEW u \in Usage, Again(p, u) PROVE Sure'
    <2>. DEFINE next == [x EXCEPT !.usage = u, !.attempt = x.attempt + 1]
    <2>3. Go(p, next)
        BY <1>x, <1>7, Zenon DEF Again
    <2>4. next \in Process
        <3>1. x.attempt + 1 \in Nat
            BY <1>1, SMT
        <3>. QED
            BY <1>7, <3>1, Zenon DEF Process
    <2>5. /\ next.pc = x.pc /\ next.todo = x.todo /\ next.results = x.results /\ next.result = x.result
          /\ next.dataset = x.dataset /\ next.settings = x.settings /\ next.routes = x.routes /\ next.files = x.files
        BY Zenon DEF Process
    <2>. HIDE DEF next
    <2>6. Whole(next) /\ Placed(next)
        <3>1. Whole(x) /\ Placed(x)
            BY <1>x, Zenon DEF Sure
        <3>2. Whole(next)
            BY <2>5, <3>1, Zenon DEF Whole
        <3>3. Placed(next)
            BY <2>5, <3>1, Zenon DEF Placed
        <3>. QED
            BY <3>2, <3>3, Zenon
    <2>. QED
        BY <1>2, <2>3, <2>4, <2>6, Stays, Zenon
<1>5. CASE CallFails(p)
    <2>1. PICK u : u = [x.usage EXCEPT !.calls = @ + 1]
        BY Zenon
    <2>2. PICK success : success = Contained(p)
        BY Zenon
    <2>3. Reviewed(p, u, success) \/ Again(p, u)
        BY <1>x, <1>5, <2>1, <2>2, Zenon DEF CallFails
    <2>4. u \in Usage
        <3>1. x.usage.calls + 1 \in Nat
            BY <1>1, SMT DEF Usage
        <3>. QED
            BY <1>1, <2>1, <3>1, Zenon DEF Usage
    <2>5. success \in BOOLEAN
        BY <2>2, SMT DEF Contained
    <2>. QED
        BY <1>3, <1>7, <2>3, <2>4, <2>5, Zenon
<1>6. ASSUME NEW metered \in BOOLEAN, NEW valid \in BOOLEAN, CallAnswers(p, metered, valid) PROVE Sure'
    <2>1. PICK u : u = Answered(x.usage, metered)
        BY Zenon
    <2>2. u \in Usage
        <3>y. PICK y \in Usage : y = x.usage
            BY <1>1, Zenon
        <3>k. PICK k \in Nat : k = (IF metered THEN 1 ELSE 0)
            BY SMT
        <3>1. /\ y.calls \in Nat /\ y.responses \in Nat
              /\ y.metered \in Nat /\ y.tokens \in Nat
            BY Zenon DEF Usage
        <3>2. /\ y.calls + 1 \in Nat /\ y.responses + 1 \in Nat
              /\ y.metered + k \in Nat /\ y.tokens + k \in Nat
            BY <3>1, SMT
        <3>3. u = [calls |-> y.calls + 1, responses |-> y.responses + 1,
                   metered |-> y.metered + k, tokens |-> y.tokens + k]
            BY <2>1, <3>y, <3>k, Zenon DEF Answered
        <3>. QED
            BY <3>2, <3>3, Zenon DEF Usage
    <2>3. PICK success : success = (valid \/ Contained(p))
        BY Zenon
    <2>4. Reviewed(p, u, success) \/ Again(p, u)
        BY <1>x, <1>6, <2>1, <2>3, Zenon DEF CallAnswers
    <2>5. success \in BOOLEAN
        BY <2>3, Zenon DEF Contained
    <2>. QED
        BY <1>3, <1>7, <2>2, <2>4, <2>5, Zenon
<1>. QED
    BY <1>4, <1>5, <1>6, Zenon

\* What is saved is filed under what it is a result of.
LEMMA SaveSure ==
    ASSUME Sure, NEW p \in Runners, Save(p)
    PROVE  Sure'
<1>x. PICK x \in Process : x = runner[p]
    BY Zenon DEF Sure
<1>1. Whole(x) /\ x.todo # <<>> /\ True(x.result, x.dataset, x.settings, Head(x.todo))
    BY <1>x, Zenon DEF Sure, Placed, Save, At
<1>i. PICK i \in Items : i = Head(x.todo)
    BY <1>1, ItemTypes, Zenon
<1>2. Slot(p) = i /\ Item(p) = i /\ RouteOf(p) = i[1]
    BY <1>x, <1>i, Zenon DEF Slot, Item, RouteOf
<1>k. PICK key : key = Key(p)
    BY Zenon
<1>3. key = [dataset |-> x.dataset, item |-> i, settings |-> Config(i[1], x.settings)]
    BY <1>x, <1>k, <1>2, Zenon DEF Key, KeyOf
<1>4. Config(i[1], x.settings) \in Nat
    BY SMT DEF Config, Process
<1>5. key \in Keys /\ key.item = i /\ key.dataset = x.dataset /\ key.settings = Config(i[1], x.settings)
    BY <1>3, <1>4, Zenon DEF Keys, Process
<1>r. PICK result \in Outcome : result = x.result
    BY Zenon DEF Process
<1>6. result.version = key.dataset[i[2]] /\ result.settings = key.settings
    BY <1>1, <1>5, <1>i, <1>r, Zenon DEF True
<1>7. /\ checkpoints' = With(checkpoints, i, [key |-> key, result |-> result])
      /\ saved' = With(saved, i, [key |-> key, success |-> result.success])
    BY <1>x, <1>2, <1>k, <1>r, Zenon DEF Save
<1>8. /\ DOMAIN checkpoints' = DOMAIN checkpoints \cup {i} /\ DOMAIN saved' = DOMAIN saved \cup {i}
      /\ checkpoints'[i] = [key |-> key, result |-> result] /\ saved'[i] = [key |-> key, success |-> result.success]
      /\ \A j \in DOMAIN checkpoints : j # i => checkpoints'[j] = checkpoints[j]
      /\ \A j \in DOMAIN saved : j # i => saved'[j] = saved[j]
    BY <1>7, Zenon DEF With
<1>9. Filed'
    <2>1. DOMAIN checkpoints' \subseteq Items /\ DOMAIN saved' = DOMAIN checkpoints'
        BY <1>8, Zenon DEF Sure, Filed
    <2>2. ASSUME NEW j \in DOMAIN checkpoints'
          PROVE  /\ checkpoints'[j] \in [key : Keys, result : Outcome]
                 /\ checkpoints'[j].key.item = j
                 /\ checkpoints'[j].result.version = checkpoints'[j].key.dataset[j[2]]
                 /\ checkpoints'[j].result.settings = checkpoints'[j].key.settings
                 /\ saved'[j].key = checkpoints'[j].key
                 /\ saved'[j].success = checkpoints'[j].result.success
        <3>1. CASE j = i
            <4>f. PICK file : file = [key |-> key, result |-> result]
                BY Zenon
            <4>m. PICK mark : mark = [key |-> key, success |-> result.success]
                BY Zenon
            <4>0. checkpoints'[j] = file /\ saved'[j] = mark
                BY <1>8, <3>1, <4>f, <4>m, Zenon
            <4>1. checkpoints'[j].key = key /\ checkpoints'[j].result = result
                BY <4>0, <4>f, SMT
            <4>2. saved'[j].key = key /\ saved'[j].success = result.success
                BY <4>0, <4>m, SMT
            <4>3. checkpoints'[j] \in [key : Keys, result : Outcome]
                BY <1>5, <4>0, <4>f, SMT
            <4>. QED
                BY <1>5, <1>6, <3>1, <4>1, <4>2, <4>3, Zenon
        <3>2. CASE j # i
            <4>1. j \in DOMAIN checkpoints /\ j \in DOMAIN saved
                BY <1>8, <3>2, Zenon DEF Sure, Filed
            <4>2. checkpoints'[j] = checkpoints[j] /\ saved'[j] = saved[j]
                BY <1>8, <3>2, <4>1, Zenon
            <4>3. /\ checkpoints[j] \in [key : Keys, result : Outcome]
                  /\ checkpoints[j].key.item = j
                  /\ checkpoints[j].result.version = checkpoints[j].key.dataset[j[2]]
                  /\ checkpoints[j].result.settings = checkpoints[j].key.settings
                  /\ saved[j].key = checkpoints[j].key
                  /\ saved[j].success = checkpoints[j].result.success
                BY <4>1, Zenon DEF Sure, Filed
            <4>. QED
                BY <4>2, <4>3, Zenon
        <3>. QED
            BY <3>1, <3>2, Zenon
    <2>. QED
        BY <2>1, <2>2, Zenon DEF Filed
<1>10. PICK next \in Process : Go(p, next) /\ Whole(next) /\ Placed(next)
    <2>1. Done(p, result) /\ True(result, x.dataset, x.settings, Head(x.todo)) /\ runner[p] = x
        BY <1>x, <1>1, <1>r, Zenon DEF Save
    <2>. QED
        BY <1>1, <2>1, DoneGood, Zenon
<1>11. ReportTrue'
    BY Zenon DEF Sure, Save, ReportTrue
<1>12. content' \in [Cases -> Nat] /\ settings' \in Nat
    BY Zenon DEF Sure, Save, world
<1>. QED
    BY <1>9, <1>10, <1>11, <1>12, Carry, Zenon

\* A report is written when nothing is left to do.
LEMMA WriteReportSure ==
    ASSUME Sure, NEW p \in Runners, WriteReport(p)
    PROVE  Sure'
<1>x. PICK x \in Process : x = runner[p]
    BY Zenon DEF Sure
<1>1. Whole(x) /\ x.todo = <<>> /\ x.files # <<>> /\ x.pc = "report"
    BY <1>x, Zenon DEF Sure, Placed, WriteReport, At
<1>2. DOMAIN x.results = x.routes \X DOMAIN x.dataset
    <2>1. DOMAIN x.todo = {}
        BY <1>1, SMT
    <2>2. \A i \in x.routes \X DOMAIN x.dataset : i \in DOMAIN x.results
        BY <1>1, <2>1, Zenon DEF Whole
    <2>3. \A i \in DOMAIN x.results : i \in x.routes \X DOMAIN x.dataset
        BY <1>1, Zenon DEF Whole
    <2>. QED
        BY <2>2, <2>3, Zenon
<1>3. \A i \in DOMAIN x.results : True(x.results[i], x.dataset, x.settings, i)
    BY <1>1, Zenon DEF Whole
<1>f. PICK f : f = Head(x.files)
    BY Zenon
<1>t. PICK tokens : tokens = Totals(x.results, x.routes)
    BY Zenon
<1>4. reports' = With(reports, f, [dataset |-> x.dataset, settings |-> x.settings, routes |-> x.routes,
                                   results |-> x.results, tokens |-> tokens])
    BY <1>x, <1>f, <1>t, Zenon DEF WriteReport, Report
<1>5. ReportTrue'
    <2>1. ASSUME NEW g \in DOMAIN reports'
          PROVE  /\ DOMAIN reports'[g].results = reports'[g].routes \X DOMAIN reports'[g].dataset
                 /\ \A i \in DOMAIN reports'[g].results :
                       /\ reports'[g].results[i].version = reports'[g].dataset[i[2]]
                       /\ reports'[g].results[i].settings = Config(i[1], reports'[g].settings)
        <3>1. CASE g = f
            <4>r. PICK report : report = [dataset |-> x.dataset, settings |-> x.settings, routes |-> x.routes,
                                          results |-> x.results, tokens |-> tokens]
                BY Zenon
            <4>0. reports'[f] = report
                BY <1>4, <4>r, Zenon DEF With
            <4>1. /\ report.dataset = x.dataset /\ report.settings = x.settings
                  /\ report.routes = x.routes /\ report.results = x.results
                BY <4>r, Zenon
            <4>2. /\ reports'[g].dataset = x.dataset /\ reports'[g].settings = x.settings
                  /\ reports'[g].routes = x.routes /\ reports'[g].results = x.results
                BY <3>1, <4>0, <4>1, Zenon
            <4>. QED
                BY <1>2, <1>3, <4>2, Zenon DEF True
        <3>2. CASE g # f
            <4>1. g \in DOMAIN reports /\ reports'[g] = reports[g]
                BY <1>4, <3>2, Zenon DEF With
            <4>. QED
                BY <4>1, Zenon DEF Sure, ReportTrue
        <3>. QED
            BY <3>1, <3>2, Zenon
    <2>. QED
        BY <2>1, Zenon DEF ReportTrue
<1>6. Filed' /\ content' \in [Cases -> Nat] /\ settings' \in Nat
    BY Zenon DEF Sure, WriteReport, world, Filed
<1>7. CASE Go(p, Idle)
    BY <1>5, <1>6, <1>7, IdleGood, Carry, Zenon
<1>8. CASE Len(x.files) # 1 /\ Go(p, [x EXCEPT !.files = Tail(x.files)])
    <2>1. Tail(x.files) \in Seq({"json", "markdown", "html"}) /\ Tail(x.files) # <<>>
        <3>. PICK N : N = {"json", "markdown", "html"}
            BY Zenon
        <3>1. x.files \in Seq(N)
            BY Zenon DEF Process
        <3>2. PICK files \in Seq(N) : files = x.files /\ files # <<>> /\ Len(files) # 1
            BY <1>1, <1>8, <3>1, Zenon
        <3>3. Tail(files) \in Seq(N)
            BY <3>2, SMT
        <3>4. Tail(files) # <<>>
            BY <3>2, LongTail, Zenon
        <3>. QED
            BY <3>2, <3>3, <3>4, Zenon
    <2>. PICK rest : rest = Tail(x.files)
        BY Zenon
    <2>. DEFINE next == [x EXCEPT !.files = rest]
    <2>2. next \in Process
        BY <2>1, Zenon DEF Process
    <2>3. /\ next.pc = x.pc /\ next.todo = x.todo /\ next.results = x.results /\ next.files = rest
          /\ next.dataset = x.dataset /\ next.settings = x.settings /\ next.routes = x.routes
        BY Zenon DEF Process
    <2>4. Go(p, next)
        BY <1>8, Zenon
    <2>. HIDE DEF next
    <2>5. Whole(next)
        BY <1>1, <2>3, Zenon DEF Whole
    <2>6. Placed(next)
        BY <1>1, <2>1, <2>3, Zenon DEF Placed
    <2>. QED
        BY <1>5, <1>6, <2>2, <2>4, <2>5, <2>6, Carry, Zenon
<1>9. Go(p, IF Len(x.files) = 1 THEN Idle ELSE [x EXCEPT !.files = Tail(x.files)])
    BY <1>x, Zenon DEF WriteReport
<1>. QED
    BY <1>7, <1>8, <1>9, Zenon

\* A process begins with all it selected before it.
LEMMA StartSure ==
    ASSUME Sure, NEW p \in Runners, NEW selection \in Selections, NEW order \in Orders,
           NEW resume \in BOOLEAN, NEW retry \in BOOLEAN, Start(p, selection, order, resume, retry)
    PROVE  Sure'
<1>1. selection \in Seq(Cases) /\ selection # <<>>
    BY BenchmarkAssumption, Zenon
<1>2. /\ PlanOf(selection, order) \in Seq(RoutesOf(order) \X CasesOf(selection)) /\ PlanOf(selection, order) # <<>>
      /\ CasesOf(selection) \subseteq Cases
      /\ \A i \in RoutesOf(order) \X CasesOf(selection) : \E k \in DOMAIN PlanOf(selection, order) : PlanOf(selection, order)[k] = i
    BY <1>1, Plan, Zenon
<1>s. PICK s : s = settings
    BY Zenon
<1>c. PICK cases : cases = CasesOf(selection)
    BY Zenon
<1>r. PICK routes : routes = RoutesOf(order)
    BY Zenon
<1>0. routes \in SUBSET Routes
    BY <1>r, RouteTypes, Zenon
<1>t. PICK todo : todo = PlanOf(selection, order)
    BY Zenon
<1>d. PICK dataset : dataset = [c \in cases |-> content[c]]
    BY Zenon
<1>3. dataset \in Data /\ DOMAIN dataset = cases /\ s \in Nat
    <2>1. cases \in SUBSET Cases
        BY <1>2, <1>c, Zenon
    <2>2. dataset \in [cases -> Nat]
        BY <2>1, <1>d, Zenon DEF Sure
    <2>. QED
        BY <1>s, <2>1, <2>2, Zenon DEF Data, Sure
<1>4. /\ todo \in Seq(routes \X cases) /\ todo # <<>>
      /\ \A i \in routes \X cases : \E k \in DOMAIN todo : todo[k] = i
    BY <1>2, <1>c, <1>r, <1>t, Zenon
<1>5. \A k \in DOMAIN todo : todo[k] \in routes \X cases
    <2>. PICK C : C = routes \X cases
        BY Zenon
    <2>1. todo \in Seq(C)
        BY <1>4, Zenon
    <2>2. \A k \in DOMAIN todo : todo[k] \in C
        BY <2>1, SMT
    <2>. QED
        BY <2>2, Zenon
<1>6. todo \in Seq(Items)
    <2>. PICK C : C = routes \X cases
        BY Zenon
    <2>1. C \subseteq Items
        BY <1>0, <1>2, <1>c DEF Items
    <2>2. todo \in Seq(C)
        BY <1>4, Zenon
    <2>. PICK I : I = Items
        BY Zenon
    <2>3. C \subseteq I
        BY <2>1, Zenon
    <2>4. todo \in Seq(I)
        BY <2>2, <2>3, SMT
    <2>. QED
        BY <2>4, Zenon
<1>. DEFINE next == [Idle EXCEPT !.pc = "load", !.resume = resume, !.retry = retry, !.settings = s,
                                 !.dataset = dataset, !.routes = routes, !.todo = todo]
<1>7. Go(p, next)
    BY <1>s, <1>c, <1>r, <1>t, <1>d, Zenon DEF Start, PlanOf, RoutesOf, CasesOf, RowOf, ColumnOf
<1>8. /\ next.pc = "load" /\ next.todo = todo /\ next.results = <<>>
      /\ next.dataset = dataset /\ next.settings = s /\ next.routes = routes
    BY Zenon DEF Idle
<1>9. next \in Process
    <2>1. "load" \in Stages
        BY Zenon DEF Stages
    <2>2. Idle \in Process
        BY IdleGood, Zenon
    <2>. HIDE DEF Idle
    <2>. QED
        BY <1>0, <1>3, <1>6, <2>1, <2>2, Zenon DEF Process
<1>. HIDE DEF next
<1>10. Whole(next) /\ Placed(next)
    <2>1. DOMAIN next.results = {}
        BY <1>8, SMT
    <2>2. Whole(next)
        BY <1>3, <1>4, <1>5, <1>8, <2>1, Zenon DEF Whole
    <2>3. Placed(next)
        BY <1>4, <1>8, Zenon DEF Placed
    <2>. QED
        BY <2>2, <2>3, Zenon
<1>11. UNCHANGED <<content, settings, checkpoints, reports, saved>>
    BY Zenon DEF Start
<1>. QED
    BY <1>7, <1>9, <1>10, <1>11, Stays, Zenon

\* A process that dies leaves the files as they are.
LEMMA EndsSure ==
    ASSUME Sure, NEW p \in Runners, Ends(p)
    PROVE  Sure'
<1>1. Go(p, Idle) /\ UNCHANGED <<content, settings, checkpoints, reports, saved>>
    BY Zenon DEF Ends, world
<1>. QED
    BY <1>1, IdleGood, Stays, Zenon

\* The processes stay where they are.
LEMMA SameGood ==
    ASSUME Sure, runner' = runner
    PROVE  \A p \in Runners : (Whole(runner[p]) /\ Placed(runner[p]))'
<1>1. ASSUME NEW p \in Runners PROVE Whole(runner[p])'
    <2>1. Whole(runner[p])
        BY Zenon DEF Sure
    <2>. QED
        BY <2>1 DEF Whole
<1>2. ASSUME NEW p \in Runners PROVE Placed(runner[p])'
    <2>1. Placed(runner[p])
        BY Zenon DEF Sure
    <2>. QED
        BY <2>1 DEF Placed
<1>. QED
    BY <1>1, <1>2, Zenon

\* An edit changes what later invocations read, and nothing else.
LEMMA EditSure ==
    ASSUME Sure, Edit
    PROVE  Sure'
<1>1. settings' \in Nat
    BY SMT DEF Sure, Edit
<1>2. content' \in [Cases -> Nat]
    <2>1. ASSUME NEW c \in Cases, content' = [content EXCEPT ![c] = @ + 1] PROVE content' \in [Cases -> Nat]
        <3>1. content[c] + 1 \in Nat
            BY SMT DEF Sure
        <3>. QED
            BY <2>1, <3>1, Zenon DEF Sure
    <2>. QED
        BY <2>1, Zenon DEF Edit, Sure
<1>3. Filed' /\ ReportTrue'
    BY Zenon DEF Sure, Edit, Filed, ReportTrue
<1>4. runner' = runner
    BY Zenon DEF Edit
<1>5. \A p \in Runners : (Whole(runner[p]) /\ Placed(runner[p]))'
    BY <1>4, SameGood, Zenon
<1>. QED
    BY <1>1, <1>2, <1>3, <1>4, <1>5, Zenon DEF Sure

\* Nothing happens.
LEMMA StutterSure ==
    ASSUME Sure, UNCHANGED vars
    PROVE  Sure'
<1>1. Filed' /\ ReportTrue'
    BY Zenon DEF Sure, vars, Filed, ReportTrue
<1>2. \A p \in Runners : (Whole(runner[p]) /\ Placed(runner[p]))'
    <2>1. runner' = runner
        BY Zenon DEF vars
    <2>. QED
        BY <2>1, SameGood, Zenon
<1>. QED
    BY <1>1, <1>2, Zenon DEF Sure, vars

\* At first there are no files, and no process runs.
LEMMA InitSure == Init => Sure
<1>. SUFFICES ASSUME Init PROVE Sure
    OBVIOUS
<1>1. content \in [Cases -> Nat] /\ settings \in Nat
    BY SMT DEF Init
<1>2. runner \in [Runners -> Process] /\ \A p \in Runners : Whole(runner[p]) /\ Placed(runner[p])
    BY IdleGood, Zenon DEF Init
<1>3. DOMAIN checkpoints = {} /\ DOMAIN reports = {} /\ DOMAIN saved = {}
    BY SMT DEF Init
<1>. QED
    BY <1>1, <1>2, <1>3, Zenon DEF Sure, Filed, ReportTrue

\* Every step keeps it.
LEMMA StepSure == Sure /\ [Next]_vars => Sure'
<1>. SUFFICES ASSUME Sure, [Next]_vars PROVE Sure'
    OBVIOUS
<1>1. \A x \in Invocations : x[1] \in Selections /\ x[2] \in Orders
    BY Zenon DEF Selections, Orders
<1>. QED
    BY <1>1, StutterSure, StartSure, LoadSure, ReviewSure, SaveSure, WriteReportSure, EndsSure, EditSure, Zenon DEF Next

\* It always holds.
LEMMA SureAlways == Spec => []Sure
BY InitSure, StepSure, PTL DEF Spec

-----------------------------------------------------------------------------
(* What it costs. *)

\* What a meter counts, when it counts it.
Metering(u) == u.metered <= u.responses /\ u.responses <= u.calls /\ u.tokens = u.metered

\* What a meter has missed it has missed for good.
Since(b, u) ==
    /\ b.calls - b.responses <= u.calls - u.responses
    /\ b.responses - b.metered <= u.responses - u.metered

\* With bills B, and reviews begun again under the keys D: a result with a cost
\* has one that was charged, and all of it if there was no other review.
Honest(result, k, B, D) ==
    /\ result.tokens \in Int
    /\ k \in DOMAIN B
    /\ result.status # "unavailable" =>
          result.tokens <= B[k] /\ (k \notin D => result.tokens = B[k])

\* The key of what a process is at.
BillOf(x) == KeyOf(x, Head(x.todo))

\* What a review has been charged lies between what was answered and what was
\* asked, if there is no other.
Running(x, u, B, D) ==
    /\ BillOf(x) \in DOMAIN B
    /\ u.responses - x.before.responses <= B[BillOf(x)]
    /\ BillOf(x) \notin D => B[BillOf(x)] <= u.calls - x.before.calls

Results(x, B, D) == \A i \in DOMAIN x.results : Honest(x.results[i], KeyOf(x, i), B, D)

Counted(x, B, D) ==
    /\ Metering(x.usage) /\ Metering(x.before)
    /\ x.pc = "review" => Since(x.before, x.usage) /\ Running(x, x.usage, B, D)
    /\ x.pc = "review" => (Head(x.todo)[1] \in Local => x.usage = x.before)
    /\ x.pc = "save" => Honest(x.result, BillOf(x), B, D)
    /\ Results(x, B, D)

HonestFiles(cs, rs, B, D) ==
    /\ \A i \in DOMAIN cs : Honest(cs[i].result, cs[i].key, B, D)
    /\ \A f \in DOMAIN rs : rs[f].tokens = Totals(rs[f].results, rs[f].routes) /\ Results(rs[f], B, D)

\* Whose review, whose result a key is of.
Asks(x, k) == x.pc = "review" /\ BillOf(x) = k
Lists(x, k) == \E i \in DOMAIN x.results : KeyOf(x, i) = k
Has(x, k) == (x.pc = "save" /\ BillOf(x) = k) \/ Lists(x, k)
Kept(k, cs, rs) == (\E i \in DOMAIN cs : cs[i].key = k) \/ (\E f \in DOMAIN rs : Lists(rs[f], k))

\* While a first review is under way nobody else has to do with its key.
Alone(r, cs, rs, D) ==
    \A p \in Runners : \A k :
        Asks(r[p], k) /\ k \notin D =>
            /\ ~Kept(k, cs, rs) /\ ~Has(r[p], k)
            /\ \A q \in Runners : q # p => ~Has(r[q], k) /\ ~Asks(r[q], k)

Amounts(B) == \A k \in DOMAIN B : B[k] \in Nat

Priced ==
    /\ \A p \in Runners : Counted(runner[p], bills, repeated)
    /\ HonestFiles(checkpoints, reports, bills, repeated)
    /\ Alone(runner, checkpoints, reports, repeated)
    /\ Amounts(bills)

\* A meter that has missed nothing has as many answers as calls.
LEMMA MissesNothing ==
    ASSUME NEW b \in Usage, NEW u \in Usage, Metering(b), Metering(u), Since(b, u), Complete(u)
    PROVE  /\ u.tokens - b.tokens = u.responses - b.responses
           /\ u.responses - b.responses = u.calls - b.calls
<1>1. /\ b.calls \in Nat /\ b.responses \in Nat /\ b.metered \in Nat /\ b.tokens \in Nat
      /\ u.calls \in Nat /\ u.responses \in Nat /\ u.metered \in Nat /\ u.tokens \in Nat
    BY Zenon DEF Usage
<1>2. b.calls = b.responses /\ b.responses = b.metered /\ b.tokens = b.metered
    BY <1>1, SMT DEF Metering, Since, Complete
<1>3. u.calls = u.responses /\ u.responses = u.metered /\ u.tokens = u.metered
    BY <1>1, SMT DEF Metering, Complete
<1>. QED
    BY <1>1, <1>2, <1>3, SMT

-----------------------------------------------------------------------------
(* The books. *)

\* A key is billed no less, and if more, then for a review begun again.
Same(k, B, D, B2, D2) ==
    /\ k \in DOMAIN B => k \in DOMAIN B2 /\ B[k] \in Int /\ B2[k] \in Int /\ B[k] <= B2[k]
    /\ B2[k] = B[k] \/ k \in D2
    /\ k \in D => k \in D2

\* Then its result stays honest.
LEMMA HonestLater ==
    ASSUME NEW result, NEW k, NEW B, NEW D, NEW B2, NEW D2, Honest(result, k, B, D), Same(k, B, D, B2, D2)
    PROVE  Honest(result, k, B2, D2)
<1>1. /\ result.tokens \in Int /\ k \in DOMAIN B
      /\ result.status # "unavailable" => result.tokens <= B[k] /\ (k \notin D => result.tokens = B[k])
    BY Zenon DEF Honest
<1>2. /\ k \in DOMAIN B2 /\ B[k] \in Int /\ B2[k] \in Int /\ B[k] <= B2[k]
      /\ (B2[k] = B[k] \/ k \in D2) /\ (k \in D => k \in D2)
    BY <1>1, Zenon DEF Same
<1>3. result.tokens <= B[k] => result.tokens <= B2[k]
    BY <1>1, <1>2, SMT
<1>. QED
    BY <1>1, <1>2, <1>3, Zenon DEF Honest

\* So do those of a process or a report.
LEMMA ResultsLater ==
    ASSUME NEW x, NEW B, NEW D, NEW B2, NEW D2, Results(x, B, D), \A k : Lists(x, k) => Same(k, B, D, B2, D2)
    PROVE  Results(x, B2, D2)
<1>1. ASSUME NEW i \in DOMAIN x.results PROVE Honest(x.results[i], KeyOf(x, i), B2, D2)
    <2>1. Honest(x.results[i], KeyOf(x, i), B, D)
        BY Zenon DEF Results
    <2>2. Same(KeyOf(x, i), B, D, B2, D2)
        BY Zenon DEF Lists
    <2>. QED
        BY <2>1, <2>2, HonestLater, Zenon
<1>. QED
    BY <1>1, Zenon DEF Results

\* And the process with them.
LEMMA CountedLater ==
    ASSUME NEW x \in Process, NEW B, NEW D, NEW B2, NEW D2, Counted(x, B, D),
           \A k : Has(x, k) \/ Asks(x, k) => Same(k, B, D, B2, D2)
    PROVE  Counted(x, B2, D2)
<1>1. Results(x, B2, D2)
    BY ResultsLater, Zenon DEF Counted, Has
<1>2. x.pc = "save" => Honest(x.result, BillOf(x), B2, D2)
    BY HonestLater, Zenon DEF Counted, Has
<1>3. ASSUME x.pc = "review" PROVE Running(x, x.usage, B2, D2)
    <2>k. PICK k : k = BillOf(x)
        BY Zenon
    <2>u. PICK u \in Usage : u = x.usage
        BY Zenon DEF Process
    <2>b. PICK b \in Usage : b = x.before
        BY Zenon DEF Process
    <2>1. /\ k \in DOMAIN B /\ u.responses - b.responses <= B[k]
          /\ k \notin D => B[k] <= u.calls - b.calls
        BY <1>3, <2>k, <2>u, <2>b, Zenon DEF Counted, Running
    <2>2. Same(k, B, D, B2, D2)
        BY <1>3, <2>k, Zenon DEF Asks
    <2>3. /\ k \in DOMAIN B2 /\ B[k] \in Int /\ B2[k] \in Int /\ B[k] <= B2[k]
          /\ (B2[k] = B[k] \/ k \in D2) /\ (k \in D => k \in D2)
        BY <2>1, <2>2, Zenon DEF Same
    <2>4. u.responses - b.responses \in Int
        BY SMT DEF Usage
    <2>n. PICK n \in Int : n = u.responses - b.responses
        BY <2>4, Zenon
    <2>5. n <= B[k]
        BY <2>1, <2>n, Zenon
    <2>6. n <= B2[k]
        BY <2>3, <2>5, SMT
    <2>7. k \notin D2 => B2[k] <= u.calls - b.calls
        <3>1. ASSUME k \notin D2 PROVE B2[k] = B[k] /\ B[k] <= u.calls - b.calls
            BY <2>1, <2>3, <3>1, Zenon
        <3>. QED
            BY <3>1, Zenon
    <2>. QED
        BY <2>3, <2>6, <2>7, <2>k, <2>u, <2>b, <2>n, Zenon DEF Running
<1>. QED
    BY <1>1, <1>2, <1>3, Zenon DEF Counted

\* And the files.
LEMMA FilesLater ==
    ASSUME NEW cs, NEW rs, NEW B, NEW D, NEW B2, NEW D2, HonestFiles(cs, rs, B, D),
           \A k : Kept(k, cs, rs) => Same(k, B, D, B2, D2)
    PROVE  HonestFiles(cs, rs, B2, D2)
<1>1. ASSUME NEW i \in DOMAIN cs PROVE Honest(cs[i].result, cs[i].key, B2, D2)
    <2>1. Honest(cs[i].result, cs[i].key, B, D)
        BY Zenon DEF HonestFiles
    <2>2. Same(cs[i].key, B, D, B2, D2)
        BY Zenon DEF Kept
    <2>. QED
        BY <2>1, <2>2, HonestLater, Zenon
<1>2. ASSUME NEW f \in DOMAIN rs
      PROVE  rs[f].tokens = Totals(rs[f].results, rs[f].routes) /\ Results(rs[f], B2, D2)
    <2>1. rs[f].tokens = Totals(rs[f].results, rs[f].routes) /\ Results(rs[f], B, D)
        BY Zenon DEF HonestFiles
    <2>2. \A k : Lists(rs[f], k) => Same(k, B, D, B2, D2)
        BY Zenon DEF Kept
    <2>. QED
        BY <2>1, <2>2, ResultsLater, Zenon
<1>. QED
    BY <1>1, <1>2, Zenon DEF HonestFiles

\* One process moves, and nobody else is disturbed.
LEMMA PricedCarry ==
    ASSUME Sure, Priced, NEW p \in Runners, NEW next, Go(p, next),
           repeated \subseteq repeated', Amounts(bills'), Counted(next, bills', repeated'),
           \A q \in Runners : q # p => Counted(runner[q], bills', repeated'),
           HonestFiles(checkpoints', reports', bills', repeated'),
           \A k : Has(next, k) => Has(runner[p], k) \/ Asks(runner[p], k) \/ Kept(k, checkpoints, reports),
           \A k : Kept(k, checkpoints', reports') => Kept(k, checkpoints, reports) \/ Has(runner[p], k),
           \A k : Asks(next, k) /\ k \notin repeated' =>
                     /\ ~Has(next, k) /\ ~Kept(k, checkpoints', reports')
                     /\ \A q \in Runners : q # p => ~Has(runner[q], k) /\ ~Asks(runner[q], k)
    PROVE  Priced'
<1>1. runner \in [Runners -> Process]
    BY Zenon DEF Sure
<1>2. runner'[p] = next /\ \A q \in Runners : q # p => runner'[q] = runner[q]
    BY <1>1, Zenon DEF Go
<1>3. \A q \in Runners : Counted(runner'[q], bills', repeated')
    BY <1>2, Zenon
<1>4. ASSUME NEW q \in Runners, NEW k, Asks(runner'[q], k), k \notin repeated'
      PROVE  /\ ~Kept(k, checkpoints', reports') /\ ~Has(runner'[q], k)
             /\ \A o \in Runners : o # q => ~Has(runner'[o], k) /\ ~Asks(runner'[o], k)
    <2>1. CASE q = p
        BY <1>2, <1>4, <2>1, Zenon
    <2>2. CASE q # p
        <3>1. Asks(runner[q], k) /\ k \notin repeated
            BY <1>2, <1>4, <2>2, Zenon
        <3>2. /\ ~Kept(k, checkpoints, reports) /\ ~Has(runner[q], k)
              /\ \A o \in Runners : o # q => ~Has(runner[o], k) /\ ~Asks(runner[o], k)
            BY <3>1, Zenon DEF Priced, Alone
        <3>3. ~Has(runner[p], k) /\ ~Asks(runner[p], k)
            BY <2>2, <3>2, Zenon
        <3>4. ~Kept(k, checkpoints', reports') /\ ~Has(next, k) /\ ~Asks(next, k)
            BY <1>4, <2>2, <3>1, <3>2, <3>3, Zenon
        <3>. QED
            BY <1>2, <2>2, <3>2, <3>4, Zenon
    <2>. QED
        BY <2>1, <2>2, Zenon
<1>5. Alone(runner', checkpoints', reports', repeated')
    BY <1>4, Zenon DEF Alone
<1>. QED
    BY <1>3, <1>5, Zenon DEF Priced

\* The same, when nothing is charged and no review begins.
LEMMA FreeCarry ==
    ASSUME Sure, Priced, NEW p \in Runners, NEW next, Go(p, next), UNCHANGED ledger,
           Counted(next, bills, repeated), HonestFiles(checkpoints', reports', bills, repeated),
           next.pc # "review",
           \A k : Has(next, k) => Has(runner[p], k) \/ Asks(runner[p], k) \/ Kept(k, checkpoints, reports),
           \A k : Kept(k, checkpoints', reports') => Kept(k, checkpoints, reports) \/ Has(runner[p], k)
    PROVE  Priced'
<1>1. bills' = bills /\ repeated' = repeated
    BY Zenon DEF ledger
<1>2. /\ repeated \subseteq repeated' /\ Amounts(bills') /\ Counted(next, bills', repeated')
      /\ \A q \in Runners : q # p => Counted(runner[q], bills', repeated')
      /\ HonestFiles(checkpoints', reports', bills', repeated')
    BY <1>1, Zenon DEF Priced
<1>3. \A k : ~Asks(next, k)
    BY Zenon DEF Asks
<1>. QED
    BY <1>2, <1>3, PricedCarry, Zenon

\* Who is billed by a review under way disturbs nobody.
LEMMA Charged ==
    ASSUME Sure, Priced, NEW p \in Runners, At(p, "review"), NEW cost \in {0, 1}, Charge(p, cost)
    PROVE  /\ repeated' = repeated /\ Amounts(bills')
           /\ Bill(p) \in DOMAIN bills /\ Bill(p) \in DOMAIN bills'
           /\ bills[Bill(p)] \in Nat /\ bills'[Bill(p)] = bills[Bill(p)] + cost
           /\ \A q \in Runners : q # p => Counted(runner[q], bills', repeated')
           /\ HonestFiles(checkpoints, reports, bills', repeated')
           /\ Results(runner[p], bills', repeated')
<1>x. PICK x \in Process : x = runner[p]
    BY Zenon DEF Sure
<1>k. PICK k0 : k0 = Bill(p)
    BY Zenon
<1>1. Asks(x, k0) /\ k0 = BillOf(x) /\ Counted(x, bills, repeated) /\ x.pc = "review"
    BY <1>x, <1>k, Zenon DEF Priced, At, Asks, BillOf, Bill, Item
<1>2. k0 \in DOMAIN bills
    BY <1>1, Zenon DEF Counted, Running
<1>3. bills[k0] \in Nat
    BY <1>2, Zenon DEF Priced, Amounts
<1>n. PICK n \in Nat : n = bills[k0] + cost /\ bills[k0] <= n
    BY <1>3, SMT
<1>4. bills' = [bills EXCEPT ![k0] = n] /\ repeated' = repeated
    BY <1>k, <1>n, Zenon DEF Charge
<1>5. DOMAIN bills' = DOMAIN bills /\ bills'[k0] = n /\ \A k \in DOMAIN bills : k # k0 => bills'[k] = bills[k]
    BY <1>2, <1>4, Zenon
<1>6. Amounts(bills')
    BY <1>5, Zenon DEF Priced, Amounts
<1>7. ASSUME NEW k, k # k0 PROVE Same(k, bills, repeated, bills', repeated')
    <2>1. CASE k \in DOMAIN bills
        <3>1. bills'[k] = bills[k] /\ bills[k] \in Nat
            BY <1>5, <1>7, <2>1, Zenon DEF Priced, Amounts
        <3>2. bills[k] \in Int /\ bills[k] <= bills[k]
            BY <3>1, SMT
        <3>. QED
            BY <1>4, <1>5, <2>1, <3>1, <3>2, Zenon DEF Same
    <2>2. CASE k \notin DOMAIN bills
        <3>1. bills'[k] = bills[k]
            <4>1. bills' = [j \in DOMAIN bills |-> IF j = k0 THEN n ELSE bills[j]]
                BY <1>4, Zenon
            <4>. QED
                BY <1>4, <1>7, <2>2
        <3>. QED
            BY <1>4, <2>2, <3>1, Zenon DEF Same
    <2>. QED
        BY <2>1, <2>2, Zenon
<1>8. k0 \in repeated => Same(k0, bills, repeated, bills', repeated')
    <2>1. bills[k0] \in Int /\ bills'[k0] \in Int /\ bills[k0] <= bills'[k0]
        BY <1>3, <1>5, <1>n, SMT
    <2>. QED
        BY <1>2, <1>4, <1>5, <2>1, Zenon DEF Same
<1>9. k0 \notin repeated =>
        /\ ~Kept(k0, checkpoints, reports) /\ ~Has(x, k0)
        /\ \A q \in Runners : q # p => ~Has(runner[q], k0) /\ ~Asks(runner[q], k0)
    BY <1>x, <1>1, Zenon DEF Priced, Alone
<1>10. ASSUME NEW q \in Runners, q # p PROVE Counted(runner[q], bills', repeated')
    <2>1. \A k : Has(runner[q], k) \/ Asks(runner[q], k) => Same(k, bills, repeated, bills', repeated')
        BY <1>7, <1>8, <1>9, <1>10, Zenon
    <2>y. PICK y \in Process : y = runner[q]
        BY Zenon DEF Sure
    <2>2. Counted(y, bills, repeated)
        BY <2>y, Zenon DEF Priced
    <2>. QED
        BY <2>1, <2>2, <2>y, CountedLater, Zenon
<1>11. HonestFiles(checkpoints, reports, bills', repeated')
    <2>1. \A k : Kept(k, checkpoints, reports) => Same(k, bills, repeated, bills', repeated')
        BY <1>7, <1>8, <1>9, Zenon
    <2>2. HonestFiles(checkpoints, reports, bills, repeated)
        BY Zenon DEF Priced
    <2>. QED
        BY <2>1, <2>2, FilesLater, Zenon
<1>12. Results(x, bills', repeated')
    <2>1. \A k : Lists(x, k) => Same(k, bills, repeated, bills', repeated')
        BY <1>7, <1>8, <1>9, Zenon DEF Has
    <2>2. Results(x, bills, repeated)
        BY <1>1, Zenon DEF Counted
    <2>. QED
        BY <2>1, <2>2, ResultsLater, Zenon
<1>. QED
    BY <1>x, <1>k, <1>n, <1>2, <1>3, <1>4, <1>5, <1>6, <1>10, <1>11, <1>12, Zenon

\* A review that is charged ends, or its process does.
LEMMA ChargedCarry ==
    ASSUME Sure, Priced, NEW p \in Runners, At(p, "review"), NEW cost \in {0, 1}, Charge(p, cost),
           NEW next, Go(p, next), Counted(next, bills', repeated'), UNCHANGED <<checkpoints, reports>>,
           \A k : Has(next, k) => Has(runner[p], k) \/ Asks(runner[p], k),
           \A k : Asks(next, k) => Asks(runner[p], k) /\ (Has(next, k) => Has(runner[p], k))
    PROVE  Priced'
<1>1. /\ repeated' = repeated /\ Amounts(bills')
      /\ \A q \in Runners : q # p => Counted(runner[q], bills', repeated')
      /\ HonestFiles(checkpoints, reports, bills', repeated')
    BY Charged, Zenon
<1>2. /\ repeated \subseteq repeated'
      /\ HonestFiles(checkpoints', reports', bills', repeated')
      /\ \A k : Kept(k, checkpoints', reports') => Kept(k, checkpoints, reports)
    BY <1>1, Zenon
<1>3. ASSUME NEW k, Asks(next, k), k \notin repeated'
      PROVE  /\ ~Has(next, k) /\ ~Kept(k, checkpoints', reports')
             /\ \A q \in Runners : q # p => ~Has(runner[q], k) /\ ~Asks(runner[q], k)
    <2>1. Asks(runner[p], k) /\ k \notin repeated
        BY <1>1, <1>3, Zenon
    <2>2. /\ ~Kept(k, checkpoints, reports) /\ ~Has(runner[p], k)
          /\ \A q \in Runners : q # p => ~Has(runner[q], k) /\ ~Asks(runner[q], k)
        BY <2>1, Zenon DEF Priced, Alone
    <2>. QED
        BY <1>2, <1>3, <2>2, Zenon
<1>. QED
    BY <1>1, <1>2, <1>3, PricedCarry, Zenon

\* A review that begins is the first of its key, or it begins again.
LEMMA BeginPriced ==
    ASSUME Sure, Priced, NEW p \in Runners, At(p, "load"), Begin(p), UNCHANGED <<checkpoints, reports>>
    PROVE  Priced'
<1>x. PICK x \in Process : x = runner[p]
    BY Zenon DEF Sure
<1>k. PICK k0 : k0 = Bill(p)
    BY Zenon
<1>1. Counted(x, bills, repeated) /\ k0 = BillOf(x)
    BY <1>x, <1>k, Zenon DEF Priced, Bill, BillOf, Item
<1>2. \/ k0 \in DOMAIN bills /\ bills' = bills /\ repeated' = repeated \cup {k0}
      \/ k0 \notin DOMAIN bills /\ bills' = With(bills, k0, 0) /\ repeated' = repeated
    BY <1>k, Zenon DEF Begin
<1>3. /\ \A k \in DOMAIN bills : k \in DOMAIN bills' /\ bills'[k] = bills[k]
      /\ \A k \in DOMAIN bills' : k \in DOMAIN bills \/ (k = k0 /\ bills'[k] = 0)
      /\ k0 \in DOMAIN bills' /\ (k0 \notin repeated' => k0 \notin DOMAIN bills /\ bills'[k0] = 0)
    <2>1. CASE k0 \in DOMAIN bills /\ bills' = bills /\ repeated' = repeated \cup {k0}
        BY <2>1, Zenon
    <2>2. CASE k0 \notin DOMAIN bills /\ bills' = With(bills, k0, 0)
        BY <2>2, Zenon DEF With
    <2>. QED
        BY <1>2, <2>1, <2>2, Zenon
<1>4. repeated \subseteq repeated'
    BY <1>2, Zenon
<1>5. Amounts(bills')
    <2>1. 0 \in Nat
        BY SMT
    <2>. QED
        BY <1>3, <2>1, Zenon DEF Priced, Amounts
<1>6. ASSUME NEW k \in DOMAIN bills PROVE Same(k, bills, repeated, bills', repeated')
    <2>1. bills[k] \in Nat
        BY Zenon DEF Priced, Amounts
    <2>2. bills[k] \in Int /\ bills[k] <= bills[k]
        BY <2>1, SMT
    <2>. QED
        BY <1>3, <1>4, <2>2, Zenon DEF Same
<1>7. ASSUME NEW q \in Runners, NEW k, Has(runner[q], k) \/ Asks(runner[q], k) PROVE k \in DOMAIN bills
    <2>1. Counted(runner[q], bills, repeated)
        BY Zenon DEF Priced
    <2>. QED
        BY <1>7, <2>1, Zenon DEF Counted, Results, Honest, Running, Has, Lists, Asks
<1>8. ASSUME NEW k, Kept(k, checkpoints, reports) PROVE k \in DOMAIN bills
    <2>1. HonestFiles(checkpoints, reports, bills, repeated)
        BY Zenon DEF Priced
    <2>. QED
        BY <1>8, <2>1, Zenon DEF HonestFiles, Results, Honest, Kept, Lists
<1>9. ASSUME NEW q \in Runners PROVE Counted(runner[q], bills', repeated')
    <2>y. PICK y \in Process : y = runner[q]
        BY Zenon DEF Sure
    <2>1. \A k : Has(y, k) \/ Asks(y, k) => Same(k, bills, repeated, bills', repeated')
        BY <1>6, <1>7, <2>y, Zenon
    <2>2. Counted(y, bills, repeated)
        BY <2>y, Zenon DEF Priced
    <2>. QED
        BY <2>1, <2>2, <2>y, CountedLater, Zenon
<1>10. HonestFiles(checkpoints', reports', bills', repeated')
    <2>1. \A k : Kept(k, checkpoints, reports) => Same(k, bills, repeated, bills', repeated')
        BY <1>6, <1>8, Zenon
    <2>2. HonestFiles(checkpoints, reports, bills, repeated)
        BY Zenon DEF Priced
    <2>3. HonestFiles(checkpoints, reports, bills', repeated')
        BY <2>1, <2>2, FilesLater, Zenon
    <2>. QED
        BY <2>3, Zenon
<1>. DEFINE next == [x EXCEPT !.pc = "review", !.before = x.usage, !.attempt = 0]
<1>11. Go(p, next)
    BY <1>x, Zenon DEF Begin
<1>12. /\ next.pc = "review" /\ next.results = x.results /\ next.usage = x.usage /\ next.before = x.usage
       /\ next.todo = x.todo /\ next.dataset = x.dataset /\ next.settings = x.settings
    BY Zenon DEF Process
<1>. HIDE DEF next
<1>13. BillOf(next) = k0 /\ \A k : Lists(next, k) <=> Lists(x, k)
    BY <1>1, <1>12, Zenon DEF BillOf, KeyOf, Lists
<1>14. Counted(next, bills', repeated')
    <2>u. PICK u \in Usage : u = x.usage
        BY Zenon DEF Process
    <2>1. Since(u, u)
        BY SMT DEF Since, Usage
    <2>2. u.responses - u.responses = 0 /\ u.calls - u.calls = 0
        BY SMT DEF Usage
    <2>3. bills'[k0] \in Nat
        BY <1>3, <1>5, Zenon DEF Amounts
    <2>4. 0 <= bills'[k0]
        BY <2>3, SMT
    <2>5. 0 <= 0
        BY SMT
    <2>6. Running(next, u, bills', repeated')
        BY <1>3, <1>12, <1>13, <2>u, <2>2, <2>4, <2>5, Zenon DEF Running
    <2>7. Results(next, bills', repeated')
        <3>1. Results(x, bills', repeated')
            BY <1>x, <1>9, Zenon DEF Counted
        <3>. QED
            BY <1>12, <3>1, Zenon DEF Results, KeyOf
    <2>. QED
        BY <1>1, <1>12, <2>u, <2>1, <2>6, <2>7, Zenon DEF Counted
<1>15. \A k : Has(next, k) => Has(runner[p], k)
    BY <1>x, <1>12, <1>13, Zenon DEF Has
<1>16. ASSUME NEW k, Asks(next, k), k \notin repeated'
       PROVE  /\ ~Has(next, k) /\ ~Kept(k, checkpoints', reports')
              /\ \A q \in Runners : q # p => ~Has(runner[q], k) /\ ~Asks(runner[q], k)
    <2>1. k = k0 /\ k \notin DOMAIN bills
        BY <1>3, <1>13, <1>16, Zenon DEF Asks
    <2>. QED
        BY <1>7, <1>8, <1>15, <2>1, Zenon
<1>17. \A k : Kept(k, checkpoints', reports') => Kept(k, checkpoints, reports)
    BY Zenon
<1>. QED
    BY <1>4, <1>5, <1>9, <1>10, <1>11, <1>14, <1>15, <1>16, <1>17, PricedCarry, Zenon

-----------------------------------------------------------------------------
(* The steps. *)

\* Nothing has been asked for.
LEMMA IdleCounted ==
    /\ \A B, D : Counted(Idle, B, D)
    /\ Idle.pc # "review" /\ Idle.pc # "save"
    /\ \A k : ~Has(Idle, k) /\ ~Asks(Idle, k)
<1>1. Metering(NoUsage)
    BY SMT DEF Metering, NoUsage
<1>2. Idle.pc = "idle" /\ Idle.usage = NoUsage /\ Idle.before = NoUsage /\ Idle.results = <<>>
    BY Zenon DEF Idle
<1>3. DOMAIN Idle.results = {}
    BY <1>2, SMT
<1>. QED
    BY <1>1, <1>2, <1>3, Zenon DEF Counted, Results, Has, Lists, Asks

\* A case is done with a result that is honest.
LEMMA DoneCounted ==
    ASSUME NEW p \in Runners, NEW x \in Process, NEW B, NEW D, Counted(x, B, D), runner[p] = x,
           NEW result, Honest(result, BillOf(x), B, D), Done(p, result)
    PROVE  \E next : /\ Go(p, next) /\ Counted(next, B, D) /\ next.pc # "review"
                     /\ \A k : Has(next, k) => Lists(x, k) \/ k = BillOf(x)
<1>i. PICK i : i = Head(x.todo)
    BY Zenon
<1>t. PICK rest : rest = Tail(x.todo)
    BY Zenon
<1>s. PICK res : res = With(x.results, i, result)
    BY Zenon
<1>u. PICK u : u = (IF rest # <<>> /\ Head(rest)[1] = i[1] THEN x.usage ELSE NoUsage)
    BY Zenon
<1>f. PICK files : files = (IF rest = <<>> THEN Files ELSE <<>>)
    BY Zenon
<1>c. PICK pc : pc = (IF rest = <<>> THEN "report" ELSE "load")
    BY Zenon
<1>. DEFINE next == [x EXCEPT !.pc = pc, !.todo = rest, !.results = res, !.result = NoResult,
                              !.usage = u, !.files = files]
<1>1. Go(p, next)
    BY <1>i, <1>t, <1>s, <1>u, <1>f, <1>c, Zenon DEF Done, Item, RouteOf
<1>2. /\ next.pc = pc /\ next.results = res /\ next.usage = u /\ next.before = x.before
      /\ next.dataset = x.dataset /\ next.settings = x.settings
    BY Zenon DEF Process
<1>. HIDE DEF next
<1>3. pc # "review" /\ pc # "save"
    BY <1>c, Zenon
<1>4. Metering(u)
    <2>1. Metering(NoUsage)
        BY SMT DEF Metering, NoUsage
    <2>. QED
        BY <1>u, <2>1, Zenon DEF Counted
<1>5. \A j : KeyOf(next, j) = KeyOf(x, j)
    BY <1>2, Zenon DEF KeyOf
<1>6. ASSUME NEW j \in DOMAIN res PROVE Honest(res[j], KeyOf(next, j), B, D)
    <2>1. CASE j = i
        BY <1>i, <1>s, <1>5, <2>1, Zenon DEF With, BillOf
    <2>2. CASE j # i
        BY <1>s, <1>5, <2>2, Zenon DEF With, Counted, Results
    <2>. QED
        BY <2>1, <2>2, Zenon
<1>7. Counted(next, B, D)
    BY <1>2, <1>3, <1>4, <1>6, Zenon DEF Counted, Results
<1>8. ASSUME NEW k, Has(next, k) PROVE Lists(x, k) \/ k = BillOf(x)
    <2>1. PICK j \in DOMAIN res : KeyOf(x, j) = k
        BY <1>2, <1>3, <1>5, <1>8, Zenon DEF Has, Lists
    <2>. QED
        BY <1>i, <1>s, <2>1, Zenon DEF With, Lists, BillOf
<1>. QED
    BY <1>1, <1>2, <1>3, <1>7, <1>8, Zenon

\* A checkpoint's result is honest; a review starts with the meter as it is.
LEMMA LoadPriced ==
    ASSUME Sure, Priced, NEW p \in Runners, Load(p)
    PROVE  Priced'
<1>x. PICK x \in Process : x = runner[p]
    BY Zenon DEF Sure
<1>1. Counted(x, bills, repeated)
    BY <1>x, Zenon DEF Priced
<1>2. UNCHANGED <<checkpoints, reports>> /\ At(p, "load")
    BY Zenon DEF Load
<1>3. CASE Reusable(p) /\ Done(p, checkpoints[Slot(p)].result) /\ UNCHANGED ledger
    <2>1. Slot(p) \in DOMAIN checkpoints /\ checkpoints[Slot(p)].key = Key(p)
        BY <1>3, Zenon DEF Reusable
    <2>k. Key(p) = BillOf(x)
        BY <1>x, Zenon DEF Key, BillOf, Item
    <2>2. PICK result : result = checkpoints[Slot(p)].result
        BY Zenon
    <2>3. Honest(result, BillOf(x), bills, repeated) /\ Kept(BillOf(x), checkpoints, reports)
        BY <2>1, <2>2, <2>k, Zenon DEF Priced, HonestFiles, Kept
    <2>4. Done(p, result)
        BY <1>3, <2>2, Zenon
    <2>5. PICK next : /\ Go(p, next) /\ Counted(next, bills, repeated) /\ next.pc # "review"
                      /\ \A k : Has(next, k) => Lists(x, k) \/ k = BillOf(x)
        BY <1>x, <1>1, <2>3, <2>4, DoneCounted, Zenon
    <2>6. \A k : Has(next, k) => Has(runner[p], k) \/ Kept(k, checkpoints, reports)
        BY <1>x, <2>3, <2>5, Zenon DEF Has
    <2>7. /\ HonestFiles(checkpoints', reports', bills, repeated)
          /\ \A k : Kept(k, checkpoints', reports') => Kept(k, checkpoints, reports)
        BY <1>2, Zenon DEF Priced
    <2>8. UNCHANGED ledger
        BY <1>3, Zenon
    <2>. QED
        BY <2>5, <2>6, <2>7, <2>8, FreeCarry, Zenon
<1>4. CASE Begin(p)
    BY <1>2, <1>4, BeginPriced, Zenon
<1>. QED
    BY <1>3, <1>4, Zenon DEF Load

\* What a review comes to is honest.
LEMMA ReviewedCounted ==
    ASSUME NEW p \in Runners, NEW x \in Process, runner[p] = x, NEW B, NEW D, Amounts(B),
           Metering(x.before), Results(x, B, D),
           NEW u \in Usage, Metering(u), Since(x.before, u), Running(x, u, B, D),
           Head(x.todo)[1] \in Local => u = x.before,
           NEW success \in BOOLEAN, Reviewed(p, u, success)
    PROVE  \E next : /\ Go(p, next) /\ Counted(next, B, D) /\ next.pc # "review"
                     /\ \A k : Has(next, k) => Lists(x, k) \/ k = BillOf(x)
<1>b. PICK b \in Usage : b = x.before
    BY Zenon DEF Process
<1>r. PICK result : result = Result(p, u, success)
    BY Zenon
<1>k. PICK k0 : k0 = BillOf(x)
    BY Zenon
<1>1. result.status = Metered(p, u).status /\ result.tokens = Metered(p, u).tokens
    BY <1>r, Zenon DEF Result
<1>0. /\ k0 \in DOMAIN B /\ u.responses - b.responses <= B[k0]
      /\ k0 \notin D => B[k0] <= u.calls - b.calls
    BY <1>b, <1>k, Zenon DEF Running
<1>a. B[k0] \in Nat
    BY <1>0, Zenon DEF Amounts
<1>2. Honest(result, k0, B, D)
    <2>1. RouteOf(p) = Head(x.todo)[1]
        BY Zenon DEF RouteOf, Item
    <2>2. CASE RouteOf(p) \in Local
        <3>1. u = b
            BY <1>b, <2>1, <2>2, Zenon
        <3>2. u.calls - b.calls = 0
            BY <3>1, SMT DEF Usage
        <3>3. result.tokens = 0
            BY <1>1, <2>2, Zenon DEF Metered
        <3>4. 0 \in Int /\ 0 <= B[k0] /\ (B[k0] <= 0 => 0 = B[k0])
            BY <1>a, SMT
        <3>. QED
            BY <1>0, <3>2, <3>3, <3>4, Zenon DEF Honest
    <2>3. CASE RouteOf(p) \notin Local
        <3>1. CASE Complete(u) /\ u.responses - b.responses = u.metered - b.metered
            <4>1. /\ u.tokens - b.tokens = u.responses - b.responses
                  /\ u.responses - b.responses = u.calls - b.calls
                BY <1>b, <3>1, MissesNothing, Zenon
            <4>2. Metered(p, u).tokens = u.tokens - b.tokens
                BY <1>b, <2>3, <3>1, Zenon DEF Metered
            <4>n. PICK n \in Int : n = u.responses - b.responses
                <5>1. u.responses - b.responses \in Int
                    BY SMT DEF Usage
                <5>. QED
                    BY <5>1, Zenon
            <4>3. result.tokens = n /\ n <= B[k0] /\ (k0 \notin D => B[k0] <= n)
                BY <1>0, <1>1, <4>1, <4>2, <4>n, Zenon
            <4>4. n <= B[k0] /\ B[k0] <= n => n = B[k0]
                BY <1>a, SMT
            <4>. QED
                BY <1>0, <4>3, <4>4, Zenon DEF Honest
        <3>2. CASE ~(Complete(u) /\ u.responses - b.responses = u.metered - b.metered)
            <4>1. Metered(p, u).status = "unavailable" /\ Metered(p, u).tokens = 0
                BY <1>b, <2>3, <3>2, Zenon DEF Metered
            <4>2. 0 \in Int
                BY SMT
            <4>. QED
                BY <1>0, <1>1, <4>1, <4>2, Zenon DEF Honest
        <3>. QED
            BY <3>1, <3>2, Zenon
    <2>. QED
        BY <2>2, <2>3, Zenon
<1>. DEFINE next == [x EXCEPT !.pc = "save", !.usage = u, !.before = NoUsage, !.attempt = 0, !.result = result]
<1>3. Go(p, next)
    BY <1>r, Zenon DEF Reviewed
<1>4. /\ next.pc = "save" /\ next.results = x.results /\ next.result = result
      /\ next.usage = u /\ next.before = NoUsage
      /\ next.todo = x.todo /\ next.dataset = x.dataset /\ next.settings = x.settings
    BY Zenon DEF Process
<1>. HIDE DEF next
<1>5. Metering(NoUsage)
    BY SMT DEF Metering, NoUsage
<1>6. BillOf(next) = k0 /\ \A j : KeyOf(next, j) = KeyOf(x, j)
    BY <1>4, <1>k, Zenon DEF BillOf, KeyOf
<1>7. Counted(next, B, D)
    BY <1>2, <1>4, <1>5, <1>6, Zenon DEF Counted, Results
<1>8. \A k : Has(next, k) => Lists(x, k) \/ k = BillOf(x)
    BY <1>4, <1>6, <1>k, Zenon DEF Has, Lists
<1>9. next.pc # "review"
    BY <1>4, Zenon
<1>. QED
    BY <1>3, <1>7, <1>8, <1>9, Zenon

\* However the model answers and the provider counts.
LEMMA ReviewPriced ==
    ASSUME Sure, Priced, NEW p \in Runners,
           LocalReview(p) \/ CallFails(p) \/ \E metered, valid \in BOOLEAN : CallAnswers(p, metered, valid)
    PROVE  Priced'
<1>x. PICK x \in Process : x = runner[p]
    BY Zenon DEF Sure
<1>y. PICK y \in Usage : y = x.usage
    BY Zenon DEF Process
<1>b. PICK b \in Usage : b = x.before
    BY Zenon DEF Process
<1>k. PICK k0 : k0 = Bill(p)
    BY Zenon
<1>1. /\ Counted(x, bills, repeated) /\ x.pc = "review" /\ Metering(y) /\ Metering(b) /\ Since(b, y)
      /\ Running(x, y, bills, repeated) /\ RouteOf(p) = Head(x.todo)[1] /\ At(p, "review") /\ Asks(x, k0)
      /\ k0 = BillOf(x)
    <2>1. /\ Counted(x, bills, repeated) /\ x.pc = "review" /\ RouteOf(p) = Head(x.todo)[1] /\ At(p, "review")
          /\ k0 = BillOf(x)
        BY <1>x, <1>k, Zenon DEF Priced, LocalReview, CallFails, CallAnswers, At, RouteOf, Item, Bill, BillOf
    <2>. QED
        BY <1>y, <1>b, <2>1, Zenon DEF Counted, Asks
<1>2. UNCHANGED <<checkpoints, reports>>
    BY Zenon DEF LocalReview, CallFails, CallAnswers
<1>t. /\ y.calls \in Nat /\ y.responses \in Nat /\ y.metered \in Nat /\ y.tokens \in Nat
      /\ b.calls \in Nat /\ b.responses \in Nat /\ b.metered \in Nat /\ b.tokens \in Nat
    BY Zenon DEF Usage
<1>3. ASSUME NEW u \in Usage, Metering(u), Since(b, u), RouteOf(p) \notin Local,
             NEW cost \in {0, 1}, Charge(p, cost), Running(x, u, bills', repeated'),
             (\E success \in BOOLEAN : Reviewed(p, u, success)) \/ Again(p, u)
      PROVE  Priced'
    <2>1. Amounts(bills') /\ Results(x, bills', repeated') /\ repeated' = repeated
        BY <1>x, <1>1, <1>3, Charged, Zenon
    <2>2. ASSUME NEW success \in BOOLEAN, Reviewed(p, u, success) PROVE Priced'
        <3>0. Metering(x.before) /\ Since(x.before, u) /\ (Head(x.todo)[1] \in Local => u = x.before)
            BY <1>1, <1>3, <1>b, Zenon
        <3>1. PICK next : /\ Go(p, next) /\ Counted(next, bills', repeated') /\ next.pc # "review"
                          /\ \A k : Has(next, k) => Lists(x, k) \/ k = BillOf(x)
            BY <1>x, <1>3, <2>1, <2>2, <3>0, ReviewedCounted, Zenon
        <3>2. /\ \A k : Has(next, k) => Has(runner[p], k) \/ Asks(runner[p], k)
              /\ \A k : ~Asks(next, k)
            BY <1>x, <1>1, <3>1, Zenon DEF Has, Asks
        <3>. QED
            BY <1>1, <1>2, <1>3, <3>1, <3>2, ChargedCarry, Zenon
    <2>3. CASE Again(p, u)
        <3>. DEFINE next == [x EXCEPT !.usage = u, !.attempt = x.attempt + 1]
        <3>1. Go(p, next)
            BY <1>x, <2>3, Zenon DEF Again
        <3>2. /\ next.pc = x.pc /\ next.todo = x.todo /\ next.results = x.results /\ next.usage = u
              /\ next.before = x.before /\ next.dataset = x.dataset /\ next.settings = x.settings
            BY Zenon DEF Process
        <3>. HIDE DEF next
        <3>3. BillOf(next) = BillOf(x) /\ \A j : KeyOf(next, j) = KeyOf(x, j)
            BY <3>2, Zenon DEF BillOf, KeyOf
        <3>4. Running(next, u, bills', repeated') /\ Results(next, bills', repeated')
            BY <1>3, <2>1, <3>2, <3>3, Zenon DEF Running, Results
        <3>5. Counted(next, bills', repeated')
            BY <1>1, <1>3, <1>b, <3>2, <3>4, Zenon DEF Counted
        <3>6. /\ \A k : Has(next, k) => Has(runner[p], k)
              /\ \A k : Asks(next, k) => Asks(runner[p], k)
            BY <1>x, <3>2, <3>3, Zenon DEF Has, Lists, Asks
        <3>. QED
            BY <1>1, <1>2, <1>3, <3>1, <3>5, <3>6, ChargedCarry, Zenon
    <2>. QED
        BY <1>3, <2>2, <2>3, Zenon
<1>4. CASE LocalReview(p)
    <2>1. Reviewed(p, y, TRUE) /\ RouteOf(p) \in Local /\ UNCHANGED ledger
        BY <1>x, <1>y, <1>4, Zenon DEF LocalReview
    <2>2. y = b
        BY <1>1, <1>y, <1>b, <2>1, Zenon DEF Counted
    <2>3. /\ Amounts(bills) /\ Results(x, bills, repeated) /\ Metering(x.before) /\ Since(x.before, y)
          /\ (Head(x.todo)[1] \in Local => y = x.before)
        BY <1>1, <1>b, <2>2, Zenon DEF Priced, Counted
    <2>4. PICK next : /\ Go(p, next) /\ Counted(next, bills, repeated) /\ next.pc # "review"
                      /\ \A k : Has(next, k) => Lists(x, k) \/ k = BillOf(x)
        BY <1>x, <1>1, <2>1, <2>3, ReviewedCounted, Zenon
    <2>5. \A k : Has(next, k) => Has(runner[p], k) \/ Asks(runner[p], k)
        BY <1>x, <1>1, <2>4, Zenon DEF Has
    <2>6. /\ HonestFiles(checkpoints', reports', bills, repeated)
          /\ \A k : Kept(k, checkpoints', reports') => Kept(k, checkpoints, reports)
        BY <1>2, Zenon DEF Priced
    <2>. QED
        BY <2>1, <2>4, <2>5, <2>6, FreeCarry, Zenon
<1>r. /\ k0 \in DOMAIN bills /\ y.responses - b.responses <= bills[k0]
      /\ k0 \notin repeated => bills[k0] <= y.calls - b.calls
    BY <1>1, <1>b, Zenon DEF Running
<1>5. CASE CallFails(p)
    <2>1. PICK cost \in {0, 1} : Charge(p, cost)
        BY <1>5, Zenon DEF CallFails
    <2>2. PICK u : u = [y EXCEPT !.calls = y.calls + 1]
        BY Zenon
    <2>3. /\ u.calls = y.calls + 1 /\ u.responses = y.responses
          /\ u.metered = y.metered /\ u.tokens = y.tokens
        BY <2>2, Zenon DEF Usage
    <2>4. y.calls + 1 \in Nat
        BY <1>t, SMT
    <2>5. u \in Usage
        BY <2>2, <2>4, Zenon DEF Usage
    <2>6. Metering(u) /\ Since(b, u)
        BY <1>1, <1>t, <2>3, SMT DEF Metering, Since
    <2>7. (\E success \in BOOLEAN : Reviewed(p, u, success)) \/ Again(p, u)
        <3>1. PICK success : success = Contained(p)
            BY Zenon
        <3>2. success \in BOOLEAN
            BY <3>1, SMT DEF Contained
        <3>3. Reviewed(p, u, success) \/ Again(p, u)
            BY <1>x, <1>y, <1>5, <2>2, <3>1, Zenon DEF CallFails
        <3>. QED
            BY <3>2, <3>3, Zenon
    <2>8. RouteOf(p) \notin Local
        BY <1>5, Zenon DEF CallFails
    <2>9. /\ repeated' = repeated /\ k0 \in DOMAIN bills' /\ bills[k0] \in Nat /\ bills'[k0] = bills[k0] + cost
        BY <1>1, <1>k, <2>1, Charged, Zenon
    <2>10. /\ u.responses - b.responses <= bills'[k0]
           /\ k0 \notin repeated => bills'[k0] <= u.calls - b.calls
        BY <1>r, <1>t, <2>3, <2>9, SMT
    <2>11. Running(x, u, bills', repeated')
        BY <1>1, <1>b, <2>9, <2>10, Zenon DEF Running
    <2>. QED
        BY <1>3, <2>1, <2>5, <2>6, <2>7, <2>8, <2>11, Zenon
<1>6. ASSUME NEW metered \in BOOLEAN, NEW valid \in BOOLEAN, CallAnswers(p, metered, valid) PROVE Priced'
    <2>k. PICK j \in {0, 1} : j = (IF metered THEN 1 ELSE 0)
        BY Zenon
    <2>1. PICK u : u = Answered(y, metered)
        BY Zenon
    <2>2. u = [calls |-> y.calls + 1, responses |-> y.responses + 1,
               metered |-> y.metered + j, tokens |-> y.tokens + j]
        BY <2>1, <2>k, Zenon DEF Answered
    <2>3. /\ u.calls = y.calls + 1 /\ u.responses = y.responses + 1
          /\ u.metered = y.metered + j /\ u.tokens = y.tokens + j
        BY <2>2, Zenon
    <2>4. /\ y.calls + 1 \in Nat /\ y.responses + 1 \in Nat
          /\ y.metered + j \in Nat /\ y.tokens + j \in Nat
        BY <1>t, SMT
    <2>5. u \in Usage
        BY <2>2, <2>4, Zenon DEF Usage
    <2>6. Metering(u) /\ Since(b, u)
        BY <1>1, <1>t, <2>3, SMT DEF Metering, Since
    <2>7. (\E success \in BOOLEAN : Reviewed(p, u, success)) \/ Again(p, u)
        <3>1. PICK success : success = (valid \/ Contained(p))
            BY Zenon
        <3>2. success \in BOOLEAN
            BY <3>1, Zenon DEF Contained
        <3>3. Reviewed(p, u, success) \/ Again(p, u)
            BY <1>x, <1>y, <1>6, <2>1, <3>1, Zenon DEF CallAnswers
        <3>. QED
            BY <3>2, <3>3, Zenon
    <2>8. RouteOf(p) \notin Local
        BY <1>6, Zenon DEF CallAnswers
    <2>c. PICK cost \in {0, 1} : cost = 1
        BY Zenon
    <2>0. Charge(p, cost)
        BY <1>6, <2>c, Zenon DEF CallAnswers
    <2>9. /\ repeated' = repeated /\ k0 \in DOMAIN bills' /\ bills[k0] \in Nat /\ bills'[k0] = bills[k0] + cost
        BY <1>1, <1>k, <2>0, Charged, Zenon
    <2>10. /\ u.responses - b.responses <= bills'[k0]
           /\ k0 \notin repeated => bills'[k0] <= u.calls - b.calls
        BY <1>r, <1>t, <2>3, <2>9, <2>c, SMT
    <2>11. Running(x, u, bills', repeated')
        BY <1>1, <1>b, <2>9, <2>10, Zenon DEF Running
    <2>. QED
        BY <1>3, <2>0, <2>5, <2>6, <2>7, <2>8, <2>11, Zenon
<1>. QED
    BY <1>4, <1>5, <1>6, Zenon

\* An honest result is saved.
LEMMA SavePriced ==
    ASSUME Sure, Priced, NEW p \in Runners, Save(p)
    PROVE  Priced'
<1>x. PICK x \in Process : x = runner[p]
    BY Zenon DEF Sure
<1>r. PICK result : result = x.result
    BY Zenon
<1>1. /\ Counted(x, bills, repeated) /\ x.pc = "save" /\ Honest(result, BillOf(x), bills, repeated)
      /\ Key(p) = BillOf(x) /\ Has(x, BillOf(x))
    <2>1. Counted(x, bills, repeated) /\ x.pc = "save" /\ Key(p) = BillOf(x)
        BY <1>x, Zenon DEF Priced, Save, At, Key, BillOf, Item
    <2>. QED
        BY <1>r, <2>1, Zenon DEF Counted, Has
<1>2. PICK i, entry : checkpoints' = With(checkpoints, i, entry) /\ entry.result = result /\ entry.key = BillOf(x)
    <2>e. PICK e : e = [key |-> BillOf(x), result |-> result]
        BY Zenon
    <2>1. e.result = result /\ e.key = BillOf(x)
        BY <2>e, Zenon
    <2>2. checkpoints' = With(checkpoints, Slot(p), e)
        BY <1>x, <1>r, <1>1, <2>e, Zenon DEF Save
    <2>. QED
        BY <2>1, <2>2, Zenon
<1>3. reports' = reports /\ UNCHANGED ledger
    BY Zenon DEF Save
<1>4. HonestFiles(checkpoints', reports', bills, repeated)
    <2>2. ASSUME NEW j \in DOMAIN checkpoints'
          PROVE  Honest(checkpoints'[j].result, checkpoints'[j].key, bills, repeated)
        <3>1. CASE j = i
            <4>1. checkpoints'[j] = entry
                BY <1>2, <3>1, Zenon DEF With
            <4>. QED
                BY <1>1, <1>2, <4>1, Zenon
        <3>2. CASE j # i
            <4>1. j \in DOMAIN checkpoints /\ checkpoints'[j] = checkpoints[j]
                BY <1>2, <3>2, Zenon DEF With
            <4>. QED
                BY <4>1, Zenon DEF Priced, HonestFiles
        <3>. QED
            BY <3>1, <3>2, Zenon
    <2>. QED
        BY <1>3, <2>2, Zenon DEF Priced, HonestFiles
<1>5. ASSUME NEW k, Kept(k, checkpoints', reports') PROVE Kept(k, checkpoints, reports) \/ Has(runner[p], k)
    <2>1. CASE \E f \in DOMAIN reports : Lists(reports[f], k)
        BY <2>1, Zenon DEF Kept
    <2>2. ASSUME NEW j \in DOMAIN checkpoints', checkpoints'[j].key = k
          PROVE  Kept(k, checkpoints, reports) \/ Has(runner[p], k)
        <3>1. CASE j = i
            <4>1. checkpoints'[j] = entry
                BY <1>2, <3>1, Zenon DEF With
            <4>. QED
                BY <1>x, <1>1, <1>2, <2>2, <4>1, Zenon
        <3>2. CASE j # i
            <4>1. j \in DOMAIN checkpoints /\ checkpoints'[j] = checkpoints[j]
                BY <1>2, <3>2, Zenon DEF With
            <4>. QED
                BY <2>2, <4>1, Zenon DEF Kept
        <3>. QED
            BY <3>1, <3>2, Zenon
    <2>. QED
        BY <1>3, <1>5, <2>1, <2>2, Zenon DEF Kept
<1>6. PICK next : /\ Go(p, next) /\ Counted(next, bills, repeated) /\ next.pc # "review"
                  /\ \A k : Has(next, k) => Lists(x, k) \/ k = BillOf(x)
    <2>1. Done(p, result) /\ runner[p] = x
        BY <1>x, <1>r, Zenon DEF Save
    <2>. QED
        BY <1>1, <2>1, DoneCounted, Zenon
<1>7. \A k : Has(next, k) => Has(runner[p], k)
    BY <1>x, <1>1, <1>6, Zenon DEF Has
<1>. QED
    BY <1>3, <1>4, <1>5, <1>6, <1>7, FreeCarry, Zenon

\* A report adds up honest results.
LEMMA WriteReportPriced ==
    ASSUME Sure, Priced, NEW p \in Runners, WriteReport(p)
    PROVE  Priced'
<1>x. PICK x \in Process : x = runner[p]
    BY Zenon DEF Sure
<1>1. Counted(x, bills, repeated) /\ x.pc = "report"
    BY <1>x, Zenon DEF Priced, WriteReport, At
<1>2. PICK f, report : /\ reports' = With(reports, f, report) /\ report.results = x.results
                       /\ report.dataset = x.dataset /\ report.settings = x.settings
                       /\ report.routes = x.routes /\ report.tokens = Totals(x.results, x.routes)
    <2>1. /\ Report(p).results = x.results /\ Report(p).tokens = Totals(x.results, x.routes)
          /\ Report(p).dataset = x.dataset /\ Report(p).settings = x.settings /\ Report(p).routes = x.routes
        BY <1>x, Zenon DEF Report
    <2>. QED
        BY <2>1, Zenon DEF WriteReport
<1>3. UNCHANGED ledger /\ checkpoints' = checkpoints
    BY Zenon DEF WriteReport
<1>4. \A j : KeyOf(report, j) = KeyOf(x, j)
    BY <1>2, Zenon DEF KeyOf
<1>5. Results(report, bills, repeated) /\ \A k : Lists(report, k) => Lists(x, k)
    BY <1>1, <1>2, <1>4, Zenon DEF Counted, Results, Lists
<1>6. ASSUME NEW g \in DOMAIN reports' PROVE reports'[g] = report \/ (g \in DOMAIN reports /\ reports'[g] = reports[g])
    BY <1>2, Zenon DEF With
<1>7. HonestFiles(checkpoints', reports', bills, repeated)
    <2>1. ASSUME NEW g \in DOMAIN reports'
          PROVE  /\ reports'[g].tokens = Totals(reports'[g].results, reports'[g].routes)
                 /\ Results(reports'[g], bills, repeated)
        <3>1. CASE reports'[g] = report
            <4>1. report.tokens = Totals(report.results, report.routes)
                BY <1>2, Zenon
            <4>. QED
                BY <1>5, <3>1, <4>1, Zenon
        <3>2. CASE g \in DOMAIN reports /\ reports'[g] = reports[g]
            BY <3>2, Zenon DEF Priced, HonestFiles
        <3>. QED
            BY <1>6, <3>1, <3>2, Zenon
    <2>. QED
        BY <1>3, <2>1, Zenon DEF Priced, HonestFiles
<1>8. ASSUME NEW k, Kept(k, checkpoints', reports') PROVE Kept(k, checkpoints, reports) \/ Has(runner[p], k)
    <2>1. CASE \E i \in DOMAIN checkpoints : checkpoints[i].key = k
        BY <2>1, Zenon DEF Kept
    <2>2. ASSUME NEW g \in DOMAIN reports', Lists(reports'[g], k)
          PROVE  Kept(k, checkpoints, reports) \/ Has(runner[p], k)
        <3>1. CASE reports'[g] = report
            BY <1>x, <1>5, <2>2, <3>1, Zenon DEF Has
        <3>2. CASE g \in DOMAIN reports /\ reports'[g] = reports[g]
            BY <2>2, <3>2, Zenon DEF Kept
        <3>. QED
            BY <1>6, <3>1, <3>2, Zenon
    <2>. QED
        BY <1>3, <1>8, <2>1, <2>2, Zenon DEF Kept
<1>9. PICK next : Go(p, next) /\ (next = Idle \/ next = [x EXCEPT !.files = Tail(@)])
    BY <1>x, Zenon DEF WriteReport
<1>10. Counted(next, bills, repeated) /\ next.pc # "review" /\ \A k : Has(next, k) => Has(runner[p], k)
    <2>1. CASE next = Idle
        BY <2>1, IdleCounted, Zenon
    <2>2. CASE next = [x EXCEPT !.files = Tail(@)]
        <3>1. /\ next.pc = x.pc /\ next.results = x.results /\ next.usage = x.usage /\ next.before = x.before
              /\ next.dataset = x.dataset /\ next.settings = x.settings
            BY <2>2, Zenon DEF Process
        <3>2. \A j : KeyOf(next, j) = KeyOf(x, j)
            BY <3>1, Zenon DEF KeyOf
        <3>3. Counted(next, bills, repeated)
            BY <1>1, <3>1, <3>2, Zenon DEF Counted, Results
        <3>. QED
            BY <1>x, <1>1, <3>1, <3>2, <3>3, Zenon DEF Has, Lists
    <2>. QED
        BY <1>9, <2>1, <2>2, Zenon
<1>. QED
    BY <1>3, <1>7, <1>8, <1>9, <1>10, FreeCarry, Zenon

\* A process begins with nothing on its meter.
LEMMA StartPriced ==
    ASSUME Sure, Priced, NEW p \in Runners, NEW selection \in Selections, NEW order \in Orders,
           NEW resume \in BOOLEAN, NEW retry \in BOOLEAN, Start(p, selection, order, resume, retry)
    PROVE  Priced'
<1>1. PICK dataset, routes, todo :
         Go(p, [Idle EXCEPT !.pc = "load", !.resume = resume, !.retry = retry, !.settings = settings,
                            !.dataset = dataset, !.routes = routes, !.todo = todo])
    BY Zenon DEF Start
<1>. DEFINE next == [Idle EXCEPT !.pc = "load", !.resume = resume, !.retry = retry, !.settings = settings,
                                 !.dataset = dataset, !.routes = routes, !.todo = todo]
<1>2. next.pc = "load" /\ next.results = Idle.results /\ next.usage = Idle.usage /\ next.before = Idle.before
    BY Zenon DEF Idle
<1>3. Go(p, next)
    BY <1>1, Zenon
<1>. HIDE DEF next
<1>4. DOMAIN next.results = {}
    <2>1. Idle.results = <<>>
        BY Zenon DEF Idle
    <2>. QED
        BY <1>2, <2>1, SMT
<1>5. Counted(next, bills, repeated) /\ \A k : ~Has(next, k)
    <2>1. Metering(Idle.usage) /\ Metering(Idle.before)
        BY IdleCounted, Zenon DEF Counted
    <2>. QED
        BY <1>2, <1>4, <2>1, Zenon DEF Counted, Results, Has, Lists
<1>6. /\ UNCHANGED ledger /\ HonestFiles(checkpoints', reports', bills, repeated)
      /\ \A k : Kept(k, checkpoints', reports') => Kept(k, checkpoints, reports)
    BY Zenon DEF Start, Priced
<1>7. next.pc # "review"
    BY <1>2, Zenon
<1>. QED
    BY <1>3, <1>5, <1>6, <1>7, FreeCarry, Zenon

\* A process ends, and may be charged for what it does not learn of.
LEMMA EndsPriced ==
    ASSUME Sure, Priced, NEW p \in Runners, Ends(p)
    PROVE  Priced'
<1>1. Go(p, Idle) /\ UNCHANGED <<checkpoints, reports>>
    BY Zenon DEF Ends
<1>2. CASE UNCHANGED ledger
    <2>1. /\ HonestFiles(checkpoints', reports', bills, repeated)
          /\ \A k : Kept(k, checkpoints', reports') => Kept(k, checkpoints, reports)
        BY <1>1, Zenon DEF Priced
    <2>2. Counted(Idle, bills, repeated) /\ Idle.pc # "review" /\ \A k : ~Has(Idle, k)
        BY IdleCounted, Zenon
    <2>. QED
        BY <1>1, <1>2, <2>1, <2>2, FreeCarry, Zenon
<1>3. CASE At(p, "review") /\ Charge(p, 1)
    <2>c. PICK cost \in {0, 1} : cost = 1
        BY Zenon
    <2>1. Charge(p, cost) /\ At(p, "review")
        BY <1>3, <2>c, Zenon
    <2>2. Counted(Idle, bills', repeated') /\ \A k : ~Has(Idle, k) /\ ~Asks(Idle, k)
        BY IdleCounted, Zenon
    <2>. QED
        BY <1>1, <2>1, <2>2, ChargedCarry, Zenon
<1>. QED
    BY <1>2, <1>3, Zenon DEF Ends

\* An edit costs nothing, and neither does waiting.
LEMMA RestPriced ==
    ASSUME Priced, Edit \/ UNCHANGED vars
    PROVE  Priced'
<1>1. runner' = runner /\ checkpoints' = checkpoints /\ reports' = reports /\ UNCHANGED ledger
    BY Zenon DEF Edit, vars
<1>2. bills' = bills /\ repeated' = repeated
    BY <1>1, Zenon DEF ledger
<1>. QED
    BY <1>1, <1>2, Zenon DEF Priced

\* No costs at first.
LEMMA InitPriced == Init => Priced
<1>. SUFFICES ASSUME Init PROVE Priced
    OBVIOUS
<1>1. DOMAIN checkpoints = {} /\ DOMAIN reports = {} /\ DOMAIN bills = {}
    BY SMT DEF Init
<1>2. \A p \in Runners : runner[p] = Idle
    BY Zenon DEF Init
<1>3. \A p \in Runners : Counted(runner[p], bills, repeated) /\ \A k : ~Asks(runner[p], k)
    BY <1>2, IdleCounted, Zenon
<1>. QED
    BY <1>1, <1>3, Zenon DEF Priced, HonestFiles, Alone, Amounts

\* Every step keeps it.
LEMMA StepPriced == Sure /\ Priced /\ [Next]_vars => Priced'
<1>. SUFFICES ASSUME Sure, Priced, [Next]_vars PROVE Priced'
    OBVIOUS
<1>1. \A x \in Invocations : x[1] \in Selections /\ x[2] \in Orders
    BY Zenon DEF Selections, Orders
<1>. QED
    BY <1>1, StartPriced, EndsPriced, LoadPriced, ReviewPriced, SavePriced, WriteReportPriced, RestPriced, Zenon DEF Next

TokensOf(results, S) == MapThenSumSet(LAMBDA x : results[x].tokens, S)
ChargesOf(r, B, S) == MapThenSumSet(LAMBDA x : B[KeyOf(r, x)], S)

\* What is equal one by one adds up to the same.
LEMMA SumsEqual ==
    ASSUME NEW S, NEW r, NEW B, \A x \in S : r.results[x].tokens = B[KeyOf(r, x)]
    PROVE  TokensOf(r.results, S) = ChargesOf(r, B, S)
<1>. DEFINE F(g) == [s \in SUBSET S |-> IF s = {} THEN 0
                        ELSE r.results[CHOOSE x \in s : TRUE].tokens + g[s \ {CHOOSE x \in s : TRUE}]]
            H(g) == [s \in SUBSET S |-> IF s = {} THEN 0
                        ELSE B[KeyOf(r, CHOOSE x \in s : TRUE)] + g[s \ {CHOOSE x \in s : TRUE}]]
<1>1. TokensOf(r.results, S) = (CHOOSE g : g = F(g))[S]
    BY DEF TokensOf, MapThenSumSet, MapThenFoldSet
<1>2. ChargesOf(r, B, S) = (CHOOSE g : g = H(g))[S]
    BY Zenon DEF ChargesOf, MapThenSumSet, MapThenFoldSet
<1>3. ASSUME NEW g PROVE F(g) = H(g)
    <2>1. ASSUME NEW s \in SUBSET S
          PROVE  (IF s = {} THEN 0 ELSE r.results[CHOOSE x \in s : TRUE].tokens + g[s \ {CHOOSE x \in s : TRUE}])
                 = (IF s = {} THEN 0 ELSE B[KeyOf(r, CHOOSE x \in s : TRUE)] + g[s \ {CHOOSE x \in s : TRUE}])
        <3>1. CASE s = {}
            BY <3>1
        <3>2. CASE s # {}
            <4>. PICK c : c = CHOOSE x \in s : TRUE
                OBVIOUS
            <4>1. c \in s
                BY <3>2
            <4>2. r.results[c].tokens = B[KeyOf(r, c)]
                BY <4>1
            <4>. QED
                BY <3>2, <4>2, Zenon
        <3>. QED
            BY <3>1, <3>2, Zenon
    <2>. QED
        BY <2>1, Zenon
<1>. HIDE DEF F, H
<1>4. \A g : (g = F(g)) <=> (g = H(g))
    BY <1>3, Zenon
<1>5. (CHOOSE g : g = F(g)) = (CHOOSE g : g = H(g))
    BY <1>4, Zenon
<1>. QED
    BY <1>1, <1>2, <1>5, Zenon

\* A total is given for what was metered completely.
LEMMA TotalsAdd ==
    ASSUME NEW r, NEW routes, NEW route \in DOMAIN Totals(r, routes)
    PROVE  /\ Totals(r, routes)[route] = TokensOf(r, Of(r, route))
           /\ \A x \in Of(r, route) : r[x].status # "unavailable"
<1>1. Totals(r, routes)[route] = TokensOf(r, Of(r, route))
    BY DEF Totals, TokensOf
<1>2. \A x \in Of(r, route) : r[x].status # "unavailable"
    BY DEF Totals
<1>. QED
    BY <1>1, <1>2, Zenon

\* So every total is what was charged, where no review was begun again.
LEMMA PricedReal == Priced => CostReal
<1>. SUFFICES ASSUME Priced PROVE CostReal
    OBVIOUS
<1>1. ASSUME NEW f \in DOMAIN reports, NEW x \in DOMAIN reports[f].results,
             reports[f].results[x].status # "unavailable"
      PROVE  /\ reports[f].results[x].tokens <= bills[KeyOf(reports[f], x)]
             /\ KeyOf(reports[f], x) \notin repeated =>
                   reports[f].results[x].tokens = bills[KeyOf(reports[f], x)]
    BY <1>1, Zenon DEF Priced, HonestFiles, Results, Honest
<1>2. ASSUME NEW f \in DOMAIN reports, NEW route \in DOMAIN reports[f].tokens,
             \A x \in Of(reports[f].results, route) : KeyOf(reports[f], x) \notin repeated
      PROVE  reports[f].tokens[route] = ChargesOf(reports[f], bills, Of(reports[f].results, route))
    <2>r. PICK r : r = reports[f]
        BY Zenon
    <2>1. r.tokens = Totals(r.results, r.routes)
        BY <2>r, Zenon DEF Priced, HonestFiles
    <2>2. /\ Totals(r.results, r.routes)[route] = TokensOf(r.results, Of(r.results, route))
          /\ \A x \in Of(r.results, route) : r.results[x].status # "unavailable"
        <3>1. route \in DOMAIN Totals(r.results, r.routes)
            BY <1>2, <2>1, <2>r, Zenon
        <3>. QED
            BY <3>1, TotalsAdd, Zenon
    <2>3. \A x \in Of(r.results, route) : x \in DOMAIN r.results
        BY Zenon DEF Of
    <2>4. \A x \in Of(r.results, route) : r.results[x].tokens = bills[KeyOf(r, x)]
        BY <1>1, <1>2, <2>2, <2>3, <2>r, Zenon
    <2>b. PICK B : B = bills
        BY Zenon
    <2>5. TokensOf(r.results, Of(r.results, route)) = ChargesOf(r, B, Of(r.results, route))
        BY <2>4, <2>b, SumsEqual, Zenon
    <2>. QED
        BY <2>1, <2>2, <2>5, <2>b, <2>r, Zenon
<1>. QED
    BY <1>1, <1>2 DEF CostReal, ChargesOf

-----------------------------------------------------------------------------
(* The theorems. *)

\* Every result of a report is of the content and the settings the report
\* names, whatever was edited, resumed or running at the same time.
THEOREM ReportsTrue == Spec => []ReportTrue
<1>1. Sure => ReportTrue
    BY Zenon DEF Sure
<1>. QED
    BY <1>1, SureAlways, PTL

\* What a report gives for a case was charged for it, and a total it gives for a
\* route is everything the provider ever charged for its cases, unless a review
\* was begun again: whatever calls failed, were repaired or were answered without
\* usage, in this invocation or in those it resumes.
THEOREM CostsAreReal == Spec => []CostReal
<1>1. Spec => []Priced
    BY InitPriced, StepPriced, SureAlways, PTL DEF Spec
<1>. QED
    BY <1>1, PricedReal, PTL

\* Mishaps are counted.
LEMMA MishapsCounted == Spec => [](mishaps \in Nat)
<1>1. Init => mishaps \in Nat
    BY SMT DEF Init
<1>2. mishaps \in Nat /\ [Next]_vars => (mishaps \in Nat)'
    <2>. SUFFICES ASSUME mishaps \in Nat, [Next]_vars PROVE mishaps' \in Nat
        OBVIOUS
    <2>1. Mishap => mishaps' \in Nat
        BY SMT DEF Mishap
    <2>2. UNCHANGED mishaps \/ Mishap
        BY Zenon DEF Next, vars, Start, Load, LocalReview, CallFails, CallAnswers, Save, WriteReport, Ends, Edit
    <2>. QED
        BY <2>1, <2>2, Zenon
<1>. QED
    BY <1>1, <1>2, PTL DEF Spec

\* A review is repeated only for what the checkpoint does not hold, or holds as
\* a failure that is to be retried.
LEMMA StepPaid ==
    ASSUME Sure, mishaps \in Nat, [Next]_vars, NEW p \in Runners, At(p, "load"), runner'[p].pc = "review",
           runner[p].resume, Item(p) \in DOMAIN saved, saved[Item(p)].key = Key(p), UNCHANGED mishaps
    PROVE  runner[p].retry /\ ~saved[Item(p)].success
<1>0. mishaps' = mishaps /\ mishaps \in Nat
    BY Zenon
<1>1. Load(p)
    <2>0. runner \in [Runners -> Process] /\ runner[p].pc = "load"
        BY Zenon DEF Sure, At
    <2>1. ASSUME NEW q \in Runners, NEW next, Go(q, next) PROVE q = p /\ next.pc = "review"
        <3>1. runner'[q] = next /\ (q # p => runner'[p] = runner[p])
            BY <2>0, <2>1, Zenon DEF Go
        <3>. QED
            BY <2>0, <3>1, Zenon
    <2>2. PICK q \in Runners :
             \/ \E x \in Invocations, resume, retry \in BOOLEAN : Start(q, x[1], x[2], resume, retry)
             \/ Load(q) \/ LocalReview(q) \/ CallFails(q)
             \/ \E metered, valid \in BOOLEAN : CallAnswers(q, metered, valid)
             \/ Save(q) \/ WriteReport(q) \/ Ends(q)
        <3>1. runner' # runner
            BY <2>0, Zenon
        <3>. QED
            BY <3>1, Zenon DEF Next, vars, Edit
    <2>3. \E next : Go(q, next)
        <3>1. ASSUME NEW result, Done(q, result) PROVE \E next : Go(q, next)
            BY <3>1, Zenon DEF Done
        <3>2. ASSUME NEW u, NEW success, Reviewed(q, u, success) PROVE \E next : Go(q, next)
            BY <3>2, Zenon DEF Reviewed
        <3>3. ASSUME NEW selection, NEW order, NEW resume, NEW retry, Start(q, selection, order, resume, retry)
              PROVE  \E next : Go(q, next)
            BY <3>3, Zenon DEF Start
        <3>4. Load(q) => \E next : Go(q, next)
            BY <3>1, Zenon DEF Load, Begin
        <3>5. LocalReview(q) \/ CallFails(q) => \E next : Go(q, next)
            BY <3>2, Zenon DEF LocalReview, CallFails, Again
        <3>6. ASSUME NEW metered, NEW valid, CallAnswers(q, metered, valid) PROVE \E next : Go(q, next)
            BY <3>2, <3>6, Zenon DEF CallAnswers, Again
        <3>7. Save(q) \/ WriteReport(q) \/ Ends(q) => \E next : Go(q, next)
            BY <3>1, Zenon DEF Save, WriteReport, Ends
        <3>. QED
            BY <2>2, <3>3, <3>4, <3>5, <3>6, <3>7, Zenon
    <2>4. q = p
        BY <2>1, <2>3, Zenon
    <2>5. ~Ends(p)
        <3>1. Idle.pc = "idle"
            BY Zenon DEF Idle
        <3>. QED
            BY <2>1, <3>1, Zenon DEF Ends
    <2>. QED
        <3>1. ~(\E x \in Invocations, resume, retry \in BOOLEAN : Start(p, x[1], x[2], resume, retry))
            BY <2>0, Zenon DEF At, Start
        <3>2. ~LocalReview(p) /\ ~CallFails(p) /\ ~(\E metered, valid \in BOOLEAN : CallAnswers(p, metered, valid))
            BY <2>0, Zenon DEF At, LocalReview, CallFails, CallAnswers
        <3>3. ~Save(p) /\ ~WriteReport(p)
            BY <2>0, Zenon DEF At, Save, WriteReport
        <3>. QED
            BY <2>2, <2>4, <2>5, <3>1, <3>2, <3>3, Zenon
<1>2. ~Reusable(p)
    <2>x. PICK x \in Process : x = runner[p]
        BY Zenon DEF Sure
    <2>1. ASSUME NEW result, Done(p, result) PROVE FALSE
        <3>. PICK rest : rest = Tail(x.todo)
            BY Zenon
        <3>. PICK res, u, pc, files :
                /\ Go(p, [x EXCEPT !.pc = pc, !.todo = rest, !.results = res, !.result = NoResult,
                                   !.usage = u, !.files = files])
                /\ pc = (IF rest = <<>> THEN "report" ELSE "load")
            BY <2>x, <2>1, Zenon DEF Done
        <3>. DEFINE next == [x EXCEPT !.pc = pc, !.todo = rest, !.results = res, !.result = NoResult,
                                      !.usage = u, !.files = files]
        <3>1. next.pc = pc /\ Go(p, next) /\ pc # "review"
            BY Zenon DEF Process
        <3>. HIDE DEF next
        <3>. QED
            BY <3>1, Zenon DEF Go, Sure
    <2>2. ~Mishap
        <3>1. ASSUME Mishap PROVE FALSE
            BY <1>0, <3>1, SMT DEF Mishap
        <3>. QED
            BY <3>1, Zenon
    <2>. QED
        BY <1>1, <2>1, <2>2, Zenon DEF Load
<1>3. Item(p) \in DOMAIN checkpoints /\ checkpoints[Item(p)].key = Key(p)
      /\ saved[Item(p)].success = checkpoints[Item(p)].result.success
    BY Zenon DEF Sure, Filed
<1>. QED
    BY <1>2, <1>3, Zenon DEF Reusable, Slot

\* No run pays again for what it finds saved.
THEOREM ReviewsPaidOnce == Spec => PaidOnce
<1>1. Sure /\ mishaps \in Nat /\ [Next]_vars =>
        [\A p \in Runners :
            (At(p, "load") /\ runner'[p].pc = "review" /\ runner[p].resume /\ Item(p) \in DOMAIN saved
               /\ saved[Item(p)].key = Key(p) /\ UNCHANGED mishaps)
            => runner[p].retry /\ ~saved[Item(p)].success]_vars
    BY StepPaid
<1>. QED
    BY <1>1, SureAlways, MishapsCounted, PTL DEF Spec, PaidOnce

=============================================================================
