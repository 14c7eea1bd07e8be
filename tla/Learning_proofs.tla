-------------------------- MODULE Learning_proofs --------------------------
(***************************************************************************)
(* For any numbers of requests, reports, versions and mishaps, and any     *)
(* score: what a chain serves, what may serve, what counts as learned,     *)
(* what takes over, and what the process reviews with.                     *)
(***************************************************************************)
EXTENDS Learning, WellFoundedInduction, SequenceTheorems, TLAPS

Case == [kind : Kinds, rule : Names, resolved : BOOLEAN]

Thread == [pc : Stages, chain : Chains, auto : BOOLEAN, used : SUBSET (1..MaxReports),
           cand : SUBSET Lessons, base : 0..MaxVersions, parent : 0..MaxVersions,
           decision : {"none", "activated", "rejected", "deferred"},
           version : 0..MaxVersions, snap : SUBSET (1..MaxVersions)]

Tables ==
    /\ backend \in Backends
    /\ versions \in [Chains -> Seq(Row)]
    /\ \A c \in Chains : Len(versions[c]) <= MaxVersions
    /\ evolved \in [Chains -> SUBSET (1..MaxVersions)]
    /\ feedback \in Seq(Case) /\ Len(feedback) <= MaxReports
    /\ lock \in [Chains -> Requests \cup {NoOne}]
    /\ last \in [Chains -> 0..MaxVersions]

\* What version v of chain c was measured for, and won.
Winner(c, v) == v \in DOMAIN versions[c] /\ versions[c][v].won

\* A lesson some winner holds.
Taught(k) == \E c \in Chains : \E v \in DOMAIN versions[c] :
                 versions[c][v].won /\ Reflects(c, versions[c][v].content, k)

\* What a request x carries is true of the tables, whoever else writes to them.
Carried == {"waiting", "evaluating", "decided", "parented"}
Knows(x) ==
    /\ \A k \in x.used : k \in DOMAIN feedback
    /\ x.pc \in Carried => \A k \in x.used : Reflects(x.chain, x.cand, k)
    /\ x.pc = "saved" =>
          /\ x.version \in DOMAIN versions[x.chain]
          /\ x.decision = "activated" => versions[x.chain][x.version].won
          /\ \A k \in x.used : Reflects(x.chain, versions[x.chain][x.version].content, k)
    /\ x.pc = "resolving" => \A k \in x.used : Taught(k)
    /\ x.pc = "clearing" =>
          /\ backend = "postgres"
          /\ x.version \in DOMAIN versions[x.chain]
          /\ x.chain = "skill" => versions[x.chain][x.version].won

\* What request r, at x, knows because it holds the lock of its chain.
Measuring == {"evaluating", "decided", "parented"}
Holds(r, x) ==
    /\ x.pc \in Measuring \cup {"saved"} => lock[x.chain] = r
    /\ x.pc \in Measuring /\ x.chain = "prompt" => x.base = last["prompt"]
    /\ x.pc = "parented" /\ x.chain = "prompt" => x.parent = last["prompt"]
    /\ x.pc \in {"decided", "parented"} /\ x.chain = "prompt" /\ x.decision = "activated" =>
          Improved(x.cand, Content("prompt", x.base))
    /\ x.pc = "clearing" /\ x.chain = "prompt" =>
          lock["prompt"] = r /\ x.snap = DOMAIN versions["prompt"]

Books ==
    /\ Tables
    /\ \A c \in Chains : \A v \in evolved[c] : Winner(c, v)
    /\ LastActivationWins /\ OnlyWinnersServe /\ ResolvedIsLearned

Sure ==
    /\ Books
    /\ thr \in [Requests -> Thread]
    /\ \A r \in Requests : Knows(thr[r])
    /\ \A r \in Requests : Holds(r, thr[r])

\* Versions and cases are added; of a version only its activity changes, of a
\* case only whether it is resolved.
Grows ==
    /\ backend' = backend
    /\ \A c \in Chains : \A v \in DOMAIN versions[c] :
          /\ v \in DOMAIN versions'[c]
          /\ versions'[c][v].content = versions[c][v].content
          /\ versions'[c][v].won = versions[c][v].won
    /\ \A k \in DOMAIN feedback :
          /\ k \in DOMAIN feedback'
          /\ feedback'[k].kind = feedback[k].kind
          /\ feedback'[k].rule = feedback[k].rule

-----------------------------------------------------------------------------
(* What the store answers. *)

Less == {pair \in Nat \X Nat : pair[1] < pair[2]}

\* Some number of a set is the least.
LEMMA Least ==
    ASSUME NEW S \in SUBSET Nat, S # {}
    PROVE  \E m \in S : \A k \in S : m <= k
<1>1. IsWellFoundedOn(OpToRel(<, Nat), Nat)
    BY NatLessThanWellFounded, Zenon
<1>2. IsWellFoundedOn(Less, Nat)
    BY <1>1, Zenon DEF OpToRel, Less
<1>3. PICK m \in S : \A k \in S : <<k, m>> \notin Less
    <2>1. \A R, T, U : IsWellFoundedOn(R, T) /\ U \subseteq T /\ U # {} =>
             \E x \in U : \A y \in U : ~(<<y, x>> \in R)
        BY WFMin, Zenon
    <2>. QED
        BY <2>1, <1>2, Zenon
<1>4. ASSUME NEW k \in S PROVE m <= k
    <2>1. k \in Nat /\ m \in Nat /\ <<k, m>> \notin Less
        BY <1>3, Zenon
    <2>2. k < m => <<k, m>> \in Less
        BY <2>1, Zenon DEF Less
    <2>. QED
        BY <2>1, <2>2, SMT
<1>. QED
    BY <1>4, Zenon

\* The rows of a chain are numbered from 1.
LEMMA RowTypes ==
    ASSUME Tables, NEW c \in Chains
    PROVE  /\ versions[c] \in Seq(Row)
           /\ DOMAIN versions[c] = 1..Len(versions[c])
           /\ Len(versions[c]) \in Nat /\ Len(versions[c]) <= MaxVersions
           /\ \A v \in DOMAIN versions[c] : versions[c][v] \in Row
<1>1. versions[c] \in Seq(Row) /\ Len(versions[c]) <= MaxVersions
    BY Zenon DEF Tables
<1>. QED
    BY <1>1, SMT

\* Prompts serve one version, the one activated last.
LEMMA ServingIsLast ==
    ASSUME LastActivationWins, Tables
    PROVE  Serving("prompt") = last["prompt"]
<1>. DEFINE A == Active("prompt")
<1>1. A = {last["prompt"]} \ {0}
    BY Zenon DEF LastActivationWins, Chains
<1>2. last["prompt"] \in Nat
    BY LearningAssumption, SMT DEF Tables, Chains
<1>3. CASE last["prompt"] = 0
    BY <1>1, <1>3, Zenon DEF Serving
<1>4. CASE last["prompt"] # 0
    <2>1. A = {last["prompt"]}
        BY <1>1, <1>4, Zenon
    <2>2. \A w \in A : w <= last["prompt"]
        BY <2>1, <1>2, SMT
    <2>. DEFINE m == CHOOSE v \in A : \A w \in A : w <= v
    <2>3. m \in A
        BY <2>1, <2>2, Zenon
    <2>4. Serving("prompt") = m
        BY <2>1, Zenon DEF Serving
    <2>. QED
        BY <2>1, <2>3, <2>4, Zenon
<1>. QED
    BY <1>3, <1>4, Zenon

\* A chain serves one of its versions, or none.
LEMMA ServingReal ==
    ASSUME Tables, NEW c \in Chains
    PROVE  /\ Serving(c) \in 0..Len(versions[c])
           /\ Serving(c) # 0 => Serving(c) \in Active(c)
           /\ Serving(c) \in 0..MaxVersions
<1>. DEFINE A == Active(c)
            n == Len(versions[c])
<1>0. n \in Nat /\ n <= MaxVersions /\ MaxVersions \in Nat
    BY RowTypes, LearningAssumption, Zenon
<1>1. A \subseteq 1..n
    BY RowTypes, Zenon DEF Active
<1>2. CASE A = {}
    BY <1>0, <1>2, SMT DEF Serving
<1>3. CASE A # {}
    <2>. DEFINE D == {d \in 0..n : n - d \in A}
    <2>1. PICK v \in A : TRUE
        BY <1>3, Zenon
    <2>2. n - v \in D /\ D \in SUBSET Nat
        BY <1>0, <1>1, SMT
    <2>. HIDE DEF D
    <2>3. PICK d \in D : \A e \in D : d <= e
        BY <2>2, Least, Zenon
    <2>4. n - d \in A /\ d \in 0..n
        BY <2>3, Zenon DEF D
    <2>5. \A w \in A : w <= n - d
        <3>. SUFFICES ASSUME NEW w \in A PROVE w <= n - d
            OBVIOUS
        <3>1. w \in 1..n
            BY <1>1, Zenon
        <3>. HIDE DEF A, n
        <3>2. n - w \in 0..n /\ n - (n - w) = w
            BY <3>1, <1>0, SMT
        <3>3. n - w \in D
            BY <3>2, Zenon DEF D
        <3>. QED
            BY <3>1, <3>3, <2>3, <2>4, <1>0, SMT
    <2>. DEFINE m == CHOOSE x \in A : \A w \in A : w <= x
    <2>6. m \in A
        BY <2>4, <2>5, Zenon
    <2>7. Serving(c) = m
        BY <1>3, Zenon DEF Serving
    <2>8. m \in 1..n
        BY <2>6, <1>1, Zenon
    <2>. HIDE DEF m, n
    <2>9. m \in 0..n /\ m \in 0..MaxVersions
        BY <2>8, <1>0, SMT
    <2>. QED
        BY <2>6, <2>7, <2>9, Zenon DEF n
<1>. QED
    BY <1>2, <1>3, Zenon

\* Activating a version touches the activity of rows only.
LEMMA ActivateKeeps ==
    ASSUME NEW rows \in Seq(Row), NEW seen, NEW v
    PROVE  /\ ActivateRow(rows, seen, v) \in Seq(Row)
           /\ Len(ActivateRow(rows, seen, v)) = Len(rows)
<1>. DEFINE n == Len(rows)
            new == ActivateRow(rows, seen, v)
<1>1. n \in Nat /\ DOMAIN rows = 1..n /\ \A w \in 1..n : rows[w] \in Row
    BY SMT
<1>2. new = [w \in 1..n |-> [rows[w] EXCEPT !.active = (w = v) \/ (@ /\ w \notin seen)]]
    BY <1>1, Zenon DEF ActivateRow
<1>3. ASSUME NEW w \in 1..n PROVE new[w] \in Row
    <2>1. rows[w] \in Row
        BY <1>1
    <2>2. new[w] = [rows[w] EXCEPT !.active = (w = v) \/ (@ /\ w \notin seen)]
        BY <1>2, Zenon
    <2>. HIDE DEF new
    <2>. QED
        BY <2>1, <2>2, Zenon DEF Row
<1>4. new \in [1..n -> Row]
    BY <1>2, <1>3, Zenon
<1>. HIDE DEF new
<1>. QED
    BY <1>1, <1>4, SMT DEF new

\* Contents and results of gates stay.
LEMMA ActivateSame ==
    ASSUME NEW rows \in Seq(Row), NEW seen, NEW v, NEW w \in DOMAIN rows
    PROVE  /\ ActivateRow(rows, seen, v)[w].content = rows[w].content
           /\ ActivateRow(rows, seen, v)[w].won = rows[w].won
<1>1. rows[w] \in Row
    BY SMT
<1>2. ActivateRow(rows, seen, v)[w] = [rows[w] EXCEPT !.active = (w = v) \/ (@ /\ w \notin seen)]
    BY Zenon DEF ActivateRow
<1>. QED
    BY <1>1, <1>2, Zenon DEF Row

\* The version activated is active, and of the others those that were and were
\* not seen.
LEMMA ActivateClears ==
    ASSUME NEW rows \in Seq(Row), NEW seen, NEW v, NEW w \in DOMAIN rows
    PROVE  ActivateRow(rows, seen, v)[w].active <=> w = v \/ (rows[w].active /\ w \notin seen)
<1>1. rows[w] \in Row
    BY SMT
<1>2. ActivateRow(rows, seen, v)[w] = [rows[w] EXCEPT !.active = (w = v) \/ (@ /\ w \notin seen)]
    BY Zenon DEF ActivateRow
<1>. QED
    BY <1>1, <1>2, Zenon DEF Row

\* A new row comes last.
LEMMA InsertAdds ==
    ASSUME NEW rows \in Seq(Row), NEW content \in SUBSET Lessons, NEW parent \in 0..MaxVersions,
           NEW activate \in BOOLEAN
    PROVE  /\ InsertRow(rows, content, parent, activate) \in Seq(Row)
           /\ Len(InsertRow(rows, content, parent, activate)) = Len(rows) + 1
           /\ \A w \in 1..Len(rows) :
                 /\ InsertRow(rows, content, parent, activate)[w].content = rows[w].content
                 /\ InsertRow(rows, content, parent, activate)[w].won = rows[w].won
           /\ InsertRow(rows, content, parent, activate)[Len(rows) + 1] =
                 [content |-> content, active |-> activate, parent |-> parent, won |-> activate]
<1>. DEFINE n == Len(rows)
            old == [w \in DOMAIN rows |-> [rows[w] EXCEPT !.active = @ /\ ~activate]]
            row == [content |-> content, active |-> activate, parent |-> parent, won |-> activate]
            new == InsertRow(rows, content, parent, activate)
<1>1. n \in Nat /\ DOMAIN rows = 1..n /\ \A w \in 1..n : rows[w] \in Row
    BY SMT
<1>2. row \in Row
    BY Zenon DEF Row
<1>3. ASSUME NEW w \in 1..n
      PROVE  /\ old[w] \in Row
             /\ old[w].content = rows[w].content
             /\ old[w].won = rows[w].won
    <2>1. rows[w] \in Row
        BY <1>1
    <2>2. old[w] = [rows[w] EXCEPT !.active = @ /\ ~activate]
        BY <1>1, Zenon
    <2>. HIDE DEF old
    <2>. QED
        BY <2>1, <2>2, Zenon DEF Row
<1>4. old \in [1..n -> Row]
    BY <1>1, <1>3, Zenon
<1>5. new = Append(old, row)
    BY Zenon DEF InsertRow
<1>. HIDE DEF old, row, new
<1>6. old \in Seq(Row) /\ Len(old) = n
    BY <1>4, <1>1, SMT
<1>7. /\ new \in Seq(Row) /\ Len(new) = n + 1 /\ new[n + 1] = row
      /\ \A w \in 1..n : new[w] = old[w]
    BY <1>2, <1>5, <1>6, AppendProperties, SMT
<1>. QED
    BY <1>3, <1>7, Zenon DEF new, row

\* When it is active it clears the others.
LEMMA InsertClears ==
    ASSUME NEW rows \in Seq(Row), NEW content \in SUBSET Lessons, NEW parent \in 0..MaxVersions,
           NEW activate \in BOOLEAN, NEW w \in 1..Len(rows)
    PROVE  InsertRow(rows, content, parent, activate)[w].active <=> rows[w].active /\ activate = FALSE
<1>. DEFINE old == [x \in DOMAIN rows |-> [rows[x] EXCEPT !.active = @ /\ ~activate]]
            row == [content |-> content, active |-> activate, parent |-> parent, won |-> activate]
<1>1. Len(rows) \in Nat /\ DOMAIN rows = 1..Len(rows) /\ \A x \in 1..Len(rows) : rows[x] \in Row
    BY SMT
<1>2. row \in Row
    BY Zenon DEF Row
<1>3. old \in [1..Len(rows) -> Row]
    BY <1>1, Zenon DEF Row
<1>4. old[w].active <=> rows[w].active /\ activate = FALSE
    <2>1. rows[w] \in Row
        BY <1>1
    <2>2. old[w] = [rows[w] EXCEPT !.active = @ /\ ~activate]
        BY <1>1, Zenon
    <2>. HIDE DEF old
    <2>. QED
        BY <2>1, <2>2, Zenon DEF Row
<1>5. InsertRow(rows, content, parent, activate) = Append(old, row)
    BY Zenon DEF InsertRow
<1>. HIDE DEF old, row
<1>6. old \in Seq(Row) /\ Len(old) = Len(rows)
    BY <1>1, <1>3, SMT
<1>7. Append(old, row)[w] = old[w]
    BY <1>2, <1>6, AppendProperties, SMT
<1>. QED
    BY <1>4, <1>5, <1>7, Zenon

-----------------------------------------------------------------------------
(* What stays true of what a request carries. *)

Kept(r) ==
    /\ \A c \in Chains : lock'[c] = lock[c] \/ lock[c] \in {r, NoOne}
    /\ \/ versions'["prompt"] = versions["prompt"] /\ last'["prompt"] = last["prompt"]
       \/ lock["prompt"] \in {r, NoOne}

\* The cases of feedback are numbered from 1.
LEMMA CaseTypes ==
    ASSUME Tables
    PROVE  /\ feedback \in Seq(Case)
           /\ Len(feedback) \in Nat /\ Len(feedback) <= MaxReports
           /\ DOMAIN feedback = 1..Len(feedback)
           /\ \A k \in DOMAIN feedback : feedback[k] \in Case
<1>1. feedback \in Seq(Case) /\ Len(feedback) <= MaxReports
    BY Zenon DEF Tables
<1>. QED
    BY <1>1, SMT

\* What a content holds of a case it goes on holding.
LEMMA ReflectsStays ==
    ASSUME Tables, Grows, NEW c, NEW content, NEW k \in DOMAIN feedback, Reflects(c, content, k)
    PROVE  Reflects(c, content, k)'
<1>1. feedback'[k].kind = feedback[k].kind /\ feedback'[k].rule = feedback[k].rule
    BY Zenon DEF Grows
<1>2. ASSUME NEW j \in 1..(k - 1)
      PROVE  feedback'[j].kind = feedback[j].kind /\ feedback'[j].rule = feedback[j].rule
    <2>1. j \in DOMAIN feedback
        BY CaseTypes, SMT
    <2>. QED
        BY <2>1, Zenon DEF Grows
<1>. QED
    BY <1>1, <1>2, Zenon DEF Reflects, RuleIn

\* A lesson some winner holds, a winner goes on holding.
LEMMA TaughtStays ==
    ASSUME Tables, Grows, NEW k \in DOMAIN feedback, Taught(k)
    PROVE  Taught(k)'
<1>0. PICK c \in Chains : \E v \in DOMAIN versions[c] :
          versions[c][v].won /\ Reflects(c, versions[c][v].content, k)
    BY Zenon DEF Taught
<1>1. PICK v \in DOMAIN versions[c] :
          versions[c][v].won /\ Reflects(c, versions[c][v].content, k)
    BY <1>0, Zenon
<1>2. PICK content : content = versions[c][v].content
    BY Zenon
<1>3. Reflects(c, content, k)
    BY <1>1, <1>2, Zenon
<1>4. Reflects(c, content, k)'
    BY <1>3, ReflectsStays, Zenon
<1>5. v \in DOMAIN versions'[c] /\ versions'[c][v].won /\ versions'[c][v].content = content
    BY <1>1, <1>2, Zenon DEF Grows
<1>6. Reflects(c, versions[c][v].content, k)'
    BY <1>4, <1>5, Zenon DEF Reflects
<1>. QED
    BY <1>5, <1>6, Zenon DEF Taught

\* What a request knows does not depend on who writes next.
LEMMA KnowsStays ==
    ASSUME Tables, Grows, NEW x \in Thread, Knows(x)
    PROVE  Knows(x)'
<1>1. x.chain \in Chains
    BY Zenon DEF Thread
<1>2. \A k \in x.used : k \in DOMAIN feedback /\ k \in DOMAIN feedback'
    BY Zenon DEF Knows, Grows
<1>3. x.pc \in Carried => \A k \in x.used : Reflects(x.chain, x.cand, k)'
    BY <1>2, ReflectsStays, Zenon DEF Knows
<1>4. ASSUME x.pc = "saved"
      PROVE  /\ x.version \in DOMAIN versions'[x.chain]
             /\ x.decision = "activated" => versions'[x.chain][x.version].won
             /\ \A k \in x.used : Reflects(x.chain, versions[x.chain][x.version].content, k)'
    <2>. PICK content : content = versions[x.chain][x.version].content
        BY Zenon
    <2>1. \A k \in x.used : Reflects(x.chain, content, k)
        BY <1>4, Zenon DEF Knows
    <2>2. \A k \in x.used : Reflects(x.chain, content, k)'
        BY <2>1, <1>2, ReflectsStays, Zenon
    <2>3. x.version \in DOMAIN versions[x.chain]
        BY <1>4, Zenon DEF Knows
    <2>4. versions'[x.chain][x.version].content = content
        BY <2>3, <1>1, Zenon DEF Grows
    <2>5. \A k \in x.used : Reflects(x.chain, versions[x.chain][x.version].content, k)'
        BY <2>2, <2>4, Zenon DEF Reflects
    <2>6. x.decision = "activated" => versions'[x.chain][x.version].won
        BY <2>3, <1>1, <1>4, Zenon DEF Grows, Knows
    <2>. QED
        BY <2>3, <2>5, <2>6, <1>1, Zenon DEF Grows
<1>5. x.pc = "resolving" => \A k \in x.used : Taught(k)'
    BY <1>2, TaughtStays, Zenon DEF Knows
<1>6. x.pc = "clearing" =>
          /\ backend' = "postgres"
          /\ x.version \in DOMAIN versions'[x.chain]
          /\ x.chain = "skill" => versions'[x.chain][x.version].won
    BY <1>1, Zenon DEF Knows, Grows
<1>. QED
    BY <1>2, <1>3, <1>4, <1>5, <1>6, Zenon DEF Knows

\* What a request knows by its lock no other request disturbs.
LEMMA HoldsStays ==
    ASSUME NEW r \in Requests, Kept(r), NEW q \in Requests, q # r, NEW x \in Thread, Holds(q, x)
    PROVE  Holds(q, x)'
<1>1. x.chain \in Chains /\ "prompt" \in Chains /\ q \notin {r, NoOne}
    BY LearningAssumption, Zenon DEF Thread, Chains
<1>2. lock[x.chain] = q => lock'[x.chain] = q
    BY <1>1, Zenon DEF Kept
<1>3. lock["prompt"] = q =>
          /\ lock'["prompt"] = q
          /\ versions'["prompt"] = versions["prompt"] /\ last'["prompt"] = last["prompt"]
    BY <1>1, Zenon DEF Kept
<1>4. lock["prompt"] = q => \A v : Content("prompt", v)' = Content("prompt", v)
    BY <1>3, Zenon DEF Content
<1>5. x.pc \in Measuring \cup {"saved"} => lock[x.chain] = q /\ lock'[x.chain] = q
    BY <1>2, Zenon DEF Holds
<1>6. x.pc \in Measuring /\ x.chain = "prompt" => lock["prompt"] = q /\ x.base = last'["prompt"]
    BY <1>3, <1>5, Zenon DEF Holds
<1>7. x.pc = "parented" /\ x.chain = "prompt" => x.parent = last'["prompt"]
    BY <1>3, <1>6, Zenon DEF Holds, Measuring
<1>8. x.pc \in {"decided", "parented"} /\ x.chain = "prompt" /\ x.decision = "activated" =>
          Improved(x.cand, Content("prompt", x.base)')
    <2>1. x.pc \in {"decided", "parented"} => x.pc \in Measuring
        BY Zenon DEF Measuring
    <2>. QED
        BY <1>4, <1>6, <2>1, Zenon DEF Holds
<1>9. x.pc = "clearing" /\ x.chain = "prompt" =>
          lock'["prompt"] = q /\ x.snap = DOMAIN versions'["prompt"]
    BY <1>3, Zenon DEF Holds
<1>. QED
    BY <1>5, <1>6, <1>7, <1>8, <1>9, Zenon DEF Holds

\* A request's step is good when its write is and what it goes on with is true.
LEMMA Carry ==
    ASSUME Sure, Books', Grows, NEW r \in Requests, Kept(r), NEW next \in Thread, Go(r, next),
           Knows(next)', Holds(r, next)'
    PROVE  Sure'
<1>1. thr' \in [Requests -> Thread] /\ thr'[r] = next /\ \A q \in Requests : q # r => thr'[q] = thr[q]
    BY SMT DEF Sure, Go
<1>2. ASSUME NEW q \in Requests, q # r PROVE Knows(thr[q])' /\ Holds(q, thr[q])'
    <2>1. PICK x \in Thread : x = thr[q]
        BY Zenon DEF Sure
    <2>2. Knows(x) /\ Holds(q, x)
        BY <2>1, Zenon DEF Sure
    <2>3. Knows(x)' /\ Holds(q, x)'
        BY <2>2, <1>2, KnowsStays, HoldsStays, Zenon DEF Sure, Books
    <2>4. thr'[q] = x
        BY <1>1, <1>2, <2>1, Zenon
    <2>. QED
        BY <2>3, <2>4, Zenon DEF Knows, Holds
<1>3. Knows(thr[r])' /\ Holds(r, thr[r])'
    BY <1>1, Zenon DEF Knows, Holds
<1>. QED
    BY <1>1, <1>2, <1>3, Zenon DEF Sure

-----------------------------------------------------------------------------
(* What an engine makes of feedback. *)

\* Every listed case is held by the prompt made of the list.
LEMMA PromptReflects ==
    ASSUME Tables, NEW seen \in SUBSET (DOMAIN feedback), NEW base \in SUBSET Lessons
    PROVE  LET cand == base \cup (PromptLessons(seen) \ base)
           IN cand \in SUBSET Lessons /\ \A k \in seen : Reflects("prompt", cand, k)
<1>. DEFINE cand == base \cup (PromptLessons(seen) \ base)
<1>3. PromptLessons(seen) \in SUBSET Lessons
    BY Zenon DEF PromptLessons, Lessons
<1>4. ASSUME NEW k \in seen PROVE Reflects("prompt", cand, k)
    <2>1. ({feedback[k].kind} \cap Directed) \subseteq PromptLessons(seen)
        BY Zenon DEF PromptLessons
    <2>2. feedback[k].kind = "missed_issue" /\ feedback[k].rule \in Rules =>
              feedback[k].rule \in PromptLessons(seen)
        BY Zenon DEF PromptLessons
    <2>. QED
        BY <2>1, <2>2, SMT DEF Reflects
<1>5. cand \in SUBSET Lessons
    BY <1>3, Zenon
<1>. QED
    BY <1>4, <1>5, Zenon

\* Of the cases of one rule that are used, the oldest decides; the artifact holds
\* every case that no older one contradicts.
LEMMA SkillReflects ==
    ASSUME Tables, NEW used \in SUBSET (DOMAIN feedback), NEW rules,
           \A j \in used : feedback[j].kind \in {"missed_issue", "false_positive"},
           \A j \in used : RuleIn(j) \in Rules,
           NEW k \in used
    PROVE  Reflects("skill", SkillRules(used, rules), k)
<1>. DEFINE rule == RuleIn(k)
            kind == feedback[k].kind
            new == SkillRules(used, rules)
            Decided(q) == {RuleIn(i) : i \in {j \in used : feedback[j].kind = q /\ Oldest(used, j)}}
            same == {j \in used : RuleIn(j) = rule}
<1>0. DOMAIN feedback \subseteq Nat \ {0}
    BY CaseTypes, SMT
<1>1. PICK m \in same : \A j \in same : m <= j
    <2>1. same \in SUBSET Nat /\ same # {}
        BY <1>0, SMT
    <2>. HIDE DEF same
    <2>. QED
        BY <2>1, Least, Zenon
<1>2. m \in used /\ RuleIn(m) = rule /\ m <= k /\ Oldest(used, m)
    <2>1. m \in used /\ RuleIn(m) = rule /\ m <= k
        BY <1>1, Zenon
    <2>2. \A j \in used : RuleIn(j) = RuleIn(m) => m <= j
        BY <1>1, <2>1, Zenon
    <2>3. \A j \in used : m <= j => j >= m
        BY <2>1, <1>0, SMT
    <2>. QED
        BY <2>1, <2>2, <2>3, Zenon DEF Oldest
<1>3. new = (rules \ Decided("false_positive")) \cup Decided("missed_issue")
    BY Zenon DEF SkillRules
<1>. DEFINE contradicted == \E j \in 1..(k - 1) : RuleIn(j) = rule /\ feedback[j].kind # kind
<1>. SUFFICES ASSUME ~contradicted
              PROVE  \/ kind = "missed_issue" /\ rule \in new
                     \/ kind = "false_positive" /\ rule \notin new
    BY Zenon DEF Reflects
<1>4. ASSUME NEW j \in used, RuleIn(j) = rule, j <= k
      PROVE  feedback[j].kind = kind
    <2>1. j \in Nat \ {0} /\ k \in Nat \ {0}
        BY <1>0, Zenon
    <2>2. j = k \/ j \in 1..(k - 1)
        BY <2>1, <1>4, SMT
    <2>. QED
        BY <2>2, <1>4, Zenon
<1>5. feedback[m].kind = kind
    BY <1>2, <1>4, Zenon
<1>. HIDE DEF new, contradicted, same
<1>6. CASE kind = "missed_issue"
    <2>1. rule \in Decided("missed_issue")
        BY <1>2, <1>5, <1>6, Zenon
    <2>. HIDE DEF Decided
    <2>. QED
        BY <2>1, <1>3, <1>6, Zenon
<1>7. CASE kind = "false_positive"
    <2>1. rule \in Decided("false_positive")
        BY <1>2, <1>5, <1>7, Zenon
    <2>2. rule \notin Decided("missed_issue")
        <3>. SUFFICES ASSUME NEW j \in used, feedback[j].kind = "missed_issue", Oldest(used, j),
                             rule = RuleIn(j)
                      PROVE  FALSE
            BY Zenon
        <3>1. k >= j
            BY Zenon DEF Oldest
        <3>2. j <= k
            BY <3>1, <1>0, SMT
        <3>. QED
            BY <3>2, <1>4, <1>7, Zenon
    <2>. HIDE DEF Decided
    <2>. QED
        BY <2>1, <2>2, <1>3, <1>7, Zenon
<1>. QED
    BY <1>6, <1>7, Zenon

\* An artifact's rules stay lessons.
LEMMA SkillLessons ==
    ASSUME NEW used, \A j \in used : RuleIn(j) \in Rules, NEW rules \in SUBSET Lessons
    PROVE  SkillRules(used, rules) \in SUBSET Lessons
<1>2. \A k \in used : RuleIn(k) \in Lessons
    BY Zenon DEF Lessons
<1>. QED
    BY <1>2, Zenon DEF SkillRules

\* What is served is made of lessons.
LEMMA ContentLessons ==
    ASSUME Tables, NEW c \in Chains
    PROVE  Content(c, Serving(c)) \in SUBSET Lessons
<1>1. CASE Serving(c) = 0
    BY <1>1, Zenon DEF Content
<1>2. CASE Serving(c) # 0
    <2>1. Serving(c) \in DOMAIN versions[c]
        BY <1>2, ServingReal, Zenon DEF Active
    <2>2. versions[c][Serving(c)] \in Row
        BY <2>1, RowTypes, Zenon
    <2>. QED
        BY <1>2, <2>2, Zenon DEF Content, Row
<1>. QED
    BY <1>1, <1>2, Zenon

-----------------------------------------------------------------------------
(* Steps that write neither versions nor feedback. *)

\* They keep the tables as they are.
LEMMA Quiet ==
    ASSUME Sure, UNCHANGED <<backend, tables, feedback>>, lock' \in [Chains -> Requests \cup {NoOne}]
    PROVE  /\ Books' /\ Grows
           /\ \A x \in Thread : Knows(x) => Knows(x)'
<1>1. Tables'
    BY Zenon DEF Sure, Books, Tables, tables
<1>2. Grows
    BY Zenon DEF Grows, tables
<1>3. \A x \in Thread : Knows(x) => Knows(x)'
    BY <1>2, KnowsStays, Zenon DEF Sure, Books
<1>4. LastActivationWins'
    BY Zenon DEF Sure, Books, LastActivationWins, tables, Active
<1>5. OnlyWinnersServe'
    BY Zenon DEF Sure, Books, OnlyWinnersServe, tables, Active
<1>6. ResolvedIsLearned'
    <2>1. ASSUME NEW k \in DOMAIN feedback, feedback[k].resolved PROVE Taught(k)'
        BY <2>1, <1>2, TaughtStays, Zenon DEF Sure, Books, ResolvedIsLearned, Taught
    <2>2. feedback' = feedback
        BY Zenon
    <2>. QED
        BY <2>1, <2>2, Zenon DEF ResolvedIsLearned, Taught
<1>7. (\A c \in Chains : \A v \in evolved[c] : Winner(c, v))'
    BY Zenon DEF Sure, Books, Winner, tables
<1>. QED
    BY <1>1, <1>2, <1>3, <1>4, <1>5, <1>6, <1>7, Zenon DEF Books

\* A request that lists cases, proposes, or waits goes on with what it knows.
LEMMA QuietStep ==
    ASSUME Sure, UNCHANGED <<backend, tables, feedback, lock>>, NEW r \in Requests,
           NEW next \in Thread, Go(r, next), Knows(next), Holds(r, next)
    PROVE  Sure'
<1>1. Books' /\ Grows /\ Knows(next)'
    BY Quiet, Zenon DEF Sure, Books, Tables
<1>2. Kept(r)
    BY Zenon DEF Kept, tables
<1>3. Holds(r, next)'
    BY Zenon DEF Holds, Content, tables
<1>. QED
    BY <1>1, <1>2, <1>3, Carry, Zenon

\* The unresolved cases are listed.
LEMMA ListSure ==
    ASSUME Sure, NEW r \in Requests, NEW c \in Chains, ListFailures(r, c)
    PROVE  Sure'
<1>. DEFINE next == [Idle EXCEPT !.pc = "listed", !.chain = c, !.auto = TRUE, !.used = Unresolved]
<1>1. Tables /\ MaxVersions \in Nat
    BY LearningAssumption, Zenon DEF Sure, Books
<1>2. Unresolved \subseteq DOMAIN feedback /\ DOMAIN feedback \subseteq 1..MaxReports
    BY <1>1, CaseTypes, LearningAssumption, SMT DEF Unresolved
<1>3. PICK seen \in SUBSET (1..MaxReports) : seen = Unresolved
    BY <1>2, Zenon
<1>. DEFINE x == [Idle EXCEPT !.pc = "listed", !.chain = c, !.auto = TRUE, !.used = seen]
<1>4. 0 \in 0..MaxVersions
    BY <1>1, SMT
<1>5. /\ x \in Thread
      /\ x.pc = "listed" /\ x.used = seen
    BY <1>4, Zenon DEF Idle, Thread, Stages, Chains
<1>6. Go(r, x) /\ UNCHANGED <<backend, tables, feedback, lock>>
    BY <1>3, Zenon DEF ListFailures, process
<1>. HIDE DEF x
<1>7. Knows(x) /\ Holds(r, x)
    BY <1>2, <1>3, <1>5, Zenon DEF Knows, Holds, Carried, Measuring
<1>. QED
    BY <1>5, <1>6, <1>7, QuietStep, Zenon

\* A thread that ends knows nothing.
LEMMA IdleKnows ==
    ASSUME NEW r
    PROVE  Idle \in Thread /\ Knows(Idle) /\ Holds(r, Idle) /\ Knows(Idle)' /\ Holds(r, Idle)'
<1>1. 0 \in 0..MaxVersions
    BY LearningAssumption, SMT
<1>2. Idle \in Thread /\ Idle.pc = "idle" /\ Idle.used = {}
    BY <1>1, Zenon DEF Idle, Thread, Stages, Chains
<1>. QED
    BY <1>2, Zenon DEF Knows, Holds, Carried, Measuring

\* A prompt is made of the cases listed.
LEMMA PromptCandidateSure ==
    ASSUME Sure, NEW r \in Requests, PromptCandidate(r)
    PROVE  Sure'
<1>. PICK o \in Thread : o = thr[r]
    BY Zenon DEF Sure
<1>. PICK base : base = Content("prompt", Serving("prompt"))
    BY Zenon
<1>1. Tables /\ "prompt" \in Chains
    BY Zenon DEF Sure, Books, Chains
<1>2. base \in SUBSET Lessons
    BY <1>1, ContentLessons, Zenon
<1>3. o.pc = "listed" /\ o.chain = "prompt" /\ o.used \in SUBSET (DOMAIN feedback)
    BY Zenon DEF Sure, Knows, PromptCandidate, At
<1>4. UNCHANGED <<backend, tables, feedback, lock>>
    BY Zenon DEF PromptCandidate, process
<1>5. CASE Go(r, Idle)
    BY <1>4, <1>5, IdleKnows, QuietStep, Zenon
<1>6. CASE ~Go(r, Idle)
    <2>. PICK cand : cand = base \cup (PromptLessons(o.used) \ base)
        BY Zenon
    <2>1. cand \in SUBSET Lessons /\ \A k \in o.used : Reflects("prompt", cand, k)
        BY <1>1, <1>2, <1>3, PromptReflects, Zenon
    <2>. DEFINE x == [o EXCEPT !.pc = "waiting", !.cand = cand]
    <2>2. /\ x \in Thread /\ x.pc = "waiting" /\ x.cand = cand
          /\ x.chain = "prompt" /\ x.used = o.used
        BY <2>1, <1>3, Zenon DEF Thread, Stages
    <2>3. Go(r, x)
        BY <1>6, Zenon DEF PromptCandidate
    <2>. HIDE DEF x
    <2>4. Knows(x) /\ Holds(r, x)
        BY <1>3, <2>1, <2>2, Zenon DEF Knows, Holds, Carried, Measuring
    <2>. QED
        BY <2>2, <2>3, <2>4, <1>4, QuietStep, Zenon
<1>. QED
    BY <1>5, <1>6

\* An artifact is made of the cases that change it.
LEMMA SkillCandidateSure ==
    ASSUME Sure, NEW r \in Requests, SkillCandidate(r)
    PROVE  Sure'
<1>. PICK o \in Thread : o = thr[r]
    BY Zenon DEF Sure
<1>. PICK rules : rules = Content("skill", Serving("skill"))
    BY Zenon
<1>. PICK used : used = SkillUses(o.used, rules)
    BY Zenon
<1>. PICK cand : cand = SkillRules(used, rules)
    BY Zenon
<1>1. Tables /\ "skill" \in Chains
    BY Zenon DEF Sure, Books, Chains
<1>2. rules \in SUBSET Lessons
    BY <1>1, ContentLessons, Zenon
<1>3. o.pc = "listed" /\ o.chain = "skill" /\ o.used \in SUBSET (DOMAIN feedback)
    BY Zenon DEF Sure, Knows, SkillCandidate, At
<1>4. UNCHANGED <<backend, tables, feedback, lock>>
    BY Zenon DEF SkillCandidate, process
<1>5. /\ used \subseteq o.used
      /\ \A j \in used : feedback[j].kind \in {"missed_issue", "false_positive"}
      /\ \A j \in used : RuleIn(j) \in Rules
    BY Zenon DEF SkillUses
<1>6. used \in SUBSET (DOMAIN feedback) /\ used \in SUBSET (1..MaxReports)
    BY <1>3, <1>5, Zenon DEF Thread
<1>7. cand \in SUBSET Lessons /\ \A k \in used : Reflects("skill", cand, k)
    BY <1>1, <1>2, <1>5, <1>6, SkillReflects, SkillLessons, Zenon
<1>8. CASE Go(r, Idle)
    BY <1>4, <1>8, IdleKnows, QuietStep, Zenon
<1>9. CASE ~Go(r, Idle)
    <2>. DEFINE x == [o EXCEPT !.pc = "waiting", !.used = used, !.cand = cand]
    <2>1. /\ x \in Thread /\ x.pc = "waiting" /\ x.cand = cand
          /\ x.chain = "skill" /\ x.used = used
        BY <1>3, <1>6, <1>7, Zenon DEF Thread, Stages
    <2>2. Go(r, x)
        BY <1>9, Zenon DEF SkillCandidate
    <2>. HIDE DEF x
    <2>3. Knows(x) /\ Holds(r, x)
        BY <1>6, <1>7, <2>1, Zenon DEF Knows, Holds, Carried, Measuring
    <2>. QED
        BY <2>1, <2>2, <2>3, <1>4, QuietStep, Zenon
<1>. QED
    BY <1>8, <1>9

\* A proposal by hand uses no case.
LEMMA SubmitSure ==
    ASSUME Sure, NEW r \in Requests, NEW c \in Chains, Submit(r, c)
    PROVE  Sure'
<1>. PICK content \in Manual[c] : Go(r, [Idle EXCEPT !.pc = "waiting", !.chain = c, !.cand = content])
    BY Zenon DEF Submit
<1>. DEFINE x == [Idle EXCEPT !.pc = "waiting", !.chain = c, !.cand = content]
<1>1. content \in SUBSET Lessons
    BY LearningAssumption, Zenon
<1>2. x \in Thread /\ x.pc = "waiting" /\ x.used = {}
    BY <1>1, IdleKnows, Zenon DEF Idle, Thread, Stages
<1>3. UNCHANGED <<backend, tables, feedback, lock>>
    BY Zenon DEF Submit, process
<1>. HIDE DEF x
<1>4. Knows(x) /\ Holds(r, x)
    BY <1>2, Zenon DEF Knows, Holds, Carried, Measuring
<1>. QED
    BY <1>2, <1>3, <1>4, QuietStep, Zenon DEF x

\* So does one that takes or leaves its lock, or another that is free.
LEMMA LockStep ==
    ASSUME Sure, UNCHANGED <<backend, tables, feedback>>, NEW r \in Requests,
           NEW next \in Thread, Go(r, next), Knows(next), Holds(r, next)',
           lock' \in [Chains -> Requests \cup {NoOne}],
           \A c \in Chains : lock'[c] = lock[c] \/ lock[c] \in {r, NoOne}
    PROVE  Sure'
<1>1. Books' /\ Grows /\ Knows(next)'
    BY Quiet, Zenon
<1>2. Kept(r)
    BY Zenon DEF Kept, tables
<1>. QED
    BY <1>1, <1>2, Carry, Zenon

\* The baseline is read under the lock.
LEMMA EnterSure ==
    ASSUME Sure, NEW r \in Requests, Enter(r)
    PROVE  Sure'
<1>. PICK o \in Thread : o = thr[r]
    BY Zenon DEF Sure
<1>. PICK base : base = Serving(o.chain)
    BY Zenon
<1>0. Tables /\ LastActivationWins /\ o.chain \in Chains
    BY Zenon DEF Sure, Books, Thread
<1>1. base \in 0..MaxVersions /\ (o.chain = "prompt" => base = last["prompt"])
    BY <1>0, ServingReal, ServingIsLast, Zenon
<1>2. o.pc = "waiting" /\ lock[o.chain] = NoOne /\ Knows(o) /\ UNCHANGED <<backend, tables, feedback>>
    BY Zenon DEF Sure, Enter, At, process
<1>3. CASE Go(r, Idle) /\ lock' = lock
    BY <1>2, <1>3, IdleKnows, QuietStep, Zenon
<1>4. CASE ~(Go(r, Idle) /\ lock' = lock)
    <2>. DEFINE x == [o EXCEPT !.pc = "evaluating", !.base = base]
    <2>1. /\ x \in Thread /\ x.pc = "evaluating" /\ x.base = base
          /\ x.chain = o.chain /\ x.used = o.used /\ x.cand = o.cand
        BY <1>1, Zenon DEF Thread, Stages
    <2>2. Go(r, x) /\ lock' = [lock EXCEPT ![o.chain] = r]
        BY <1>4, Zenon DEF Enter
    <2>. HIDE DEF x
    <2>3. Knows(x)
        BY <1>2, <2>1, Zenon DEF Knows, Carried
    <2>4. /\ lock' \in [Chains -> Requests \cup {NoOne}] /\ lock'[o.chain] = r
          /\ \A c \in Chains : lock'[c] = lock[c] \/ lock[c] \in {r, NoOne}
        BY <2>2, <1>0, <1>2, Zenon DEF Tables
    <2>5. last' = last
        BY <1>2, Zenon DEF tables
    <2>6. Holds(r, x)'
        BY <1>1, <2>1, <2>4, <2>5, Zenon DEF Holds, Measuring
    <2>. QED
        BY <1>2, <2>1, <2>2, <2>3, <2>4, <2>6, LockStep, Zenon
<1>. QED
    BY <1>3, <1>4

\* A prompt is activated when it improves on its baseline.
LEMMA PromptGate ==
    ASSUME NEW g \in Gates, NEW cand, NEW base
    PROVE  /\ PromptDecision(g, cand, base) \in {"activated", "rejected", "deferred"}
           /\ PromptDecision(g, cand, base) = "activated" => Improved(cand, base)
BY Zenon DEF PromptDecision

\* What an evaluation leads to.
LEMMA Evaluated ==
    ASSUME Sure, NEW r \in Requests, NEW o \in Thread, o = thr[r], o.pc = "evaluating",
           NEW d \in {"activated", "rejected", "deferred"},
           d = "activated" /\ o.chain = "prompt" => Improved(o.cand, Content("prompt", o.base)),
           Go(r, [o EXCEPT !.pc = "decided", !.decision = d]),
           UNCHANGED <<backend, tables, feedback, lock>>
    PROVE  Sure'
<1>. DEFINE x == [o EXCEPT !.pc = "decided", !.decision = d]
<1>1. /\ x \in Thread /\ x.pc = "decided" /\ x.decision = d /\ x.base = o.base
      /\ x.chain = o.chain /\ x.used = o.used /\ x.cand = o.cand
    BY Zenon DEF Thread, Stages
<1>. HIDE DEF x
<1>2. Knows(x)
    BY <1>1, Zenon DEF Sure, Knows, Carried
<1>3. Holds(r, o)
    BY Zenon DEF Sure
<1>4. Holds(r, x)
    BY <1>1, <1>3, Zenon DEF Holds, Measuring
<1>. QED
    BY <1>1, <1>2, <1>4, QuietStep, Zenon DEF x

\* The replay of a prompt.
LEMMA EvaluatePromptSure ==
    ASSUME Sure, NEW r \in Requests, EvaluatePrompt(r)
    PROVE  Sure'
<1>. PICK o \in Thread : o = thr[r]
    BY Zenon DEF Sure
<1>. PICK base : base = Content("prompt", o.base)
    BY Zenon
<1>1. PICK g \in Gates : Go(r, [o EXCEPT !.pc = "decided", !.decision = PromptDecision(g, o.cand, base)])
    BY Zenon DEF EvaluatePrompt
<1>2. PICK d : d = PromptDecision(g, o.cand, base)
    BY Zenon
<1>3. d \in {"activated", "rejected", "deferred"} /\ (d = "activated" => Improved(o.cand, base))
    BY <1>2, PromptGate, Zenon
<1>4. Go(r, [o EXCEPT !.pc = "decided", !.decision = d])
    BY <1>1, <1>2, Zenon
<1>5. o.pc = "evaluating" /\ UNCHANGED <<backend, tables, feedback, lock>>
    BY Zenon DEF EvaluatePrompt, At, process
<1>. QED
    BY <1>3, <1>4, <1>5, Evaluated, Zenon

\* The replay of an artifact.
LEMMA EvaluateSkillSure ==
    ASSUME Sure, NEW r \in Requests, EvaluateSkill(r)
    PROVE  Sure'
<1>. PICK o \in Thread : o = thr[r]
    BY Zenon DEF Sure
<1>. PICK base : base = Content("skill", o.base)
    BY Zenon
<1>1. PICK g \in Gates : Go(r, [o EXCEPT !.pc = "decided", !.decision = SkillDecision(g, o.cand, base)])
    BY Zenon DEF EvaluateSkill
<1>2. PICK d : d = SkillDecision(g, o.cand, base)
    BY Zenon
<1>3. d \in {"activated", "rejected", "deferred"}
    BY <1>2, Zenon DEF SkillDecision
<1>4. Go(r, [o EXCEPT !.pc = "decided", !.decision = d])
    BY <1>1, <1>2, Zenon
<1>5. o.pc = "evaluating" /\ o.chain = "skill" /\ UNCHANGED <<backend, tables, feedback, lock>>
    BY Zenon DEF EvaluateSkill, At, process
<1>. QED
    BY <1>3, <1>4, <1>5, Evaluated, Zenon

\* The parent PostgreSQL reads is what the chain serves.
LEMMA PgReadParentSure ==
    ASSUME Sure, NEW r \in Requests, PgReadParent(r)
    PROVE  Sure'
<1>. PICK o \in Thread : o = thr[r]
    BY Zenon DEF Sure
<1>. PICK parent : parent = Serving(o.chain)
    BY Zenon
<1>0. Tables /\ LastActivationWins /\ o.chain \in Chains
    BY Zenon DEF Sure, Books, Thread
<1>1. parent \in 0..MaxVersions /\ (o.chain = "prompt" => parent = last["prompt"])
    BY <1>0, ServingReal, ServingIsLast, Zenon
<1>2. o.pc = "decided" /\ UNCHANGED <<backend, tables, feedback, lock>> /\ Knows(o) /\ Holds(r, o)
    BY Zenon DEF Sure, PgReadParent, At, process
<1>. DEFINE x == [o EXCEPT !.pc = "parented", !.parent = parent]
<1>3. /\ x \in Thread /\ x.pc = "parented" /\ x.parent = parent /\ x.base = o.base
      /\ x.chain = o.chain /\ x.used = o.used /\ x.cand = o.cand /\ x.decision = o.decision
    BY <1>1, Zenon DEF Thread, Stages
<1>4. Go(r, x)
    BY Zenon DEF PgReadParent
<1>. HIDE DEF x
<1>5. Knows(x)
    BY <1>2, <1>3, Zenon DEF Knows, Carried
<1>6. Holds(r, x)
    BY <1>1, <1>2, <1>3, Zenon DEF Holds, Measuring
<1>. QED
    BY <1>2, <1>3, <1>4, <1>5, <1>6, QuietStep, Zenon

\* A reload reads the prompt that is served, then registers it.
LEMMA ReloadSure ==
    ASSUME Sure, NEW r \in Requests, ReloadRead(r) \/ ReloadRegister(r)
    PROVE  Sure'
<1>1. UNCHANGED <<backend, tables, feedback, lock>>
    BY Zenon DEF ReloadRead, ReloadRegister, process
<1>2. CASE ReloadRead(r)
    <2>. PICK v : v = Serving("prompt")
        BY Zenon
    <2>1. v \in 0..MaxVersions
        BY ServingReal, Zenon DEF Sure, Books, Chains
    <2>. DEFINE x == [Idle EXCEPT !.pc = "registering", !.version = v]
    <2>2. x \in Thread /\ x.pc = "registering" /\ x.used = {}
        BY <2>1, IdleKnows, Zenon DEF Idle, Thread, Stages
    <2>3. Go(r, x)
        BY <1>2, Zenon DEF ReloadRead
    <2>. HIDE DEF x
    <2>4. Knows(x) /\ Holds(r, x)
        BY <2>2, Zenon DEF Knows, Holds, Carried, Measuring
    <2>. QED
        BY <1>1, <2>2, <2>3, <2>4, QuietStep, Zenon
<1>3. CASE ReloadRegister(r)
    <2>1. Go(r, Idle)
        BY <1>3, Zenon DEF ReloadRegister
    <2>. QED
        BY <1>1, <2>1, IdleKnows, QuietStep, Zenon
<1>. QED
    BY <1>2, <1>3

\* What may be activated again exists, and of the artifacts has won.
LEMMA ReturnsWinner ==
    ASSUME Books, NEW c \in Chains, NEW v, MayReturn(c, v)
    PROVE  v \in DOMAIN versions[c] /\ (c = "skill" => versions[c][v].won)
<1>1. CASE c = "prompt"
    BY <1>1, Zenon DEF MayReturn, PromptExists, Chains
<1>2. CASE c = "skill"
    <2>1. v \in DOMAIN versions["skill"] /\ (versions["skill"][v].active \/ v \in evolved["skill"])
        BY <1>2, Zenon DEF MayReturn, SkillEligible
    <2>2. versions["skill"][v].won
        BY <1>2, <2>1, Zenon DEF Books, OnlyWinnersServe, Active, Winner
    <2>. QED
        BY <1>2, <2>1, <2>2, Zenon
<1>. QED
    BY <1>1, <1>2, Zenon DEF Chains

\* A rollback on PostgreSQL sees the rows there are when it begins.
LEMMA PgRollbackBeginSure ==
    ASSUME Sure, NEW r \in Requests, NEW c \in Chains, NEW v \in 1..MaxVersions, PgRollbackBegin(r, c, v)
    PROVE  Sure'
<1>1. /\ Tables /\ Books /\ backend = "postgres" /\ MayReturn(c, v)
      /\ UNCHANGED <<backend, tables, feedback>>
      /\ (c = "prompt" => lock[c] = NoOne)
    BY Zenon DEF Sure, Books, PgRollbackBegin, process, MayRoll
<1>2. v \in DOMAIN versions[c] /\ (c = "skill" => versions[c][v].won)
    BY <1>1, ReturnsWinner, Zenon
<1>. PICK rows : rows = DOMAIN versions[c]
    BY Zenon
<1>3. rows \in SUBSET (1..MaxVersions) /\ v \in 0..MaxVersions
    BY <1>1, RowTypes, LearningAssumption, SMT
<1>. DEFINE x == [Idle EXCEPT !.pc = "clearing", !.chain = c, !.version = v, !.snap = rows]
<1>4. /\ x \in Thread /\ x.pc = "clearing" /\ x.used = {} /\ x.chain = c
      /\ x.version = v /\ x.snap = rows
    BY <1>3, IdleKnows, Zenon DEF Idle, Thread, Stages
<1>5. Go(r, x) /\ lock' = IF c = "prompt" THEN [lock EXCEPT ![c] = r] ELSE lock
    BY Zenon DEF PgRollbackBegin
<1>. HIDE DEF x
<1>6. /\ lock' \in [Chains -> Requests \cup {NoOne}] /\ (c = "prompt" => lock'[c] = r)
      /\ \A d \in Chains : lock'[d] = lock[d] \/ lock[d] \in {r, NoOne}
    BY <1>1, <1>5, SMT DEF Tables
<1>7. Knows(x)
    BY <1>1, <1>2, <1>4, Zenon DEF Knows, Carried
<1>8. versions' = versions
    BY <1>1, Zenon DEF tables
<1>9. Holds(r, x)'
    BY <1>4, <1>6, <1>8, Zenon DEF Holds, Measuring
<1>. QED
    BY <1>1, <1>4, <1>5, <1>6, <1>7, <1>9, LockStep, Zenon

\* A call that fails leaves its lock.
LEMMA CallFailsSure ==
    ASSUME Sure, NEW r \in Requests, CallFails(r)
    PROVE  Sure'
<1>1. /\ UNCHANGED <<backend, tables, feedback>> /\ Go(r, Idle)
      /\ lock' = [c \in Chains |-> IF lock[c] = r THEN NoOne ELSE lock[c]]
    BY Zenon DEF CallFails
<1>2. lock \in [Chains -> Requests \cup {NoOne}]
    BY Zenon DEF Sure, Books, Tables
<1>3. /\ lock' \in [Chains -> Requests \cup {NoOne}]
      /\ \A c \in Chains : lock'[c] = lock[c] \/ lock[c] \in {r, NoOne}
    BY <1>1, <1>2, SMT
<1>. QED
    BY <1>1, <1>3, IdleKnows, LockStep, Zenon

-----------------------------------------------------------------------------
(* Steps that write. *)

\* Resolved cases stay learned while rows only grow.
LEMMA StillLearned ==
    ASSUME Sure, Grows, UNCHANGED feedback
    PROVE  ResolvedIsLearned'
<1>1. ASSUME NEW k \in DOMAIN feedback, feedback[k].resolved PROVE Taught(k)'
    BY <1>1, TaughtStays, Zenon DEF Sure, Books, ResolvedIsLearned, Taught
<1>2. feedback' = feedback
    BY Zenon
<1>. QED
    BY <1>1, <1>2, Zenon DEF ResolvedIsLearned, Taught

\* Winners stay.
LEMMA WinnersStay ==
    ASSUME Grows, NEW c \in Chains, NEW v, Winner(c, v)
    PROVE  Winner(c, v)'
BY Zenon DEF Grows, Winner

\* The thread of a request, at o before, that has saved a version.
Saved(o, number) ==
    [Idle EXCEPT !.pc = "saved", !.chain = o.chain, !.auto = o.auto, !.used = o.used,
                 !.decision = o.decision, !.version = number]

\* It keeps the chain, the cases and the decision.
LEMMA SavedThread ==
    ASSUME NEW o \in Thread, NEW number \in 0..MaxVersions
    PROVE  /\ Saved(o, number) \in Thread
           /\ Saved(o, number).pc = "saved" /\ Saved(o, number).chain = o.chain
           /\ Saved(o, number).used = o.used /\ Saved(o, number).decision = o.decision
           /\ Saved(o, number).version = number
<1>1. 0 \in 0..MaxVersions
    BY LearningAssumption, SMT
<1>2. o.auto \in BOOLEAN /\ o.used \in SUBSET (1..MaxReports) /\ o.chain \in Chains
      /\ o.decision \in {"none", "activated", "rejected", "deferred"}
    BY Zenon DEF Thread
<1>3. Saved(o, number) \in Thread
    BY <1>1, <1>2, Zenon DEF Thread, Idle, Stages, Chains, Saved
<1>. QED
    BY <1>3, Zenon DEF Idle, Saved

\* A version is saved: it comes last, and it serves when it has won.
LEMMA SaveRowSure ==
    ASSUME Sure, NEW r \in Requests, NEW o \in Thread, o = thr[r], o.pc \in {"decided", "parented"},
           NEW parent \in 0..MaxVersions, SaveRow(r, parent)
    PROVE  Sure'
<1>p1. PICK won \in BOOLEAN : won <=> o.decision = "activated"
    BY Zenon
<1>p2. PICK c \in Chains : c = o.chain
    BY Zenon DEF Thread
<1>p3. PICK n \in Nat : n = Len(versions[c])
    BY RowTypes, Zenon DEF Sure, Books
<1>. DEFINE x == Saved(o, n + 1)
<1>0. /\ Tables /\ c \in Chains /\ o.cand \in SUBSET Lessons /\ Knows(o) /\ Holds(r, o)
      /\ n \in Nat /\ versions[c] \in Seq(Row) /\ DOMAIN versions[c] = 1..n
    BY <1>p2, <1>p3, RowTypes, Zenon DEF Sure, Books, Thread
<1>p4. PICK rows \in Seq(Row) : rows = versions[c]
    BY <1>0, Zenon
<1>p5. PICK new : new = InsertRow(rows, o.cand, parent, won)
    BY Zenon
<1>1. Won(r) = won
    BY <1>p1, Zenon DEF Won
<1>2. /\ n + 1 <= MaxVersions
      /\ versions' = [versions EXCEPT ![c] = new]
      /\ last' = IF won THEN [last EXCEPT ![c] = n + 1] ELSE last
      /\ Go(r, x)
      /\ UNCHANGED <<backend, evolved, feedback, lock>>
    BY <1>1, <1>p2, <1>p3, <1>p4, <1>p5, Zenon DEF SaveRow, process, Saved
<1>3. /\ new \in Seq(Row) /\ Len(new) = n + 1
      /\ \A w \in 1..n :
            /\ new[w].content = rows[w].content
            /\ new[w].won = rows[w].won
            /\ new[w].active <=> rows[w].active /\ won = FALSE
      /\ new[n + 1].content = o.cand
      /\ new[n + 1].won <=> won = TRUE
      /\ new[n + 1].active <=> won = TRUE
    <2>1. n = Len(rows)
        BY <1>p3, <1>p4, Zenon
    <2>2. new[n + 1] = [content |-> o.cand, active |-> won, parent |-> parent, won |-> won]
        BY <2>1, <1>0, <1>p5, InsertAdds, Zenon
    <2>3. /\ new[n + 1].content = o.cand
          /\ new[n + 1].won <=> won = TRUE
          /\ new[n + 1].active <=> won = TRUE
        BY <2>2, SMT
    <2>4. /\ InsertRow(rows, o.cand, parent, won) \in Seq(Row)
          /\ Len(InsertRow(rows, o.cand, parent, won)) = Len(rows) + 1
        BY <1>0, InsertAdds, Zenon
    <2>5. \A w \in 1..Len(rows) :
             /\ InsertRow(rows, o.cand, parent, won)[w].content = rows[w].content
             /\ InsertRow(rows, o.cand, parent, won)[w].won = rows[w].won
        BY <1>0, InsertAdds, Zenon
    <2>6. \A w \in 1..n : new[w].active <=> rows[w].active /\ won = FALSE
        BY <2>1, <1>0, <1>p5, InsertClears, Zenon
    <2>. QED
        BY <1>p5, <2>1, <2>3, <2>4, <2>5, <2>6, Zenon
<1>4. DOMAIN new = 1..(n + 1) /\ 1..n \subseteq 1..(n + 1) /\ n + 1 \in 1..(n + 1) /\ n + 1 \in 0..MaxVersions
      /\ n + 1 # 0 /\ n + 1 \notin 1..n
    <2>1. MaxVersions \in Nat /\ n + 1 <= MaxVersions
        BY <1>2, LearningAssumption, Zenon
    <2>2. DOMAIN new = 1..(n + 1)
        BY <1>3, SMT
    <2>. QED
        BY <2>1, <2>2, SMT
<1>5. versions'[c] = new /\ \A d \in Chains : d # c => versions'[d] = versions[d]
    BY <1>0, <1>2, Zenon DEF Tables
<1>6. Grows
    <2>1. ASSUME NEW d \in Chains, NEW v \in DOMAIN versions[d]
          PROVE  /\ v \in DOMAIN versions'[d]
                 /\ versions'[d][v].content = versions[d][v].content
                 /\ versions'[d][v].won = versions[d][v].won
        <3>1. CASE d = c
            <4>1. v \in 1..n /\ v \in DOMAIN new
                BY <1>0, <1>4, <3>1, Zenon
            <4>2. versions[d] = rows /\ versions'[d] = new
                BY <1>5, <1>p4, <3>1, Zenon
            <4>. QED
                BY <1>3, <4>1, <4>2, Zenon
        <3>2. CASE d # c
            BY <1>5, <3>2, Zenon
        <3>. QED
            BY <3>1, <3>2
    <2>. QED
        BY <1>2, <2>1, Zenon DEF Grows
<1>7. Kept(r)
    <2>1. lock[c] = r
        BY <1>0, <1>p2, Zenon DEF Holds, Measuring
    <2>2. c # "prompt" => versions'["prompt"] = versions["prompt"]
        BY <1>5, Zenon DEF Chains
    <2>3. c # "prompt" => last'["prompt"] = last["prompt"]
        BY <1>0, <1>2, Zenon DEF Chains, Tables
    <2>. QED
        BY <1>2, <2>1, <2>2, <2>3, Zenon DEF Kept
<1>8. Tables'
    <2>1. versions' \in [Chains -> Seq(Row)]
        BY <1>0, <1>2, <1>3, Zenon DEF Tables
    <2>2. \A d \in Chains : Len(versions'[d]) <= MaxVersions
        <3>1. Len(versions'[c]) <= MaxVersions
            BY <1>2, <1>3, <1>5, SMT
        <3>2. \A d \in Chains : d # c => Len(versions'[d]) <= MaxVersions
            BY <1>0, <1>5, Zenon DEF Tables
        <3>. QED
            BY <3>1, <3>2, Zenon
    <2>3. last' \in [Chains -> 0..MaxVersions]
        BY <1>0, <1>2, <1>4, Zenon DEF Tables
    <2>. QED
        BY <1>0, <1>2, <2>1, <2>2, <2>3, Zenon DEF Tables
<1>9. \A v \in DOMAIN new : v \in 1..n \/ v = n + 1
    BY <1>0, <1>4, SMT
<1>10. LastActivationWins'
    <2>. SUFFICES ASSUME NEW d \in Chains, backend' = "sqlite" \/ d = "prompt"
                  PROVE  Active(d)' = {last'[d]} \ {0}
        BY Zenon DEF LastActivationWins
    <2>1. Active(d) = {last[d]} \ {0}
        BY <1>2, Zenon DEF Sure, Books, LastActivationWins
    <2>2. CASE d # c
        <3>1. Active(d)' = Active(d)
            BY <1>5, <2>2, Zenon DEF Active
        <3>2. last'[d] = last[d]
            BY <1>0, <1>2, <2>2, Zenon DEF Tables
        <3>. QED
            BY <2>1, <3>1, <3>2, Zenon
    <2>3. CASE d = c /\ won
        <3>1. Active(d)' = {n + 1}
            <4>1. \A v \in DOMAIN new : new[v].active <=> v = n + 1
                BY <1>3, <1>4, <1>9, <2>3, Zenon
            <4>2. Active(d)' = {v \in DOMAIN new : new[v].active}
                BY <1>5, <2>3, Zenon DEF Active
            <4>. QED
                BY <1>4, <4>1, <4>2, SMT
        <3>2. last'[d] = n + 1
            BY <1>0, <1>2, <2>3, Zenon DEF Tables
        <3>. QED
            BY <3>1, <3>2, <1>4, Zenon
    <2>4. CASE d = c /\ ~won
        <3>1. Active(d)' = Active(d)
            BY <1>0, <1>p4, <1>3, <1>4, <1>5, <1>9, <2>4, Zenon DEF Active
        <3>2. last' = last
            BY <1>2, <2>4, Zenon
        <3>. QED
            BY <3>1, <3>2, <2>1, Zenon
    <2>. QED
        BY <2>2, <2>3, <2>4
<1>11. OnlyWinnersServe'
    <2>1. CASE c = "skill"
        <3>. SUFFICES ASSUME NEW v \in DOMAIN new, new[v].active PROVE new[v].won
            BY <1>5, <2>1, Zenon DEF OnlyWinnersServe, Active
        <3>1. \A w \in DOMAIN rows : rows[w].active => rows[w].won
            BY <2>1, <1>p4, Zenon DEF OnlyWinnersServe, Active, Sure, Books
        <3>2. CASE v \in 1..n
            BY <1>0, <1>3, <1>p4, <3>1, <3>2, SMT
        <3>3. CASE v = n + 1
            BY <1>3, <3>3, Zenon
        <3>. QED
            BY <1>9, <3>2, <3>3, Zenon
    <2>2. CASE c # "skill"
        BY <1>5, <2>2, Zenon DEF OnlyWinnersServe, Active, Sure, Books, Chains
    <2>. QED
        BY <2>1, <2>2
<1>12. Books'
    <2>1. (\A d \in Chains : \A v \in evolved[d] : Winner(d, v))'
        BY <1>2, <1>6, WinnersStay, Zenon DEF Sure, Books
    <2>. QED
        BY <1>2, <1>6, <1>8, <1>10, <1>11, <2>1, StillLearned, Zenon DEF Books
<1>13. /\ x \in Thread /\ x.pc = "saved" /\ x.chain = c /\ x.used = o.used
       /\ x.decision = o.decision /\ x.version = n + 1
    BY <1>4, <1>p2, SavedThread, Zenon
<1>. HIDE DEF x
<1>14. Knows(x)'
    <2>1. \A k \in o.used : k \in DOMAIN feedback /\ Reflects(c, o.cand, k)
        BY <1>0, <1>p2, Zenon DEF Knows, Carried
    <2>2. \A k \in o.used : Reflects(c, o.cand, k)'
        BY <2>1, <1>0, <1>6, ReflectsStays, Zenon
    <2>3. versions'[x.chain][x.version].content = o.cand
        BY <1>3, <1>5, <1>13, Zenon
    <2>4. \A k \in x.used : Reflects(x.chain, versions[x.chain][x.version].content, k)'
        BY <2>2, <2>3, <1>13, Zenon DEF Reflects
    <2>5. \A k \in x.used : k \in DOMAIN feedback'
        BY <1>2, <1>13, <2>1, Zenon
    <2>6. x.version \in DOMAIN versions'[x.chain] /\ (x.decision = "activated" => versions'[x.chain][x.version].won)
        BY <1>p1, <1>3, <1>4, <1>5, <1>13, Zenon
    <2>. QED
        BY <1>13, <2>4, <2>5, <2>6, Zenon DEF Knows, Carried
<1>15. Holds(r, x)'
    BY <1>0, <1>p2, <1>2, <1>13, Zenon DEF Holds, Measuring
<1>. QED
    BY <1>2, <1>6, <1>7, <1>12, <1>13, <1>14, <1>15, Carry, Zenon

\* The version's row, on either database.
LEMMA SaveVersionSure ==
    ASSUME Sure, NEW r \in Requests, SaveVersion(r) \/ PgSaveVersion(r)
    PROVE  Sure'
<1>. PICK o \in Thread : o = thr[r]
    BY Zenon DEF Sure
<1>1. CASE SaveVersion(r)
    <2>. PICK parent : parent = Serving(o.chain)
        BY Zenon
    <2>1. parent \in 0..MaxVersions
        BY ServingReal, Zenon DEF Sure, Books, Thread
    <2>2. o.pc = "decided" /\ SaveRow(r, parent)
        BY <1>1, Zenon DEF SaveVersion, At
    <2>. QED
        BY <2>1, <2>2, SaveRowSure, Zenon
<1>2. CASE PgSaveVersion(r)
    <2>1. o.pc = "parented" /\ SaveRow(r, o.parent) /\ o.parent \in 0..MaxVersions
        BY <1>2, Zenon DEF PgSaveVersion, At, Thread
    <2>. QED
        BY <2>1, SaveRowSure, Zenon
<1>. QED
    BY <1>1, <1>2

\* The run's row, and the lock is left.
LEMMA SaveRunSure ==
    ASSUME Sure, NEW r \in Requests, SaveRun(r)
    PROVE  Sure'
<1>. PICK o \in Thread : o = thr[r]
    BY Zenon DEF Sure
<1>. DEFINE c == o.chain
<1>1. /\ o.pc = "saved" /\ c \in Chains /\ Tables /\ Knows(o) /\ lock[c] = r
      /\ UNCHANGED <<backend, versions, last, feedback>>
      /\ lock' = [lock EXCEPT ![c] = NoOne]
    BY Zenon DEF Sure, Books, SaveRun, At, Thread, process, Holds
<1>2. /\ o.version \in DOMAIN versions[c]
      /\ o.decision = "activated" => versions[c][o.version].won
      /\ \A k \in o.used : k \in DOMAIN feedback /\ Reflects(c, versions[c][o.version].content, k)
    BY <1>1, Zenon DEF Knows
<1>3. evolved' = IF o.decision = "activated" THEN [evolved EXCEPT ![c] = @ \cup {o.version}] ELSE evolved
    BY Zenon DEF SaveRun, Won
<1>4. Grows
    BY <1>1, Zenon DEF Grows
<1>5. o.version \in 1..MaxVersions
    BY <1>1, <1>2, RowTypes, LearningAssumption, SMT
<1>6. evolved' \in [Chains -> SUBSET (1..MaxVersions)]
    BY <1>1, <1>3, <1>5, SMT DEF Tables
<1>7. lock' \in [Chains -> Requests \cup {NoOne}]
    BY <1>1, Zenon DEF Tables
<1>8. ASSUME NEW d \in Chains, NEW v \in evolved'[d] PROVE Winner(d, v)'
    <2>1. v \in evolved[d] \/ (d = c /\ v = o.version /\ o.decision = "activated")
        BY <1>1, <1>3, SMT DEF Tables
    <2>2. Winner(d, v)
        BY <1>2, <2>1, Zenon DEF Winner, Sure, Books
    <2>. QED
        BY <1>4, <2>2, WinnersStay, Zenon
<1>9. Books'
    <2>1. Tables'
        BY <1>1, <1>6, <1>7, Zenon DEF Tables
    <2>2. LastActivationWins' /\ OnlyWinnersServe'
        BY <1>1, Zenon DEF Sure, Books, LastActivationWins, OnlyWinnersServe, Active
    <2>. QED
        BY <1>1, <1>4, <1>8, <2>1, <2>2, StillLearned, Zenon DEF Books
<1>10. Kept(r)
    BY <1>1, Zenon DEF Kept, Tables
<1>11. CASE Go(r, Idle)
    BY <1>4, <1>9, <1>10, <1>11, IdleKnows, Carry, Zenon
<1>12. CASE o.decision = "activated" /\ Go(r, [Idle EXCEPT !.pc = "resolving", !.used = o.used])
    <2>. DEFINE x == [Idle EXCEPT !.pc = "resolving", !.used = o.used]
    <2>1. x \in Thread /\ x.pc = "resolving" /\ x.used = o.used
        BY IdleKnows, Zenon DEF Idle, Thread, Stages
    <2>. HIDE DEF x
    <2>2. \A k \in o.used : Taught(k)
        BY <1>1, <1>2, <1>12, Zenon DEF Taught
    <2>3. Knows(x)
        BY <1>2, <2>1, <2>2, Zenon DEF Knows, Carried
    <2>4. Knows(x)' /\ Holds(r, x)'
        BY <1>1, <1>4, <2>1, <2>3, KnowsStays, Zenon DEF Holds, Measuring
    <2>. QED
        BY <1>4, <1>9, <1>10, <1>12, <2>1, <2>4, Carry, Zenon DEF x
<1>13. CASE Go(r, [Idle EXCEPT !.pc = "reloading"])
    <2>. DEFINE x == [Idle EXCEPT !.pc = "reloading"]
    <2>1. x \in Thread /\ x.pc = "reloading" /\ x.used = {}
        BY IdleKnows, Zenon DEF Idle, Thread, Stages
    <2>. HIDE DEF x
    <2>2. Knows(x)' /\ Holds(r, x)'
        BY <2>1, Zenon DEF Knows, Holds, Carried, Measuring
    <2>. QED
        BY <1>4, <1>9, <1>10, <1>13, <2>1, <2>2, Carry, Zenon DEF x
<1>. QED
    BY <1>11, <1>12, <1>13, Zenon DEF SaveRun, Won

\* Cases are resolved once a winner holds their lessons.
LEMMA ResolveSure ==
    ASSUME Sure, NEW r \in Requests, ResolveFailures(r)
    PROVE  Sure'
<1>. PICK o \in Thread : o = thr[r]
    BY Zenon DEF Sure
<1>1. /\ o.pc = "resolving" /\ Tables /\ Knows(o) /\ UNCHANGED <<backend, tables, lock>>
      /\ feedback' = [k \in DOMAIN feedback |-> [feedback[k] EXCEPT !.resolved = @ \/ k \in o.used]]
      /\ Go(r, [Idle EXCEPT !.pc = "reloading"])
    BY Zenon DEF Sure, Books, ResolveFailures, At, process
<1>2. ASSUME NEW k \in DOMAIN feedback
      PROVE  /\ feedback'[k] \in Case
             /\ feedback'[k].kind = feedback[k].kind /\ feedback'[k].rule = feedback[k].rule
             /\ feedback'[k].resolved <=> feedback[k].resolved \/ k \in o.used
    <2>. PICK f \in Case : f = feedback[k]
        BY <1>1, CaseTypes, Zenon
    <2>1. feedback'[k] = [f EXCEPT !.resolved = @ \/ k \in o.used]
        BY <1>1, Zenon
    <2>. QED
        BY <2>1, Zenon DEF Case
<1>3. DOMAIN feedback' = DOMAIN feedback
    BY <1>1, Zenon
<1>4. Grows
    BY <1>1, <1>2, <1>3, Zenon DEF Grows, tables
<1>5. feedback' \in Seq(Case) /\ Len(feedback') <= MaxReports
    <2>. DEFINE n == Len(feedback)
    <2>1. n \in Nat /\ n <= MaxReports /\ DOMAIN feedback = 1..n
        BY <1>1, CaseTypes, Zenon
    <2>2. feedback' \in [1..n -> Case]
        BY <1>1, <1>2, <2>1, Zenon
    <2>. HIDE DEF n
    <2>. QED
        BY <2>1, <2>2, SMT
<1>6. ResolvedIsLearned'
    <2>1. ASSUME NEW k \in DOMAIN feedback, feedback'[k].resolved PROVE Taught(k)'
        <3>1. Taught(k)
            BY <1>1, <1>2, <2>1, Zenon DEF Sure, Books, ResolvedIsLearned, Knows, Taught
        <3>. QED
            BY <1>1, <1>4, <3>1, TaughtStays, Zenon
    <2>. QED
        BY <1>3, <2>1, Zenon DEF ResolvedIsLearned, Taught
<1>7. Books'
    <2>1. Tables'
        BY <1>1, <1>5, Zenon DEF Tables, tables
    <2>2. LastActivationWins' /\ OnlyWinnersServe'
        BY <1>1, Zenon DEF Sure, Books, LastActivationWins, OnlyWinnersServe, Active, tables
    <2>3. (\A d \in Chains : \A v \in evolved[d] : Winner(d, v))'
        BY <1>1, <1>4, WinnersStay, Zenon DEF Sure, Books, tables
    <2>. QED
        BY <1>6, <2>1, <2>2, <2>3, Zenon DEF Books
<1>8. Kept(r)
    BY <1>1, Zenon DEF Kept, tables
<1>. DEFINE x == [Idle EXCEPT !.pc = "reloading"]
<1>9. x \in Thread /\ x.pc = "reloading" /\ x.used = {}
    BY IdleKnows, Zenon DEF Idle, Thread, Stages
<1>. HIDE DEF x
<1>10. Knows(x)' /\ Holds(r, x)'
    BY <1>9, Zenon DEF Knows, Holds, Carried, Measuring
<1>. QED
    BY <1>1, <1>4, <1>7, <1>8, <1>9, <1>10, Carry, Zenon DEF x

\* A rollback that sees every row leaves its version serving alone; one that does
\* not still serves winners only.
LEMMA Committed ==
    ASSUME Sure, NEW r \in Requests, NEW c \in Chains, NEW seen, NEW v \in DOMAIN versions[c],
           c = "skill" => versions[c][v].won,
           backend = "sqlite" \/ c = "prompt" => seen = DOMAIN versions[c],
           c = "prompt" => lock["prompt"] \in {r, NoOne},
           Commit(c, seen, v), UNCHANGED <<evolved, backend, feedback>>,
           lock' \in [Chains -> Requests \cup {NoOne}],
           \A d \in Chains : lock'[d] = lock[d] \/ lock[d] \in {r, NoOne},
           Go(r, [Idle EXCEPT !.pc = "reloading"])
    PROVE  Sure'
<1>0. Tables /\ versions[c] \in Seq(Row) /\ DOMAIN versions[c] = 1..Len(versions[c])
      /\ Len(versions[c]) \in Nat /\ Len(versions[c]) <= MaxVersions
    BY RowTypes, Zenon DEF Sure, Books
<1>p1. PICK rows \in Seq(Row) : rows = versions[c]
    BY <1>0, Zenon
<1>p2. PICK new : new = ActivateRow(rows, seen, v)
    BY Zenon
<1>1. versions' = [versions EXCEPT ![c] = new] /\ last' = [last EXCEPT ![c] = v]
    BY <1>p1, <1>p2, Zenon DEF Commit
<1>2. /\ new \in Seq(Row) /\ Len(new) = Len(rows)
      /\ \A w \in DOMAIN rows : new[w].content = rows[w].content /\ new[w].won = rows[w].won
    <2>1. /\ ActivateRow(rows, seen, v) \in Seq(Row)
          /\ Len(ActivateRow(rows, seen, v)) = Len(rows)
        BY ActivateKeeps, Zenon
    <2>2. ASSUME NEW w \in DOMAIN rows
          PROVE  ActivateRow(rows, seen, v)[w].content = rows[w].content
        BY ActivateSame, SMT
    <2>3. ASSUME NEW w \in DOMAIN rows
          PROVE  ActivateRow(rows, seen, v)[w].won = rows[w].won
        BY ActivateSame, SMT
    <2>. QED
        BY <1>p2, <2>1, <2>2, <2>3, Zenon
<1>3. \A w \in DOMAIN rows : new[w].active <=> w = v \/ (rows[w].active /\ w \notin seen)
    BY <1>p2, ActivateClears, Zenon
<1>4. DOMAIN new = DOMAIN rows
    BY <1>2, SMT
<1>5. versions'[c] = new /\ \A d \in Chains : d # c => versions'[d] = versions[d]
    BY <1>0, <1>1, Zenon DEF Tables
<1>6. last'[c] = v /\ \A d \in Chains : d # c => last'[d] = last[d]
    BY <1>0, <1>1, Zenon DEF Tables
<1>7. v \in 1..MaxVersions /\ v # 0
    <2>1. v \in 1..Len(versions[c]) /\ MaxVersions \in Nat
        BY <1>0, LearningAssumption, Zenon
    <2>. QED
        BY <1>0, <2>1, SMT
<1>8. Grows
    <2>1. ASSUME NEW d \in Chains, NEW w \in DOMAIN versions[d]
          PROVE  /\ w \in DOMAIN versions'[d]
                 /\ versions'[d][w].content = versions[d][w].content
                 /\ versions'[d][w].won = versions[d][w].won
        <3>1. CASE d = c
            <4>1. w \in DOMAIN rows /\ versions[d] = rows /\ versions'[d] = new
                BY <1>p1, <1>5, <3>1, Zenon
            <4>. QED
                BY <1>2, <1>4, <4>1, Zenon
        <3>2. CASE d # c
            BY <1>5, <3>2, Zenon
        <3>. QED
            BY <3>1, <3>2
    <2>. QED
        BY <2>1, Zenon DEF Grows
<1>9. Kept(r)
    <2>1. c # "prompt" => versions'["prompt"] = versions["prompt"]
        BY <1>5, Zenon DEF Chains
    <2>2. c # "prompt" => last'["prompt"] = last["prompt"]
        BY <1>6, Zenon DEF Chains
    <2>. QED
        BY <2>1, <2>2, Zenon DEF Kept
<1>10. Tables'
    <2>1. versions' \in [Chains -> Seq(Row)]
        BY <1>0, <1>1, <1>2, Zenon DEF Tables
    <2>2. \A d \in Chains : Len(versions'[d]) <= MaxVersions
        <3>1. Len(versions'[c]) <= MaxVersions
            BY <1>0, <1>p1, <1>2, <1>5, Zenon
        <3>2. \A d \in Chains : d # c => Len(versions'[d]) <= MaxVersions
            BY <1>0, <1>5, Zenon DEF Tables
        <3>. QED
            BY <3>1, <3>2, Zenon
    <2>3. last' \in [Chains -> 0..MaxVersions]
        <3>1. v \in 0..MaxVersions
            BY <1>7, LearningAssumption, SMT
        <3>. QED
            BY <1>0, <1>1, <3>1, Zenon DEF Tables
    <2>. QED
        BY <1>0, <2>1, <2>2, <2>3, Zenon DEF Tables
<1>11. LastActivationWins'
    <2>. SUFFICES ASSUME NEW d \in Chains, backend' = "sqlite" \/ d = "prompt"
                  PROVE  Active(d)' = {last'[d]} \ {0}
        BY Zenon DEF LastActivationWins
    <2>1. Active(d) = {last[d]} \ {0}
        BY Zenon DEF Sure, Books, LastActivationWins
    <2>2. CASE d # c
        <3>1. Active(d)' = Active(d)
            BY <1>5, <2>2, Zenon DEF Active
        <3>. QED
            BY <1>6, <2>1, <2>2, <3>1, Zenon
    <2>3. CASE d = c
        <3>1. seen = DOMAIN rows
            BY <1>p1, <2>3, Zenon
        <3>2. \A w \in DOMAIN new : new[w].active <=> w = v
            BY <1>3, <1>4, <3>1, Zenon
        <3>3. Active(d)' = {w \in DOMAIN new : new[w].active}
            BY <1>5, <2>3, Zenon DEF Active
        <3>4. v \in DOMAIN new
            BY <1>p1, <1>4, Zenon
        <3>5. Active(d)' = {v}
            BY <3>2, <3>3, <3>4, SMT
        <3>. QED
            BY <1>6, <1>7, <2>3, <3>5, Zenon
    <2>. QED
        BY <2>2, <2>3
<1>12. OnlyWinnersServe'
    <2>0. \A w \in DOMAIN versions["skill"] : versions["skill"][w].active => versions["skill"][w].won
        BY Zenon DEF OnlyWinnersServe, Active, Sure, Books
    <2>1. CASE c = "skill"
        <3>. SUFFICES ASSUME NEW w \in DOMAIN new, new[w].active PROVE new[w].won
            BY <1>5, <2>1, Zenon DEF OnlyWinnersServe, Active
        <3>1. w \in DOMAIN rows /\ (w = v \/ rows[w].active)
            BY <1>3, <1>4, Zenon
        <3>2. rows[w].won
            BY <1>p1, <2>0, <2>1, <3>1, Zenon
        <3>. QED
            BY <1>2, <3>1, <3>2, Zenon
    <2>2. CASE c # "skill"
        BY <1>5, <2>0, <2>2, Zenon DEF OnlyWinnersServe, Active, Chains
    <2>. QED
        BY <2>1, <2>2
<1>13. Books'
    <2>1. (\A d \in Chains : \A w \in evolved[d] : Winner(d, w))'
        BY <1>8, WinnersStay, Zenon DEF Sure, Books
    <2>. QED
        BY <1>8, <1>10, <1>11, <1>12, <2>1, StillLearned, Zenon DEF Books
<1>. DEFINE x == [Idle EXCEPT !.pc = "reloading"]
<1>14. x \in Thread /\ x.pc = "reloading" /\ x.used = {}
    BY IdleKnows, Zenon DEF Idle, Thread, Stages
<1>. HIDE DEF x
<1>15. Knows(x)' /\ Holds(r, x)'
    BY <1>14, Zenon DEF Knows, Holds, Carried, Measuring
<1>. QED
    BY <1>8, <1>9, <1>13, <1>14, <1>15, Carry, Zenon DEF x

\* A rollback in one transaction.
LEMMA RollbackSure ==
    ASSUME Sure, NEW r \in Requests, NEW c \in Chains, NEW v \in 1..MaxVersions, Rollback(r, c, v)
    PROVE  Sure'
<1>1. /\ backend = "sqlite" /\ MayReturn(c, v) /\ Commit(c, DOMAIN versions[c], v)
      /\ Go(r, [Idle EXCEPT !.pc = "reloading"]) /\ (c = "prompt" => lock["prompt"] = NoOne)
      /\ UNCHANGED <<evolved, backend, feedback, lock>>
    BY Zenon DEF Rollback, MayRoll, process
<1>2. v \in DOMAIN versions[c] /\ (c = "skill" => versions[c][v].won)
    BY <1>1, ReturnsWinner, Zenon DEF Sure
<1>3. lock' \in [Chains -> Requests \cup {NoOne}]
    BY <1>1, Zenon DEF Sure, Books, Tables
<1>. PICK seen : seen = DOMAIN versions[c]
    BY Zenon
<1>. QED
    BY <1>1, <1>2, <1>3, Committed, Zenon

\* A rollback on PostgreSQL commits.
LEMMA PgRollbackCommitSure ==
    ASSUME Sure, NEW r \in Requests, PgRollbackCommit(r)
    PROVE  Sure'
<1>. PICK o \in Thread : o = thr[r]
    BY Zenon DEF Sure
<1>1. /\ o.pc = "clearing" /\ o.chain \in Chains /\ Knows(o) /\ Holds(r, o)
      /\ Commit(o.chain, o.snap, o.version)
      /\ lock' = IF o.chain = "prompt" THEN [lock EXCEPT ![o.chain] = NoOne] ELSE lock
      /\ Go(r, [Idle EXCEPT !.pc = "reloading"])
      /\ UNCHANGED <<evolved, backend, feedback>>
    BY Zenon DEF Sure, PgRollbackCommit, At, Thread, process
<1>2. /\ o.version \in DOMAIN versions[o.chain] /\ backend = "postgres"
      /\ o.chain = "skill" => versions[o.chain][o.version].won
    BY <1>1, Zenon DEF Knows
<1>3. o.chain = "prompt" => lock["prompt"] = r /\ o.snap = DOMAIN versions[o.chain]
    BY <1>1, Zenon DEF Holds
<1>4. lock \in [Chains -> Requests \cup {NoOne}]
    BY Zenon DEF Sure, Books, Tables
<1>5. /\ lock' \in [Chains -> Requests \cup {NoOne}]
      /\ \A d \in Chains : lock'[d] = lock[d] \/ lock[d] \in {r, NoOne}
    BY <1>1, <1>3, <1>4, SMT
<1>. PICK c \in Chains : c = o.chain
    BY <1>1, Zenon
<1>6. Commit(c, o.snap, o.version) /\ o.version \in DOMAIN versions[c]
      /\ (c = "skill" => versions[c][o.version].won)
      /\ (backend = "sqlite" \/ c = "prompt" => o.snap = DOMAIN versions[c])
      /\ (c = "prompt" => lock["prompt"] \in {r, NoOne})
    BY <1>1, <1>2, <1>3, Zenon
<1>. QED
    BY <1>1, <1>5, <1>6, Committed, Zenon

\* A case of feedback is added unresolved.
LEMMA RecordFeedbackSure ==
    ASSUME Sure, NEW f \in Reports, RecordFeedback(f)
    PROVE  Sure'
<1>. DEFINE row == [kind |-> f.kind, rule |-> f.rule, resolved |-> FALSE]
            n == Len(feedback)
<1>0. Tables /\ feedback \in Seq(Case) /\ n \in Nat /\ DOMAIN feedback = 1..n
    BY CaseTypes, Zenon DEF Sure, Books
<1>1. /\ n < MaxReports /\ feedback' = Append(feedback, row)
      /\ UNCHANGED <<backend, tables, lock, thr>>
    BY Zenon DEF RecordFeedback, process
<1>2. row \in Case /\ row.resolved = FALSE
    <2>1. f \in [kind : Kinds, rule : Names]
        BY LearningAssumption, Zenon
    <2>. QED
        BY <2>1, Zenon DEF Case
<1>. HIDE DEF row
<1>3. /\ feedback' \in Seq(Case) /\ Len(feedback') = n + 1
      /\ feedback'[n + 1] = row
      /\ \A k \in 1..n : feedback'[k] = feedback[k]
    BY <1>0, <1>1, <1>2, AppendProperties, SMT
<1>. HIDE DEF n
<1>4. DOMAIN feedback' = 1..(n + 1) /\ 1..n \subseteq 1..(n + 1)
      /\ \A k \in 1..(n + 1) : k \in 1..n \/ k = n + 1
    BY <1>0, <1>3, SMT
<1>5. Grows
    BY <1>0, <1>1, <1>3, <1>4, Zenon DEF Grows, tables
<1>6. Tables'
    <2>1. Len(feedback') <= MaxReports
        BY <1>0, <1>1, <1>3, LearningAssumption, SMT
    <2>. QED
        BY <1>0, <1>1, <1>3, <2>1, Zenon DEF Tables, tables
<1>7. ResolvedIsLearned'
    <2>1. ASSUME NEW k \in DOMAIN feedback, feedback[k].resolved PROVE Taught(k)'
        BY <1>5, <2>1, TaughtStays, Zenon DEF Sure, Books, ResolvedIsLearned, Taught
    <2>2. ASSUME NEW k \in DOMAIN feedback', feedback'[k].resolved PROVE Taught(k)'
        <3>1. k \in 1..n /\ feedback'[k] = feedback[k]
            BY <1>2, <1>3, <1>4, <2>2, Zenon
        <3>. QED
            BY <1>0, <2>1, <2>2, <3>1, Zenon
    <2>. QED
        BY <2>2, Zenon DEF ResolvedIsLearned, Taught
<1>8. Books'
    <2>1. LastActivationWins' /\ OnlyWinnersServe'
        BY <1>1, Zenon DEF Sure, Books, LastActivationWins, OnlyWinnersServe, Active, tables
    <2>2. (\A d \in Chains : \A v \in evolved[d] : Winner(d, v))'
        BY <1>1, <1>5, WinnersStay, Zenon DEF Sure, Books, tables
    <2>. QED
        BY <1>6, <1>7, <2>1, <2>2, Zenon DEF Books
<1>9. ASSUME NEW r \in Requests PROVE Knows(thr[r])' /\ Holds(r, thr[r])'
    <2>1. PICK o \in Thread : o = thr[r]
        BY Zenon DEF Sure
    <2>2. Knows(o) /\ Holds(r, o)
        BY <2>1, Zenon DEF Sure
    <2>3. Knows(o)'
        BY <1>0, <1>5, <2>2, KnowsStays, Zenon
    <2>4. Holds(r, o)'
        BY <1>1, <2>2, Zenon DEF Holds, Content, tables
    <2>5. thr'[r] = o
        BY <1>1, <2>1, Zenon
    <2>. QED
        BY <2>3, <2>4, <2>5, Zenon DEF Knows, Holds
<1>. QED
    BY <1>1, <1>8, <1>9, Zenon DEF Sure

\* A process that starts again holds no lock and carries nothing.
LEMMA CrashSure ==
    ASSUME Sure, Crash
    PROVE  Sure'
<1>1. /\ UNCHANGED <<backend, tables, feedback>>
      /\ thr' = [r \in Requests |-> Idle] /\ lock' = [c \in Chains |-> NoOne]
    BY Zenon DEF Crash
<1>2. Books'
    <2>1. lock' \in [Chains -> Requests \cup {NoOne}]
        BY <1>1, Zenon
    <2>. QED
        BY <1>1, <2>1, Quiet, Zenon
<1>3. thr' \in [Requests -> Thread]
    BY <1>1, IdleKnows, Zenon
<1>4. \A r \in Requests : Knows(thr[r])' /\ Holds(r, thr[r])'
    BY <1>1, IdleKnows, Zenon DEF Knows, Holds
<1>. QED
    BY <1>2, <1>3, <1>4, Zenon DEF Sure

\* At the start nothing is there.
LEMMA InitSure == Init => Sure
<1>. SUFFICES ASSUME Init PROVE Sure
    OBVIOUS
<1>1. Tables
    <2>1. versions \in [Chains -> Seq(Row)] /\ \A c \in Chains : Len(versions[c]) <= MaxVersions
        BY LearningAssumption, SMT DEF Init
    <2>2. feedback \in Seq(Case) /\ Len(feedback) <= MaxReports
        BY LearningAssumption, SMT DEF Init
    <2>3. last \in [Chains -> 0..MaxVersions] /\ evolved \in [Chains -> SUBSET (1..MaxVersions)]
        BY LearningAssumption, SMT DEF Init
    <2>4. lock \in [Chains -> Requests \cup {NoOne}]
        BY Zenon DEF Init
    <2>. QED
        BY <2>1, <2>2, <2>3, <2>4, Zenon DEF Tables, Init
<1>2. \A c \in Chains : Active(c) = {} /\ last[c] = 0 /\ evolved[c] = {}
    BY SMT DEF Init, Active
<1>3. LastActivationWins /\ OnlyWinnersServe
    BY <1>2, SMT DEF LastActivationWins, OnlyWinnersServe, Chains
<1>4. ResolvedIsLearned
    <2>1. DOMAIN feedback = {}
        BY SMT DEF Init
    <2>. QED
        BY <2>1, Zenon DEF ResolvedIsLearned
<1>5. thr \in [Requests -> Thread] /\ \A r \in Requests : Knows(thr[r]) /\ Holds(r, thr[r])
    BY IdleKnows, Zenon DEF Init
<1>. QED
    BY <1>1, <1>2, <1>3, <1>4, <1>5, Zenon DEF Sure, Books

\* Every step keeps it.
LEMMA StepSure == Sure /\ [Next]_vars => Sure'
<1>. SUFFICES ASSUME Sure, [Next]_vars PROVE Sure'
    OBVIOUS
<1>1. CASE \E f \in Reports : RecordFeedback(f)
    BY <1>1, RecordFeedbackSure, Zenon
<1>2. CASE Crash
    BY <1>2, CrashSure, Zenon
<1>3. CASE UNCHANGED vars
    <2>1. UNCHANGED <<backend, tables, feedback, lock, thr>>
        BY <1>3, Zenon DEF vars, tables
    <2>2. Books' /\ Grows
        BY <2>1, Quiet, Zenon DEF Sure, Books, Tables
    <2>3. ASSUME NEW r \in Requests PROVE Knows(thr[r])' /\ Holds(r, thr[r])'
        <3>1. PICK o \in Thread : o = thr[r]
            BY Zenon DEF Sure
        <3>2. Knows(o) /\ Holds(r, o)
            BY <3>1, Zenon DEF Sure
        <3>3. Knows(o)'
            BY <2>2, <3>2, KnowsStays, Zenon DEF Sure, Books
        <3>4. Holds(r, o)'
            BY <2>1, <3>2, Zenon DEF Holds, Content, tables
        <3>5. thr'[r] = o
            BY <2>1, <3>1, Zenon
        <3>. QED
            BY <3>3, <3>4, <3>5, Zenon DEF Knows, Holds
    <2>. QED
        BY <2>1, <2>2, <2>3, Zenon DEF Sure
<1>4. ASSUME NEW r \in Requests,
             \/ AutoPrompt(r) \/ AutoSkill(r) \/ PromptCandidate(r) \/ SkillCandidate(r)
             \/ ProposePrompt(r) \/ ProposeSkill(r)
             \/ Enter(r) \/ EvaluatePrompt(r) \/ EvaluateSkill(r)
             \/ SaveVersion(r) \/ PgReadParent(r) \/ PgSaveVersion(r)
             \/ SaveRun(r) \/ ResolveFailures(r) \/ ReloadRead(r) \/ ReloadRegister(r)
             \/ RollbackPrompt(r) \/ RollbackSkill(r)
             \/ PgRollbackPrompt(r) \/ PgRollbackSkill(r) \/ PgRollbackCommit(r) \/ CallFails(r)
      PROVE  Sure'
    <2>0. "prompt" \in Chains /\ "skill" \in Chains
        BY Zenon DEF Chains
    <2>1. AutoPrompt(r) \/ AutoSkill(r) => Sure'
        BY <2>0, ListSure, Zenon DEF AutoPrompt, AutoSkill
    <2>2. ProposePrompt(r) \/ ProposeSkill(r) => Sure'
        BY <2>0, SubmitSure, Zenon DEF ProposePrompt, ProposeSkill
    <2>3. RollbackPrompt(r) \/ RollbackSkill(r) => Sure'
        BY <2>0, RollbackSure, Zenon DEF RollbackPrompt, RollbackSkill
    <2>4. PgRollbackPrompt(r) \/ PgRollbackSkill(r) => Sure'
        BY <2>0, PgRollbackBeginSure, Zenon DEF PgRollbackPrompt, PgRollbackSkill
    <2>. QED
        BY <1>4, <2>1, <2>2, <2>3, <2>4, PromptCandidateSure, SkillCandidateSure, EnterSure,
           EvaluatePromptSure, EvaluateSkillSure, SaveVersionSure, PgReadParentSure, SaveRunSure,
           ResolveSure, ReloadSure, PgRollbackCommitSure, CallFailsSure, Zenon
<1>. QED
    BY <1>1, <1>2, <1>3, <1>4, Zenon DEF Next

\* The tables and the requests agree throughout.
LEMMA SureAlways == Spec => []Sure
BY InitSure, StepSure, PTL DEF Spec

\* On SQLite for both chains, and on either database for the prompts, what serves
\* is what was activated last, alone.
THEOREM LastServes == Spec => []LastActivationWins
<1>1. Sure => LastActivationWins
    BY Zenon DEF Sure, Books
<1>. QED
    BY <1>1, SureAlways, PTL

\* No artifact serves that has not won its gate.
THEOREM WinnersServe == Spec => []OnlyWinnersServe
<1>1. Sure => OnlyWinnersServe
    BY Zenon DEF Sure, Books
<1>. QED
    BY <1>1, SureAlways, PTL

\* No case is resolved whose lesson no winner holds.
THEOREM LessonsLearned == Spec => []ResolvedIsLearned
<1>1. Sure => ResolvedIsLearned
    BY Zenon DEF Sure, Books
<1>. QED
    BY <1>1, SureAlways, PTL

-----------------------------------------------------------------------------
(* What takes over. *)

Takeover ==
    \A v \in DOMAIN versions'["prompt"] \ DOMAIN versions["prompt"] :
        versions'["prompt"][v].active =>
          /\ Improved(versions'["prompt"][v].content, Content("prompt", Serving("prompt")))
          /\ versions'["prompt"][v].parent = Serving("prompt")

\* A rollback adds no version.
LEMMA CommitAddsNone ==
    ASSUME Sure, NEW c \in Chains, NEW seen, NEW v, Commit(c, seen, v)
    PROVE  Takeover
<1>1. versions' = [versions EXCEPT ![c] = ActivateRow(versions[c], seen, v)]
    BY Zenon DEF Commit
<1>2. versions \in [Chains -> Seq(Row)] /\ "prompt" \in Chains
    BY Zenon DEF Sure, Books, Tables, Chains
<1>3. DOMAIN versions'["prompt"] = DOMAIN versions["prompt"]
    <2>1. CASE c = "prompt"
        <3>1. versions'["prompt"] = ActivateRow(versions["prompt"], seen, v)
            BY <1>1, <1>2, <2>1, Zenon
        <3>. QED
            BY <3>1, Zenon DEF ActivateRow
    <2>2. CASE c # "prompt"
        BY <1>1, <1>2, <2>2, Zenon
    <2>. QED
        BY <2>1, <2>2
<1>. QED
    BY <1>3, Zenon DEF Takeover

\* A prompt that is saved as the winner was measured against what serves.
LEMMA SaveTakesOver ==
    ASSUME Sure, NEW r \in Requests, NEW o \in Thread, o = thr[r], o.pc \in {"decided", "parented"},
           NEW parent \in 0..MaxVersions, o.chain = "prompt" => parent = Serving("prompt"),
           SaveRow(r, parent)
    PROVE  Takeover
<1>1. CASE o.chain = "prompt"
    <2>p1. PICK won \in BOOLEAN : won <=> o.decision = "activated"
        BY Zenon
    <2>0. /\ Tables /\ LastActivationWins /\ "prompt" \in Chains /\ o.cand \in SUBSET Lessons /\ Holds(r, o)
          /\ versions["prompt"] \in Seq(Row)
          /\ DOMAIN versions["prompt"] = 1..Len(versions["prompt"]) /\ Len(versions["prompt"]) \in Nat
        BY RowTypes, Zenon DEF Sure, Books, Thread, Chains
    <2>p2. PICK rows \in Seq(Row) : rows = versions["prompt"]
        BY <2>0, Zenon
    <2>p3. PICK new : new = InsertRow(rows, o.cand, parent, won)
        BY Zenon
    <2>1. versions' = [versions EXCEPT !["prompt"] = new]
        BY <1>1, <2>p1, <2>p2, <2>p3, Zenon DEF SaveRow, Won
    <2>2. versions'["prompt"] = new
        BY <2>0, <2>1, Zenon DEF Tables
    <2>3. new[Len(rows) + 1] = [content |-> o.cand, active |-> won, parent |-> parent, won |-> won]
        BY <2>0, <2>p3, InsertAdds, Zenon
    <2>4. new \in Seq(Row) /\ Len(new) = Len(rows) + 1
        <3>1. /\ InsertRow(rows, o.cand, parent, won) \in Seq(Row)
              /\ Len(InsertRow(rows, o.cand, parent, won)) = Len(rows) + 1
            BY <2>0, InsertAdds, Zenon
        <3>. QED
            BY <2>p3, <3>1, Zenon
    <2>5. \A v \in DOMAIN new \ DOMAIN rows : v = Len(rows) + 1
        BY <2>4, SMT
    <2>6. Serving("prompt") = last["prompt"]
        BY <2>0, ServingIsLast, Zenon
    <2>7. o.decision = "activated" => Improved(o.cand, Content("prompt", Serving("prompt")))
        BY <1>1, <2>0, <2>6, Zenon DEF Holds, Measuring
    <2>. SUFFICES ASSUME NEW v \in DOMAIN new \ DOMAIN rows, new[v].active
                  PROVE  /\ Improved(new[v].content, Content("prompt", Serving("prompt")))
                         /\ new[v].parent = Serving("prompt")
        BY <2>p2, <2>2, Zenon DEF Takeover
    <2>8. new[v] = [content |-> o.cand, active |-> won, parent |-> parent, won |-> won]
        BY <2>3, <2>5, Zenon
    <2>9. new[v].content = o.cand /\ new[v].parent = parent /\ (new[v].active <=> won = TRUE)
        BY <2>8, SMT
    <2>. QED
        BY <1>1, <2>p1, <2>7, <2>9, Zenon
<1>2. CASE o.chain # "prompt"
    <2>1. versions'["prompt"] = versions["prompt"]
        BY <1>2, Zenon DEF SaveRow, Sure, Books, Tables, Thread, Chains
    <2>. QED
        BY <2>1, Zenon DEF Takeover
<1>. QED
    BY <1>1, <1>2

\* A prompt takes over from the one it was measured against.
LEMMA StepTakeover == Sure /\ [Next]_vars => Takeover
<1>. SUFFICES ASSUME Sure, [Next]_vars PROVE Takeover
    OBVIOUS
<1>0. versions' = versions => Takeover
    BY Zenon DEF Takeover
<1>1. CASE (\E f \in Reports : RecordFeedback(f)) \/ Crash \/ UNCHANGED vars
    BY <1>0, <1>1, Zenon DEF RecordFeedback, Crash, vars, tables
<1>2. ASSUME NEW r \in Requests,
             \/ AutoPrompt(r) \/ AutoSkill(r) \/ PromptCandidate(r) \/ SkillCandidate(r)
             \/ ProposePrompt(r) \/ ProposeSkill(r)
             \/ Enter(r) \/ EvaluatePrompt(r) \/ EvaluateSkill(r)
             \/ SaveVersion(r) \/ PgReadParent(r) \/ PgSaveVersion(r)
             \/ SaveRun(r) \/ ResolveFailures(r) \/ ReloadRead(r) \/ ReloadRegister(r)
             \/ RollbackPrompt(r) \/ RollbackSkill(r)
             \/ PgRollbackPrompt(r) \/ PgRollbackSkill(r) \/ PgRollbackCommit(r) \/ CallFails(r)
      PROVE  Takeover
    <2>. PICK o \in Thread : o = thr[r]
        BY Zenon DEF Sure
    <2>0. "prompt" \in Chains /\ "skill" \in Chains /\ o.chain \in Chains
        BY Zenon DEF Chains, Thread
    <2>1. AutoPrompt(r) \/ AutoSkill(r) \/ PromptCandidate(r) \/ SkillCandidate(r) => Takeover
        BY <1>0, Zenon DEF AutoPrompt, AutoSkill, ListFailures, PromptCandidate, SkillCandidate, tables
    <2>2. ProposePrompt(r) \/ ProposeSkill(r) \/ Enter(r) \/ EvaluatePrompt(r) \/ EvaluateSkill(r) => Takeover
        BY <1>0, Zenon DEF ProposePrompt, ProposeSkill, Submit, Enter, EvaluatePrompt, EvaluateSkill, tables
    <2>3. PgReadParent(r) \/ SaveRun(r) \/ ResolveFailures(r) \/ ReloadRead(r) \/ ReloadRegister(r) => Takeover
        BY <1>0, Zenon DEF PgReadParent, SaveRun, ResolveFailures, ReloadRead, ReloadRegister, tables
    <2>4. PgRollbackPrompt(r) \/ PgRollbackSkill(r) \/ CallFails(r) => Takeover
        BY <1>0, Zenon DEF PgRollbackPrompt, PgRollbackSkill, PgRollbackBegin, CallFails, tables
    <2>5. RollbackPrompt(r) \/ RollbackSkill(r) => Takeover
        BY <2>0, CommitAddsNone, Zenon DEF RollbackPrompt, RollbackSkill, Rollback
    <2>6. PgRollbackCommit(r) => Takeover
        BY <2>0, CommitAddsNone, Zenon DEF PgRollbackCommit
    <2>7. ASSUME SaveVersion(r) PROVE Takeover
        <3>. PICK parent : parent = Serving(o.chain)
            BY Zenon
        <3>1. parent \in 0..MaxVersions /\ (o.chain = "prompt" => parent = Serving("prompt"))
            BY <2>0, ServingReal, Zenon DEF Sure, Books
        <3>2. o.pc = "decided" /\ SaveRow(r, parent)
            BY <2>7, Zenon DEF SaveVersion, At
        <3>. QED
            BY <3>1, <3>2, SaveTakesOver, Zenon
    <2>8. ASSUME PgSaveVersion(r) PROVE Takeover
        <3>1. o.pc = "parented" /\ SaveRow(r, o.parent) /\ o.parent \in 0..MaxVersions /\ Holds(r, o)
            BY <2>8, Zenon DEF PgSaveVersion, At, Thread, Sure
        <3>2. o.chain = "prompt" => o.parent = Serving("prompt")
            BY <3>1, ServingIsLast, Zenon DEF Holds, Sure, Books
        <3>. QED
            BY <3>1, <3>2, SaveTakesOver, Zenon
    <2>. QED
        BY <1>2, <2>1, <2>2, <2>3, <2>4, <2>5, <2>6, <2>7, <2>8
<1>. QED
    BY <1>1, <1>2, Zenon DEF Next

\* Whoever proposes and whoever rolls back, a prompt that a proposal activates
\* beats the prompt it replaces.
THEOREM TakeoversEarned == Spec => TakeoverEarned
<1>1. Sure /\ [Next]_vars =>
        [\A v \in DOMAIN versions'["prompt"] \ DOMAIN versions["prompt"] :
            versions'["prompt"][v].active =>
              /\ Improved(versions'["prompt"][v].content, Content("prompt", Serving("prompt")))
              /\ versions'["prompt"][v].parent = Serving("prompt")]_vars
    BY StepTakeover DEF Takeover
<1>. QED
    BY <1>1, SureAlways, PTL DEF Spec, TakeoverEarned

-----------------------------------------------------------------------------
(* What the process reviews with. *)

\* Request x will still register the prompt activated last, or read it first.
Owes(x) ==
    \/ x.pc = "saved" /\ x.decision = "activated"
    \/ x.pc \in {"resolving", "reloading"}
    \/ x.pc = "registering" /\ x.version = last["prompt"]

Owed ==
    ~stray =>
      /\ live = last["prompt"] \/ \E q \in Requests : Owes(thr[q])
      /\ \A q \in Requests : thr[q].pc = "registering" /\ ~Owes(thr[q]) =>
            \E p \in Requests : Owes(thr[p])

\* A step of one request moves that request only.
LEMMA Goes ==
    ASSUME NEW r \in Requests, thr \in [Requests -> Thread], NEW next, Go(r, next)
    PROVE  thr'[r] = next /\ \A q \in Requests : q # r => thr'[q] = thr[q]
BY Zenon DEF Go

\* A request that goes on owing the reload, or begins to, is enough.
LEMMA OwesNow ==
    ASSUME NEW r \in Requests, thr \in [Requests -> Thread], NEW next, Go(r, next),
           \/ next.pc = "saved" /\ next.decision = "activated"
           \/ next.pc \in {"resolving", "reloading"}
           \/ next.pc = "registering" /\ next.version = last'["prompt"]
    PROVE  Owed'
<1>1. thr'[r] = next
    BY Goes, Zenon
<1>2. Owes(thr[r])'
    BY <1>1, Zenon DEF Owes
<1>. QED
    BY <1>2, Zenon DEF Owed

\* A request that owed nothing changes nothing.
LEMMA OwedStays ==
    ASSUME Owed, NEW r \in Requests, \A q \in Requests : q # r => thr'[q] = thr[q],
           UNCHANGED <<live, last>>, thr'[r].pc # "registering",
           ~stray' => ~stray /\ ~Owes(thr[r])
    PROVE  Owed'
<1>. SUFFICES ASSUME ~stray' PROVE Owed'
    BY Zenon DEF Owed
<1>1. ~stray /\ ~Owes(thr[r])
    BY Zenon
<1>3. ASSUME NEW q \in Requests, q # r PROVE Owes(thr[q])' <=> Owes(thr[q])
    BY <1>3, Zenon DEF Owes
<1>4. (\E q \in Requests : Owes(thr[q])) => (\E q \in Requests : Owes(thr[q]))'
    BY <1>1, <1>3, Zenon
<1>5. live' = last'["prompt"] \/ (\E q \in Requests : Owes(thr[q]))'
    BY <1>1, <1>4, Zenon DEF Owed
<1>6. ASSUME NEW q \in Requests, thr'[q].pc = "registering", ~Owes(thr[q])'
      PROVE  (\E p \in Requests : Owes(thr[p]))'
    <2>1. q # r
        BY <1>6, Zenon
    <2>2. thr[q].pc = "registering" /\ ~Owes(thr[q])
        BY <1>3, <1>6, <2>1, Zenon
    <2>. QED
        BY <1>1, <1>4, <2>2, Zenon DEF Owed
<1>. QED
    BY <1>5, <1>6, Zenon DEF Owed

\* In particular when it neither activates, nor reloads, nor fails.
LEMMA QuietOwed ==
    ASSUME Owed, NEW r \in Requests, thr \in [Requests -> Thread], NEW next, Go(r, next),
           UNCHANGED <<live, last, stray>>, next.pc # "registering", ~Owes(thr[r])
    PROVE  Owed'
<1>1. thr'[r].pc # "registering" /\ \A q \in Requests : q # r => thr'[q] = thr[q]
    BY Goes, Zenon
<1>. QED
    BY <1>1, OwedStays, Zenon

\* The steps that neither activate nor reload.
LEMMA MeasureOwed ==
    ASSUME Sure, Owed, NEW r \in Requests,
           \/ AutoPrompt(r) \/ AutoSkill(r) \/ PromptCandidate(r) \/ SkillCandidate(r)
           \/ ProposePrompt(r) \/ ProposeSkill(r)
           \/ Enter(r) \/ EvaluatePrompt(r) \/ EvaluateSkill(r) \/ PgReadParent(r)
    PROVE  Owed'
<1>. PICK o \in Thread : o = thr[r]
    BY Zenon DEF Sure
<1>1. UNCHANGED <<live, last, stray>>
    BY Zenon DEF AutoPrompt, AutoSkill, ListFailures, PromptCandidate, SkillCandidate, ProposePrompt,
       ProposeSkill, Submit, Enter, EvaluatePrompt, EvaluateSkill, PgReadParent, tables, process
<1>2. thr \in [Requests -> Thread]
    BY Zenon DEF Sure
<1>3. o.pc \in {"idle", "listed", "waiting", "evaluating", "decided"}
    BY Zenon DEF AutoPrompt, AutoSkill, ListFailures, Call, PromptCandidate, SkillCandidate, ProposePrompt,
       ProposeSkill, Submit, Enter, EvaluatePrompt, EvaluateSkill, PgReadParent, At
<1>4. ~Owes(thr[r])
    BY <1>3, Zenon DEF Owes
<1>0. Idle.pc = "idle"
    BY Zenon DEF Idle
<1>5. ASSUME NEW next, Go(r, next), next.pc # "registering" PROVE Owed'
    BY <1>1, <1>2, <1>4, <1>5, QuietOwed, Zenon
<1>6. ASSUME NEW c, ListFailures(r, c) PROVE Owed'
    <2>. DEFINE x == [Idle EXCEPT !.pc = "listed", !.chain = c, !.auto = TRUE, !.used = Unresolved]
    <2>1. x.pc = "listed"
        BY Zenon DEF Idle
    <2>2. Go(r, x)
        BY <1>6, Zenon DEF ListFailures
    <2>. HIDE DEF x
    <2>. QED
        BY <1>5, <2>1, <2>2, Zenon
<1>7. ASSUME PromptCandidate(r) PROVE Owed'
    <2>. PICK base : base = Content("prompt", Serving("prompt"))
        BY Zenon
    <2>. PICK additions : additions = PromptLessons(thr[r].used) \ base
        BY Zenon
    <2>. DEFINE x == [o EXCEPT !.pc = "waiting", !.cand = base \cup additions]
    <2>1. x.pc = "waiting"
        BY Zenon DEF Thread
    <2>2. Go(r, Idle) \/ Go(r, x)
        BY <1>7, Zenon DEF PromptCandidate
    <2>. HIDE DEF x
    <2>. QED
        BY <1>5, <2>1, <2>2, <1>0, Zenon
<1>8. ASSUME SkillCandidate(r) PROVE Owed'
    <2>. PICK rules : rules = Content("skill", Serving("skill"))
        BY Zenon
    <2>. PICK used : used = SkillUses(thr[r].used, rules)
        BY Zenon
    <2>. DEFINE x == [o EXCEPT !.pc = "waiting", !.used = used, !.cand = SkillRules(used, rules)]
    <2>1. x.pc = "waiting"
        BY Zenon DEF Thread
    <2>2. Go(r, Idle) \/ Go(r, x)
        BY <1>8, Zenon DEF SkillCandidate
    <2>. HIDE DEF x
    <2>. QED
        BY <1>5, <2>1, <2>2, <1>0, Zenon
<1>9. ASSUME NEW c, Submit(r, c) PROVE Owed'
    <2>. PICK content : Go(r, [Idle EXCEPT !.pc = "waiting", !.chain = c, !.cand = content])
        BY <1>9, Zenon DEF Submit
    <2>. DEFINE x == [Idle EXCEPT !.pc = "waiting", !.chain = c, !.cand = content]
    <2>1. x.pc = "waiting" /\ Go(r, x)
        BY Zenon DEF Idle
    <2>. HIDE DEF x
    <2>. QED
        BY <1>5, <2>1, Zenon
<1>10. ASSUME Enter(r) PROVE Owed'
    <2>. PICK base : base = Serving(thr[r].chain)
        BY Zenon
    <2>. DEFINE x == [o EXCEPT !.pc = "evaluating", !.base = base]
    <2>1. x.pc = "evaluating"
        BY Zenon DEF Thread
    <2>2. Go(r, Idle) \/ Go(r, x)
        BY <1>10, Zenon DEF Enter
    <2>. HIDE DEF x
    <2>. QED
        BY <1>5, <2>1, <2>2, <1>0, Zenon
<1>11. ASSUME EvaluatePrompt(r) PROVE Owed'
    <2>. PICK g \in Gates :
            Go(r, [thr[r] EXCEPT !.pc = "decided",
                      !.decision = PromptDecision(g, thr[r].cand, Content("prompt", thr[r].base))])
        BY <1>11, Zenon DEF EvaluatePrompt
    <2>. PICK d : d = PromptDecision(g, thr[r].cand, Content("prompt", thr[r].base))
        BY Zenon
    <2>. DEFINE x == [o EXCEPT !.pc = "decided", !.decision = d]
    <2>1. x.pc = "decided" /\ Go(r, x)
        BY Zenon DEF Thread
    <2>. HIDE DEF x
    <2>. QED
        BY <1>5, <2>1, Zenon
<1>12. ASSUME EvaluateSkill(r) PROVE Owed'
    <2>. PICK g \in Gates :
            Go(r, [thr[r] EXCEPT !.pc = "decided",
                      !.decision = SkillDecision(g, thr[r].cand, Content("skill", thr[r].base))])
        BY <1>12, Zenon DEF EvaluateSkill
    <2>. PICK d : d = SkillDecision(g, thr[r].cand, Content("skill", thr[r].base))
        BY Zenon
    <2>. DEFINE x == [o EXCEPT !.pc = "decided", !.decision = d]
    <2>1. x.pc = "decided" /\ Go(r, x)
        BY Zenon DEF Thread
    <2>. HIDE DEF x
    <2>. QED
        BY <1>5, <2>1, Zenon
<1>13. ASSUME PgReadParent(r) PROVE Owed'
    <2>. PICK p : p = Serving(thr[r].chain)
        BY Zenon
    <2>. DEFINE x == [o EXCEPT !.pc = "parented", !.parent = p]
    <2>1. x.pc = "parented" /\ Go(r, x)
        BY <1>13, Zenon DEF Thread, PgReadParent
    <2>. HIDE DEF x
    <2>. QED
        BY <1>5, <2>1, Zenon
<1>. QED
    BY <1>6, <1>7, <1>8, <1>9, <1>10, <1>11, <1>12, <1>13, Zenon
       DEF AutoPrompt, AutoSkill, ProposePrompt, ProposeSkill

\* A version that is saved active owes the reload until it is made.
LEMMA SaveOwed ==
    ASSUME Sure, Owed, NEW r \in Requests, NEW parent, SaveRow(r, parent),
           thr[r].pc \in {"decided", "parented"}
    PROVE  Owed'
<1>. PICK o \in Thread : o = thr[r]
    BY Zenon DEF Sure
<1>. PICK n : n = Len(versions[o.chain]) + 1
    BY Zenon
<1>. DEFINE x == [Idle EXCEPT !.pc = "saved", !.chain = o.chain, !.auto = o.auto, !.used = o.used,
                              !.decision = o.decision, !.version = n]
<1>1. x.pc = "saved" /\ x.decision = o.decision
    BY Zenon DEF Idle
<1>2. Go(r, x) /\ UNCHANGED <<live, stray>> /\ (~Won(r) => last' = last)
    BY Zenon DEF SaveRow, process
<1>3. thr \in [Requests -> Thread]
    BY Zenon DEF Sure
<1>. HIDE DEF x
<1>4. CASE Won(r)
    BY <1>1, <1>2, <1>3, <1>4, OwesNow, Zenon DEF Won
<1>5. CASE ~Won(r)
    <2>1. ~Owes(thr[r])
        BY Zenon DEF Owes
    <2>. QED
        BY <1>1, <1>2, <1>3, <1>5, <2>1, QuietOwed, Zenon
<1>. QED
    BY <1>4, <1>5, Zenon

\* So does the run that records it.
LEMMA SaveRunOwed ==
    ASSUME Sure, Owed, NEW r \in Requests, SaveRun(r)
    PROVE  Owed'
<1>1. thr \in [Requests -> Thread] /\ UNCHANGED <<live, last, stray>> /\ thr[r].pc = "saved"
    BY Zenon DEF Sure, SaveRun, At, process
<1>. PICK used : used = thr[r].used
    BY Zenon
<1>. DEFINE x == [Idle EXCEPT !.pc = "resolving", !.used = used]
            y == [Idle EXCEPT !.pc = "reloading"]
<1>2. x.pc = "resolving" /\ y.pc = "reloading" /\ Idle.pc = "idle"
    BY Zenon DEF Idle
<1>3. Go(r, IF ~Won(r) THEN Idle ELSE IF thr[r].auto THEN x ELSE y)
    BY Zenon DEF SaveRun
<1>. HIDE DEF x, y
<1>4. CASE Won(r)
    <2>1. Go(r, x) \/ Go(r, y)
        BY <1>3, <1>4, Zenon
    <2>. QED
        BY <1>1, <1>2, <2>1, OwesNow, Zenon
<1>5. CASE ~Won(r)
    <2>1. ~Owes(thr[r]) /\ Go(r, Idle)
        BY <1>1, <1>3, <1>5, Zenon DEF Owes, Won
    <2>. QED
        BY <1>1, <1>2, <2>1, QuietOwed, Zenon
<1>. QED
    BY <1>4, <1>5, Zenon

\* Resolving goes on to the reload, a rollback to its own, and a reload reads
\* what was activated last.
LEMMA ReloadOwed ==
    ASSUME Sure, Owed, NEW r \in Requests,
           ResolveFailures(r) \/ PgRollbackCommit(r) \/ ReloadRead(r) \/ (\E c, v : Rollback(r, c, v))
    PROVE  Owed'
<1>1. thr \in [Requests -> Thread]
    BY Zenon DEF Sure
<1>. PICK v : v = last["prompt"]
    BY Zenon
<1>. DEFINE x == [Idle EXCEPT !.pc = "reloading"]
            y == [Idle EXCEPT !.pc = "registering", !.version = v]
<1>2. x.pc = "reloading" /\ y.pc = "registering" /\ y.version = v
    BY Zenon DEF Idle
<1>3. CASE Go(r, x)
    <2>. HIDE DEF x
    <2>. QED
        BY <1>1, <1>2, <1>3, OwesNow, Zenon
<1>4. CASE ReloadRead(r)
    <2>1. Serving("prompt") = v
        BY ServingIsLast, Zenon DEF Sure, Books
    <2>2. Go(r, y) /\ last' = last
        BY <1>4, <2>1, Zenon DEF ReloadRead, tables
    <2>. HIDE DEF y
    <2>. QED
        BY <1>1, <1>2, <2>2, OwesNow, Zenon
<1>. QED
    BY <1>3, <1>4, Zenon DEF ResolveFailures, PgRollbackCommit, Rollback

\* A rollback on PostgreSQL has activated nothing when it begins.
LEMMA BeginOwed ==
    ASSUME Sure, Owed, NEW r \in Requests, NEW c, NEW v, PgRollbackBegin(r, c, v)
    PROVE  Owed'
<1>. PICK rows : rows = DOMAIN versions[c]
    BY Zenon
<1>. DEFINE x == [Idle EXCEPT !.pc = "clearing", !.chain = c, !.version = v, !.snap = rows]
<1>1. x.pc = "clearing"
    BY Zenon DEF Idle
<1>2. thr \in [Requests -> Thread] /\ Go(r, x) /\ UNCHANGED <<live, last, stray>> /\ thr[r].pc = "idle"
    BY Zenon DEF Sure, PgRollbackBegin, MayRoll, Call, At, tables, process
<1>3. ~Owes(thr[r])
    BY <1>2, Zenon DEF Owes
<1>. HIDE DEF x
<1>. QED
    BY <1>1, <1>2, <1>3, QuietOwed, Zenon

\* A call that fails owing the reload is noted.
LEMMA FailOwed ==
    ASSUME Sure, Owed, NEW r \in Requests, CallFails(r)
    PROVE  Owed'
<1>1. thr \in [Requests -> Thread] /\ Go(r, Idle) /\ UNCHANGED <<live, last>>
    BY Zenon DEF Sure, CallFails, tables
<1>2. Idle.pc = "idle"
    BY Zenon DEF Idle
<1>3. ~stray' => ~stray /\ ~Owes(thr[r])
    BY Zenon DEF CallFails, At, Won, Owes
<1>4. thr'[r].pc # "registering" /\ \A q \in Requests : q # r => thr'[q] = thr[q]
    BY <1>1, <1>2, Goes, Zenon
<1>. QED
    BY <1>1, <1>3, <1>4, OwedStays, Zenon

\* A registration leaves nobody behind who read something else.
LEMMA RegisterOwed ==
    ASSUME Sure, Owed, NEW r \in Requests, ReloadRegister(r)
    PROVE  Owed'
<1>. SUFFICES ASSUME ~stray' PROVE Owed'
    BY Zenon DEF Owed
<1>1. thr \in [Requests -> Thread] /\ Go(r, Idle) /\ last' = last /\ thr[r].pc = "registering"
    BY Zenon DEF Sure, ReloadRegister, At, tables
<1>2. live' = thr[r].version /\ ~stray
    BY Zenon DEF ReloadRegister
<1>3. \A q \in Requests : thr[q].pc = "registering" => thr[q].version = thr[r].version
    BY Zenon DEF ReloadRegister, At
<1>4. Idle.pc = "idle"
    BY Zenon DEF Idle
<1>5. thr'[r].pc = "idle" /\ \A q \in Requests : q # r => thr'[q] = thr[q]
    BY <1>1, <1>4, Goes, Zenon
<1>6. ASSUME NEW q \in Requests, q # r PROVE Owes(thr[q])' <=> Owes(thr[q])
    BY <1>1, <1>5, <1>6, Zenon DEF Owes
<1>7. CASE thr[r].version = last["prompt"]
    <2>1. live' = last'["prompt"]
        BY <1>1, <1>2, <1>7, Zenon
    <2>2. ASSUME NEW q \in Requests, thr'[q].pc = "registering" PROVE Owes(thr[q])'
        <3>1. q # r
            BY <1>5, <2>2, Zenon
        <3>2. Owes(thr[q])
            BY <1>3, <1>5, <1>7, <2>2, <3>1, Zenon DEF Owes
        <3>. QED
            BY <1>6, <3>1, <3>2, Zenon
    <2>. QED
        BY <2>1, <2>2, Zenon DEF Owed
<1>8. CASE thr[r].version # last["prompt"]
    <2>1. ~Owes(thr[r])
        BY <1>1, <1>8, Zenon DEF Owes
    <2>2. PICK p \in Requests : Owes(thr[p])
        BY <1>1, <1>2, <2>1, Zenon DEF Owed
    <2>3. Owes(thr[p])'
        BY <1>6, <2>1, <2>2, Zenon
    <2>. QED
        BY <2>3, Zenon DEF Owed
<1>. QED
    BY <1>7, <1>8, Zenon

\* A process that starts reviews with what is active, and owes nothing.
LEMMA FreshOwed ==
    ASSUME live = last["prompt"], \A q \in Requests : thr[q] = Idle
    PROVE  Owed
<1>1. Idle.pc = "idle"
    BY Zenon DEF Idle
<1>2. \A q \in Requests : thr[q].pc # "registering"
    BY <1>1, Zenon
<1>. QED
    BY <1>2, Zenon DEF Owed

\* Nothing else touches what the process reviews with.
LEMMA StillOwed ==
    ASSUME Owed, UNCHANGED <<live, last, stray, thr>>
    PROVE  Owed'
BY Zenon DEF Owed, Owes

\* Every step keeps it.
LEMMA StepOwed == Sure /\ Owed /\ [Next]_vars => Owed'
<1>. SUFFICES ASSUME Sure, Owed, [Next]_vars PROVE Owed'
    OBVIOUS
<1>1. CASE UNCHANGED vars
    BY <1>1, StillOwed, Zenon DEF vars
<1>2. ASSUME NEW f, RecordFeedback(f) PROVE Owed'
    BY <1>2, StillOwed, Zenon DEF RecordFeedback, tables, process
<1>3. CASE Crash
    <2>1. Serving("prompt") = last["prompt"]
        BY ServingIsLast, Zenon DEF Sure, Books
    <2>2. live' = last'["prompt"] /\ \A q \in Requests : thr'[q] = Idle
        BY <1>3, <2>1, Zenon DEF Crash, tables
    <2>3. Idle.pc = "idle"
        BY Zenon DEF Idle
    <2>4. \A q \in Requests : thr'[q].pc # "registering"
        BY <2>2, <2>3, Zenon
    <2>. QED
        BY <2>2, <2>4, Zenon DEF Owed
<1>4. ASSUME NEW r \in Requests,
          \/ AutoPrompt(r) \/ AutoSkill(r) \/ PromptCandidate(r) \/ SkillCandidate(r)
          \/ ProposePrompt(r) \/ ProposeSkill(r)
          \/ Enter(r) \/ EvaluatePrompt(r) \/ EvaluateSkill(r)
          \/ SaveVersion(r) \/ PgReadParent(r) \/ PgSaveVersion(r)
          \/ SaveRun(r) \/ ResolveFailures(r) \/ ReloadRead(r) \/ ReloadRegister(r)
          \/ RollbackPrompt(r) \/ RollbackSkill(r)
          \/ PgRollbackPrompt(r) \/ PgRollbackSkill(r) \/ PgRollbackCommit(r) \/ CallFails(r)
      PROVE  Owed'
    <2>1. SaveVersion(r) \/ PgSaveVersion(r) => Owed'
        BY SaveOwed, Zenon DEF SaveVersion, PgSaveVersion, At
    <2>2. SaveRun(r) => Owed'
        BY SaveRunOwed, Zenon
    <2>3. ResolveFailures(r) \/ PgRollbackCommit(r) \/ ReloadRead(r) \/ RollbackPrompt(r) \/ RollbackSkill(r) => Owed'
        BY ReloadOwed, Zenon DEF RollbackPrompt, RollbackSkill
    <2>4. PgRollbackPrompt(r) \/ PgRollbackSkill(r) => Owed'
        BY BeginOwed, Zenon DEF PgRollbackPrompt, PgRollbackSkill
    <2>5. CallFails(r) => Owed'
        BY FailOwed, Zenon
    <2>6. ReloadRegister(r) => Owed'
        BY RegisterOwed, Zenon
    <2>. QED
        BY <1>4, <2>1, <2>2, <2>3, <2>4, <2>5, <2>6, MeasureOwed, Zenon
<1>. QED
    BY <1>1, <1>2, <1>3, <1>4, Zenon DEF Next

\* At rest nobody owes a reload.
LEMMA OwedFollows ==
    ASSUME Sure, Owed
    PROVE  LiveFollows
<1>1. Serving("prompt") = last["prompt"]
    BY ServingIsLast, Zenon DEF Sure, Books
<1>. SUFFICES ASSUME ~stray, \A r \in Requests : thr[r].pc = "idle" PROVE live = last["prompt"]
    BY <1>1, Zenon DEF LiveFollows, At
<1>2. \A q \in Requests : ~Owes(thr[q])
    BY Zenon DEF Owes
<1>. QED
    BY <1>2, Zenon DEF Owed

\* Whatever proposals, rollbacks, reloads and deaths there were, a process at
\* rest reviews with the active prompt, but for the cases stray records: two
\* reloads that overlapped, and a call that failed after its activation and
\* before its reload was done.
THEOREM ReviewsFollow == Spec => []LiveFollows
<1>1. Init => Owed
    <2>1. ASSUME Init PROVE live = last["prompt"] /\ \A q \in Requests : thr[q] = Idle
        BY <2>1, Zenon DEF Init, Chains
    <2>. QED
        BY <2>1, FreshOwed, Zenon
<1>. QED
    BY <1>1, StepOwed, OwedFollows, SureAlways, PTL DEF Spec

=============================================================================
