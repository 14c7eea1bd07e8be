----------------------------- MODULE Agents_proofs -----------------------------
(***************************************************************************)
(* What agents find, alone and together.                                   *)
(*                                                                         *)
(* Collaboration, for any specialists, domains, finding keys, retries,     *)
(* rounds and failing writes: what is published is supported, what         *)
(* deliberation works on is recorded, and a review fails only when         *)
(* everything was tried.  AgentTurn, for any repository file, any number   *)
(* of tasks, steps, retries, updates and mishaps: what an agent publishes  *)
(* quotes what was read, and a completed task has released its working     *)
(* memories and nobody else's summary.                                     *)
(***************************************************************************)
EXTENDS Collaboration, AgentTurn, FiniteSetTheorems, WellFoundedInduction, TLAPS

-----------------------------------------------------------------------------
(* The inductive invariant. *)

Assignment == [stage : Stages, agent : Names \cup {NoOne}, standin : BOOLEAN,
               attempt : 0 .. AgentRetries + 1, reply : Reply]

\* What is recorded of an invocation x of j, and what it can go on from.
Invoked(j, x) ==
    /\ x.stage # "idle" => x.agent \in Names /\ x.attempt >= 1
    /\ x.stage = "retry" => x.attempt <= AgentRetries
    /\ x.stage \notin {"answer", "answered"} => x.reply = NoReply
    /\ x.stage = "answered" =>
         \A k \in Keys : x.reply[k] # "none" => <<"evidence", x.agent, k, x.reply[k]>> \in transcript
    /\ x.stage = "broken" => upsets > 0
    /\ x.standin => <<"handoff", j, x.agent>> \in transcript

\* How many attempts n have failed of an assignment that has come to x.
Counted(x, n) ==
    LET before == IF x.standin THEN AgentRetries + 1 ELSE 0 IN
    /\ x.stage = "idle" => n = 0
    /\ x.stage \in {"attempt", "agent", "answer", "failure"} => n = before + x.attempt - 1
    /\ x.stage = "retry" => n = before + x.attempt
    /\ x.stage = "handoff" => n = AgentRetries + 1 /\ ~x.standin
    /\ x.stage = "failed" => n = 2 * (AgentRetries + 1)

Accounted(a) ==
    /\ IF outcome[a] = "pending" THEN Counted(job[a], failed[a]) ELSE job[a].stage = "idle"
    /\ outcome[a] = "failed" => failed[a] = 2 * (AgentRetries + 1)
    /\ phase = "planner" => outcome[a] = "pending" /\ failed[a] = 0

Told(k, q) == \E n \in Names : <<"evidence", n, k, q>> \in transcript

\* What is claimed of a key comes from somebody who has told it.
Sourced(k) ==
    /\ \A i \in DOMAIN claims[k] : Told(k, claims[k][i])
    /\ claims[k] # <<>> => source[k] \in Names
    /\ pending[k] > 0 => claims[k] # <<>>
    /\ revised[k] # "none" => Told(k, revised[k])

\* What is decided of a key rests on the last claim.
Open == {"planner", "specialists", "deliberation", "revision", "evidence"}
Decided(k) ==
    /\ phase \in Open => evidence[k] = "none"
    /\ phase \in Open \cup {"verifier"} => k \notin approved /\ published[k] = "none"
    /\ phase \in {"verifier", "arbiter", "memory", "returned"} => evidence[k] = LastClaim[k]
    /\ evidence[k] # "none" => evidence[k] = LastClaim[k]
    /\ k \in approved => evidence[k] = "sound"
    /\ published[k] # "none" => k \in approved

Jobbed    == \A j \in Jobs : Invoked(j, job[j])
Booked    == (\A a \in Specialists : Accounted(a)) /\ FailuresContained
Evidenced == \A k \in Keys : Sourced(k)
Grounded  == (\A k \in Keys : Decided(k)) /\ CritiqueCurrent
InRounds  == phase = "revision" => round < Rounds

Sound == TypeOK /\ Jobbed /\ Booked /\ Evidenced /\ Grounded /\ InRounds

-----------------------------------------------------------------------------
(* The operators of the model. *)

Less == {pair \in Nat \X Nat : pair[1] < pair[2]}

\* A set of numbers that is not empty has a least one.
LEMMA Least ==
    ASSUME NEW S \in SUBSET Nat, S # {}
    PROVE  \E m \in S : \A k \in S : m <= k
  <1>1. IsWellFoundedOn(OpToRel(<, Nat), Nat)  BY NatLessThanWellFounded, Zenon
  <1>2. IsWellFoundedOn(Less, Nat)  BY <1>1, Zenon DEF OpToRel, Less
  <1>3. PICK m \in S : \A k \in S : <<k, m>> \notin Less
    <2>1. \A R, T, U : IsWellFoundedOn(R, T) /\ U \subseteq T /\ U # {} =>
             \E x \in U : \A y \in U : ~(<<y, x>> \in R)
      BY WFMin, Zenon
    <2>. QED  BY <2>1, <1>2, Zenon
  <1>4. ASSUME NEW k \in S PROVE m <= k
    <2>1. k \in Nat /\ m \in Nat /\ <<k, m>> \notin Less  BY <1>3
    <2>2. ~(k < m)  BY <2>1, Zenon DEF Less
    <2>. QED  BY <2>1, <2>2
  <1>. QED  BY <1>3, <1>4

\* Sharing domains is counted, and so is the place in the order.
LEMMA SharedRank ==
    ASSUME NEW a \in Specialists, NEW b \in Candidates(a)
    PROVE  /\ b \in Names
           /\ Shared(a, b) \in 0 .. Cardinality(Domains[a]) /\ Cardinality(Domains[a]) \in Nat
           /\ Rank(a, b) \in Nat
  <1>1. b \in Names /\ a \in Names  BY DEF Candidates, Names
  <1>2. IsFiniteSet(Domains[a])  BY <1>1, CollaborationAssumption
  <1>3. Cardinality(Domains[a]) \in Nat  BY <1>2, FS_CardinalityType
  <1>4. Shared(a, b) \in 0 .. Cardinality(Domains[a])
    <2>1. Domains[a] \cap Domains[b] \in SUBSET Domains[a]  OBVIOUS
    <2>2. IsFiniteSet(Domains[a] \cap Domains[b])
          /\ Cardinality(Domains[a] \cap Domains[b]) <= Cardinality(Domains[a])
      BY <2>1, <1>2, FS_Subset, Zenon
    <2>3. Cardinality(Domains[a] \cap Domains[b]) \in Nat  BY <2>2, FS_CardinalityType
    <2>. QED  BY <1>3, <2>2, <2>3 DEF Shared
  <1>5. Rank(a, b) \in Nat
    <2>0. Len(Agents) \in Nat /\ DOMAIN Agents = 1 .. Len(Agents)  BY CollaborationAssumption
    <2>1. ASSUME b \in Specialists PROVE (CHOOSE i \in DOMAIN Agents : Agents[i] = b) \in Nat
      <3>1. \E i \in DOMAIN Agents : Agents[i] = b  BY <2>1 DEF Specialists, Range
      <3>2. (CHOOSE i \in DOMAIN Agents : Agents[i] = b) \in DOMAIN Agents  BY <3>1, Zenon
      <3>. QED  BY <2>0, <3>2
    <2>. QED  BY <2>0, <2>1 DEF Rank
  <1>. QED  BY <1>1, <1>3, <1>4, <1>5

\* There is a first among those that share the most domains.
LEMMA SubstituteNamed ==
    ASSUME NEW a \in Specialists
    PROVE  Substitute(a) \in Names
  <1>. DEFINE C == Candidates(a)
              D == Cardinality(Domains[a])
              Gaps == {D - Shared(a, b) : b \in C}
  <1>1. \A b \in C : b \in Names /\ Shared(a, b) \in 0 .. D /\ D \in Nat /\ Rank(a, b) \in Nat
    BY SharedRank
  <1>2. Fallback \in C  BY DEF Candidates
  <1>. HIDE DEF C, D
  <1>3. PICK g \in Gaps : \A h \in Gaps : g <= h
    <2>1. Gaps \in SUBSET Nat /\ Gaps # {}  BY <1>1, <1>2
    <2>. HIDE DEF Gaps
    <2>. QED  BY <2>1, Least
  <1>. DEFINE Closest == {b \in C : D - Shared(a, b) = g}
              Ranks == {Rank(a, b) : b \in Closest}
  <1>4. PICK n \in Ranks : \A m \in Ranks : n <= m
    <2>1. Ranks \in SUBSET Nat /\ Ranks # {}  BY <1>1, <1>3
    <2>. HIDE DEF Ranks
    <2>. QED  BY <2>1, Least
  <1>5. PICK b \in C : D - Shared(a, b) = g /\ Rank(a, b) = n  BY <1>4
  <1>6. ASSUME NEW c \in C
        PROVE  \/ Shared(a, c) < Shared(a, b)
               \/ Shared(a, c) = Shared(a, b) /\ Rank(a, b) <= Rank(a, c)
    <2>1. g <= D - Shared(a, c)  BY <1>3
    <2>2. CASE D - Shared(a, c) = g
      <3>1. n <= Rank(a, c)  BY <1>4, <2>2
      <3>. QED  BY <1>1, <1>5, <2>2, <3>1
    <2>3. CASE D - Shared(a, c) # g
      BY <1>1, <1>5, <2>1, <2>3
    <2>. QED  BY <2>2, <2>3
  <1>7. \E x \in Candidates(a) : \A c \in Candidates(a) :
           \/ Shared(a, c) < Shared(a, x)
           \/ Shared(a, c) = Shared(a, x) /\ Rank(a, x) <= Rank(a, c)
    BY <1>5, <1>6, Zenon DEF C
  <1>8. Substitute(a) \in Candidates(a)  BY <1>7, Zenon DEF Substitute
  <1>. QED  BY <1>1, <1>8 DEF C

\* The last version of what is said of a key, and how many say too little.
LEMMA ClaimFacts ==
    ASSUME NEW k \in Keys, claims \in [Keys -> Seq(Quality)]
    PROVE  /\ LastClaim[k] \in Verdict
           /\ LastClaim[k] # "none" => claims[k] # <<>> /\ Len(claims[k]) \in DOMAIN claims[k]
                                       /\ LastClaim[k] = claims[k][Len(claims[k])]
           /\ Thin(k) \in Nat
           /\ Thin(k) > 0 => claims[k] # <<>>
  <1>. DEFINE s == claims[k]
  <1>1. s \in Seq(Quality)  OBVIOUS
  <1>2. s # <<>> => Len(s) \in 1 .. Len(s) /\ s[Len(s)] \in Quality  BY <1>1
  <1>3. LastClaim[k] = IF s = <<>> THEN "none" ELSE s[Len(s)]  BY DEF LastClaim, Last
  <1>. DEFINE T == {i \in DOMAIN s : s[i] = "thin"}
  <1>4. Thin(k) = Cardinality(T)  BY DEF Thin
  <1>5. T \in SUBSET (1 .. Len(s)) /\ IsFiniteSet(1 .. Len(s))
    BY <1>1, FS_Interval
  <1>6. s = <<>> => T = {}  OBVIOUS
  <1>. HIDE DEF T, s
  <1>7. IsFiniteSet(T)  BY <1>5, FS_Subset
  <1>8. Cardinality(T) \in Nat /\ (T = {} => Cardinality(T) = 0)
    BY <1>7, FS_CardinalityType, FS_EmptySet
  <1>9. DOMAIN s = 1 .. Len(s)  BY <1>1
  <1>. QED  BY <1>2, <1>3, <1>4, <1>6, <1>8, <1>9 DEF Verdict, Quality, s

-----------------------------------------------------------------------------
(* The invocation of an agent. *)

\* The types of its parts.
LEMMA Types ==
    /\ "reviser" = Reviser /\ Reviser \notin Names /\ NoOne \notin Names /\ Specialists \subseteq Names
    /\ AgentRetries \in Nat /\ Rounds \in Nat \ {0}
    /\ Fallback \in Names
    /\ NoReply \in Reply /\ \A k \in Keys : NoReply[k] = "none"
BY CollaborationAssumption DEF Names, NoReply, Reply, Verdict, Reviser

\* The record of nobody at work.
LEMMA Nobody ==
    /\ NoJob \in Assignment
    /\ NoJob.stage = "idle" /\ ~NoJob.standin /\ NoJob.reply = NoReply
  <1>1. 0 \in 0 .. AgentRetries + 1 /\ "idle" \in Stages /\ NoReply \in Reply
    BY Types DEF Stages
  <1>. QED  BY <1>1 DEF NoJob, Assignment

\* An invocation that begins.
LEMMA Started ==
    ASSUME NEW n \in Names, NEW b \in BOOLEAN
    PROVE  /\ LET x == Start(n) IN
              /\ x \in Assignment /\ x.stage = "attempt" /\ x.agent = n /\ x.attempt = 1
              /\ x.reply = NoReply /\ x.standin = FALSE
           /\ LET x == [Start(n) EXCEPT !.standin = b] IN
              /\ x \in Assignment /\ x.stage = "attempt" /\ x.agent = n /\ x.attempt = 1
              /\ x.reply = NoReply /\ x.standin = b
  <1>. DEFINE u == [NoJob EXCEPT !.stage = "attempt"]
              v == [u EXCEPT !.agent = n]
              x == [v EXCEPT !.attempt = 1]
              y == [x EXCEPT !.standin = b]
  <1>1. 1 \in 0 .. AgentRetries + 1 /\ "attempt" \in Stages
    BY Types DEF Stages
  <1>2. u \in Assignment /\ u.stage = "attempt" /\ u.standin = FALSE /\ u.reply = NoReply
    BY <1>1, Nobody DEF Assignment
  <1>. HIDE DEF u
  <1>3. v \in Assignment /\ v.stage = "attempt" /\ v.standin = FALSE /\ v.reply = NoReply /\ v.agent = n
    BY <1>2 DEF Assignment
  <1>. HIDE DEF v
  <1>4. /\ x \in Assignment /\ x.stage = "attempt" /\ x.standin = FALSE /\ x.reply = NoReply
        /\ x.agent = n /\ x.attempt = 1
    BY <1>1, <1>3 DEF Assignment
  <1>. HIDE DEF x
  <1>5. /\ y \in Assignment /\ y.stage = "attempt" /\ y.standin = b /\ y.reply = NoReply
        /\ y.agent = n /\ y.attempt = 1
    BY <1>4 DEF Assignment
  <1>. HIDE DEF y
  <1>6. Start(n) = x /\ [Start(n) EXCEPT !.standin = b] = y
    BY Zenon DEF Start, u, v, x, y
  <1>. QED  BY <1>4, <1>5, <1>6

\* A step of an invocation changes no other; it keeps what is recorded, and
\* counts what fails.
LEMMA InvocationStep ==
    ASSUME TypeOK, NEW j \in Jobs, Invoked(j, job[j]),
           Invoke(j) \/ (j \in Specialists /\ Handoff(j))
    PROVE  /\ job' \in [Jobs -> Assignment] /\ \A i \in Jobs \ {j} : job'[i] = job[i]
           /\ transcript \subseteq transcript'
           /\ failed' \in [Specialists -> Nat] /\ \A a \in Specialists \ {j} : failed'[a] = failed[a]
           /\ upsets' \in Nat /\ upsets' >= upsets
           /\ Invoked(j, job[j])'
           /\ j \in Specialists /\ Counted(job[j], failed[j]) => Counted(job[j], failed[j])'
           /\ job[j].stage # "idle"
  <1>. DEFINE x == job[j]
              y == job'[j]
              n == failed[j]
              m == failed'[j]
              Same == y.agent = x.agent /\ y.standin = x.standin
  <1>0. /\ x \in Assignment /\ job \in [Jobs -> Assignment] /\ upsets \in Nat
        /\ failed \in [Specialists -> Nat] /\ AgentRetries \in Nat
    BY Types DEF TypeOK, Assignment
  <1>1. ASSUME NEW s \in Stages, Go(j, s)
        PROVE  /\ job' \in [Jobs -> Assignment] /\ \A i \in Jobs \ {j} : job'[i] = job[i]
               /\ Same /\ y.stage = s /\ y.attempt = x.attempt /\ y.reply = x.reply
    <2>1. [x EXCEPT !.stage = s] \in Assignment  BY <1>0 DEF Assignment
    <2>2. job' = [job EXCEPT ![j] = [x EXCEPT !.stage = s]]  BY <1>1 DEF Go
    <2>3. job' \in [Jobs -> Assignment] /\ y = [x EXCEPT !.stage = s]  BY <1>0, <2>1, <2>2
    <2>. QED  BY <1>0, <2>2, <2>3 DEF Assignment
  <1>2. ASSUME Breaks(j), x.stage \notin {"answer", "answered", "idle"}
        PROVE  /\ job' \in [Jobs -> Assignment] /\ \A i \in Jobs \ {j} : job'[i] = job[i]
               /\ UNCHANGED <<transcript, failed>> /\ upsets' \in Nat /\ upsets' >= upsets
               /\ Invoked(j, job[j])' /\ (j \in Specialists => Counted(job[j], failed[j])')
    <2>1. Go(j, "broken") /\ "broken" \in Stages /\ UNCHANGED <<transcript, failed>>
      BY <1>2 DEF Breaks, Stages
    <2>2. upsets' \in Nat /\ upsets' >= upsets /\ upsets' > 0
      BY <1>0, <1>2 DEF Breaks, Upset
    <2>3. /\ job' \in [Jobs -> Assignment] /\ \A i \in Jobs \ {j} : job'[i] = job[i]
          /\ Same /\ y.stage = "broken" /\ y.attempt = x.attempt /\ y.reply = x.reply
      BY <1>1, <2>1
    <2>4. Invoked(j, job[j])'  BY <1>2, <2>1, <2>2, <2>3 DEF Invoked
    <2>5. Counted(job[j], failed[j])'  BY <2>3 DEF Counted
    <2>. QED  BY <2>1, <2>2, <2>3, <2>4, <2>5
  <1>3. CASE Attempt(j)
    <2>1. CASE Breaks(j)  BY <1>0, <1>2, <1>3, <2>1 DEF Attempt, At
    <2>2. CASE Go(j, "agent") /\ UNCHANGED <<transcript, failed, upsets>>
      <3>1. x.stage = "attempt" /\ "agent" \in Stages  BY <1>3 DEF Attempt, At, Stages
      <3>2. /\ job' \in [Jobs -> Assignment] /\ \A i \in Jobs \ {j} : job'[i] = job[i]
            /\ Same /\ y.stage = "agent" /\ y.attempt = x.attempt /\ y.reply = x.reply
        BY <1>1, <2>2, <3>1
      <3>3. Invoked(j, job[j])'  BY <2>2, <3>1, <3>2 DEF Invoked
      <3>4. Counted(x, n) => Counted(job[j], failed[j])'  BY <2>2, <3>1, <3>2 DEF Counted
      <3>. QED  BY <1>0, <2>2, <3>1, <3>2, <3>3, <3>4
    <2>. QED  BY <1>3, <2>1, <2>2 DEF Attempt
  <1>4. CASE Answer(j)
    <2>1. x.stage = "agent" /\ UNCHANGED <<transcript, failed, upsets>>  BY <1>4 DEF Answer, At
    <2>2. PICK r \in Reply : job' = [job EXCEPT ![j].stage = "answer", ![j].reply = r]
      BY <1>4 DEF Answer
    <2>3. [[x EXCEPT !.stage = "answer"] EXCEPT !.reply = r] \in Assignment
      BY <1>0 DEF Assignment, Stages
    <2>4. job' \in [Jobs -> Assignment] /\ (\A i \in Jobs \ {j} : job'[i] = job[i])
          /\ y = [[x EXCEPT !.stage = "answer"] EXCEPT !.reply = r]
      BY <1>0, <2>2, <2>3
    <2>5. Same /\ y.stage = "answer" /\ y.attempt = x.attempt  BY <1>0, <2>4 DEF Assignment
    <2>6. Invoked(j, job[j])'  BY <2>1, <2>5 DEF Invoked
    <2>7. Counted(x, n) => Counted(job[j], failed[j])'  BY <2>1, <2>5 DEF Counted
    <2>. QED  BY <1>0, <2>1, <2>4, <2>6, <2>7
  <1>5. CASE Raise(j)
    <2>1. /\ x.stage = "agent" /\ "failure" \in Stages /\ Go(j, "failure")
          /\ UNCHANGED <<transcript, failed, upsets>>
      BY <1>5 DEF Raise, At, Stages
    <2>2. /\ job' \in [Jobs -> Assignment] /\ \A i \in Jobs \ {j} : job'[i] = job[i]
          /\ Same /\ y.stage = "failure" /\ y.attempt = x.attempt /\ y.reply = x.reply
      BY <1>1, <2>1
    <2>3. Invoked(j, job[j])'  BY <2>1, <2>2 DEF Invoked
    <2>4. Counted(x, n) => Counted(job[j], failed[j])'  BY <2>1, <2>2 DEF Counted
    <2>. QED  BY <1>0, <2>1, <2>2, <2>3, <2>4
  <1>6. CASE Report(j)
    <2>0. x.stage = "answer"  BY <1>6 DEF Report, At
    <2>1. CASE transcript' = transcript \cup Statements(j) /\ Go(j, "answered") /\ UNCHANGED <<failed, upsets>>
      <3>1. /\ job' \in [Jobs -> Assignment] /\ \A i \in Jobs \ {j} : job'[i] = job[i]
            /\ Same /\ y.stage = "answered" /\ y.attempt = x.attempt /\ y.reply = x.reply
        BY <1>1, <2>1 DEF Stages
      <3>2. \A k \in Keys : y.reply[k] # "none" => <<"evidence", y.agent, k, y.reply[k]>> \in transcript'
        BY <2>1, <3>1 DEF Statements
      <3>3. Invoked(j, job[j])'  BY <2>0, <2>1, <3>1, <3>2 DEF Invoked
      <3>4. Counted(job[j], failed[j])'  BY <3>1 DEF Counted
      <3>. QED  BY <1>0, <2>0, <2>1, <3>1, <3>3, <3>4
    <2>2. CASE /\ Upset /\ UNCHANGED <<transcript, failed>>
               /\ job' = [job EXCEPT ![j].stage = "failure", ![j].reply = NoReply]
      <3>1. [[x EXCEPT !.stage = "failure"] EXCEPT !.reply = NoReply] \in Assignment
        BY <1>0, Types DEF Assignment, Stages
      <3>2. job' \in [Jobs -> Assignment] /\ (\A i \in Jobs \ {j} : job'[i] = job[i])
            /\ y = [[x EXCEPT !.stage = "failure"] EXCEPT !.reply = NoReply]
        BY <1>0, <2>2, <3>1
      <3>3. Same /\ y.stage = "failure" /\ y.attempt = x.attempt /\ y.reply = NoReply
        BY <1>0, <3>2 DEF Assignment
      <3>4. upsets' \in Nat /\ upsets' >= upsets  BY <1>0, <2>2 DEF Upset
      <3>5. Invoked(j, job[j])'
        <4>1. transcript' = transcript /\ Invoked(j, x)  BY <2>2
        <4>. QED  BY <2>0, <3>3, <4>1 DEF Invoked
      <3>6. Counted(x, n) => Counted(job[j], failed[j])'  BY <2>0, <2>2, <3>3 DEF Counted
      <3>. QED  BY <1>0, <2>0, <2>2, <3>2, <3>4, <3>5, <3>6
    <2>. QED  BY <1>6, <2>1, <2>2 DEF Report
  <1>7. CASE NoteFailure(j)
    <2>0. x.stage = "failure"  BY <1>7 DEF NoteFailure, At
    <2>1. CASE Breaks(j)  BY <1>0, <1>2, <2>0, <2>1
    <2>2. CASE /\ Go(j, IF RetriesLeft(j) THEN "retry" ELSE IF HandsOn(j) THEN "handoff" ELSE "failed")
               /\ failed' = [a \in Specialists |-> failed[a] + (IF a = j THEN 1 ELSE 0)]
               /\ UNCHANGED <<transcript, upsets>>
      <3>. DEFINE s == IF RetriesLeft(j) THEN "retry" ELSE IF HandsOn(j) THEN "handoff" ELSE "failed"
      <3>1. s \in Stages  BY DEF Stages
      <3>2. /\ job' \in [Jobs -> Assignment] /\ \A i \in Jobs \ {j} : job'[i] = job[i]
            /\ Same /\ y.stage = s /\ y.attempt = x.attempt /\ y.reply = x.reply
        <4>. HIDE DEF s
        <4>1. Go(j, s)  BY <2>2 DEF s
        <4>. QED  BY <1>1, <3>1, <4>1
      <3>3. /\ failed' \in [Specialists -> Nat] /\ \A a \in Specialists \ {j} : failed'[a] = failed[a]
            /\ j \in Specialists => m = n + 1
        BY <1>0, <2>2
      <3>4. x.attempt \in Nat /\ x.attempt <= AgentRetries + 1 /\ x.standin \in BOOLEAN
        BY <1>0 DEF Assignment
      <3>5. Invoked(j, job[j])'  BY <2>0, <2>2, <3>2 DEF Invoked, RetriesLeft
      <3>6. ASSUME j \in Specialists, Counted(x, n) PROVE Counted(job[j], failed[j])'
        <4>1. j # Reviser /\ n \in Nat  BY <1>0, <3>6, Types
        <4>2. n = (IF x.standin THEN AgentRetries + 1 ELSE 0) + x.attempt - 1  BY <2>0, <3>6 DEF Counted
        <4>3. ~RetriesLeft(j) => x.attempt = AgentRetries + 1  BY <1>0, <3>4 DEF RetriesLeft
        <4>4. HandsOn(j) <=> ~x.standin  BY <4>1 DEF HandsOn
        <4>. QED  BY <1>0, <3>2, <3>3, <3>4, <3>6, <4>1, <4>2, <4>3, <4>4 DEF Counted
      <3>. QED  BY <1>0, <2>0, <2>2, <3>2, <3>3, <3>5, <3>6
    <2>. QED  BY <1>7, <2>1, <2>2 DEF NoteFailure
  <1>8. CASE Retry(j)
    <2>0. x.stage = "retry"  BY <1>8 DEF Retry, At
    <2>1. CASE Breaks(j)  BY <1>0, <1>2, <2>0, <2>1
    <2>2. CASE /\ job' = [job EXCEPT ![j].stage = "attempt", ![j].attempt = @ + 1]
               /\ UNCHANGED <<transcript, failed, upsets>>
      <3>0. x.attempt \in Nat /\ x.attempt + 1 \in 0 .. AgentRetries + 1
        BY <1>0, <2>0 DEF Assignment, Invoked
      <3>1. [[x EXCEPT !.stage = "attempt"] EXCEPT !.attempt = x.attempt + 1] \in Assignment
        BY <1>0, <3>0 DEF Assignment, Stages
      <3>2. job' \in [Jobs -> Assignment] /\ (\A i \in Jobs \ {j} : job'[i] = job[i])
            /\ y = [[x EXCEPT !.stage = "attempt"] EXCEPT !.attempt = x.attempt + 1]
        BY <1>0, <2>2, <3>1
      <3>3. Same /\ y.stage = "attempt" /\ y.attempt = x.attempt + 1 /\ y.reply = x.reply
        BY <1>0, <3>2 DEF Assignment
      <3>4. Invoked(j, job[j])'
        <4>1. y.attempt >= 1 /\ transcript' = transcript /\ Invoked(j, x)  BY <2>2, <3>0, <3>3
        <4>. QED  BY <2>0, <3>3, <4>1 DEF Invoked
      <3>5. Counted(x, n) => Counted(job[j], failed[j])'
        BY <1>0, <2>0, <2>2, <3>0, <3>3 DEF Counted
      <3>. QED  BY <1>0, <2>0, <2>2, <3>2, <3>4, <3>5
    <2>. QED  BY <1>8, <2>1, <2>2 DEF Retry
  <1>9. CASE j \in Specialists /\ Handoff(j)
    <2>0. x.stage = "handoff"  BY <1>9 DEF Handoff, At
    <2>1. CASE Breaks(j)  BY <1>0, <1>2, <2>0, <2>1
    <2>2. CASE /\ transcript' = transcript \cup {<<"handoff", j, Substitute(j)>>}
               /\ job' = [job EXCEPT ![j] = [Start(Substitute(j)) EXCEPT !.standin = TRUE]]
               /\ UNCHANGED <<failed, upsets>>
      <3>. DEFINE z == [Start(Substitute(j)) EXCEPT !.standin = TRUE]
      <3>1. Substitute(j) \in Names  BY <1>9, SubstituteNamed
      <3>2. /\ z \in Assignment /\ z.stage = "attempt" /\ z.agent = Substitute(j)
            /\ z.attempt = 1 /\ z.reply = NoReply /\ z.standin = TRUE
        BY <3>1, Started
      <3>. HIDE DEF z
      <3>3. job' = [job EXCEPT ![j] = z]  BY <2>2 DEF z
      <3>4. job' \in [Jobs -> Assignment] /\ (\A i \in Jobs \ {j} : job'[i] = job[i]) /\ y = z
        BY <1>0, <3>2, <3>3
      <3>5. Invoked(j, job[j])'
        <4>0. y.attempt >= 1 /\ y.agent = Substitute(j)  BY <3>2, <3>4
        <4>1. <<"handoff", j, y.agent>> \in transcript'
          <5>1. transcript' = transcript \cup {<<"handoff", j, Substitute(j)>>}  BY <2>2
          <5>. HIDE DEF y
          <5>. QED  BY <4>0, <5>1
        <4>. QED  BY <3>1, <3>2, <3>4, <4>0, <4>1 DEF Invoked
      <3>6. Counted(x, n) => Counted(job[j], failed[j])'
        <4>1. failed' = failed  BY <2>2
        <4>. QED  BY <1>0, <2>0, <3>2, <3>4, <4>1 DEF Counted
      <3>. QED  BY <1>0, <2>0, <2>2, <3>4, <3>5, <3>6
    <2>. QED  BY <1>9, <2>1, <2>2 DEF Handoff
  <1>. QED  BY <1>3, <1>4, <1>5, <1>6, <1>7, <1>8, <1>9 DEF Invoke

-----------------------------------------------------------------------------
(* Every step keeps the invariant. *)

\* What was told is told, and an invocation that does not go on is as it was.
LEMMA RecordKept ==
    ASSUME transcript \subseteq transcript', upsets \in Nat, upsets' \in Nat, upsets' >= upsets
    PROVE  /\ \A k, q : Told(k, q) => Told(k, q)'
           /\ \A j, x : Invoked(j, x) => Invoked(j, x)'
  <1>1. ASSUME NEW k, NEW q, Told(k, q) PROVE Told(k, q)'  BY <1>1 DEF Told
  <1>2. ASSUME NEW j, NEW x, Invoked(j, x) PROVE Invoked(j, x)'  BY <1>2 DEF Invoked
  <1>. QED  BY <1>1, <1>2

\* A step of an invocation.
LEMMA JobStep ==
    ASSUME Sound, NEW j \in Jobs, Invoke(j) \/ (j \in Specialists /\ Handoff(j)),
           phase \in {"specialists", "revision"}, UNCHANGED <<phase, outcome, dialogue, late, tries>>
    PROVE  Sound'
  <1>0. /\ TypeOK /\ Invoked(j, job[j]) /\ upsets \in Nat /\ failed \in [Specialists -> Nat]
        /\ UNCHANGED <<claims, source, round, pending, topic, revised, critique, evidence, approved, published>>
    BY DEF Sound, Jobbed, TypeOK, dialogue
  <1>1. /\ job' \in [Jobs -> Assignment] /\ \A i \in Jobs \ {j} : job'[i] = job[i]
        /\ transcript \subseteq transcript'
        /\ failed' \in [Specialists -> Nat] /\ \A a \in Specialists \ {j} : failed'[a] = failed[a]
        /\ upsets' \in Nat /\ upsets' >= upsets
        /\ Invoked(j, job[j])'
        /\ j \in Specialists /\ Counted(job[j], failed[j]) => Counted(job[j], failed[j])'
        /\ job[j].stage # "idle"
    BY <1>0, InvocationStep
  <1>2. (\A k, q : Told(k, q) => Told(k, q)') /\ (\A i, x : Invoked(i, x) => Invoked(i, x)')
    BY <1>0, <1>1, RecordKept
  <1>3. TypeOK'  BY <1>0, <1>1 DEF TypeOK, Assignment
  <1>4. Jobbed'
    <2>1. ASSUME NEW i \in Jobs PROVE Invoked(i, job[i])'
      <3>1. CASE i = j  BY <1>1, <3>1
      <3>2. CASE i # j
        <4>1. Invoked(i, job[i]) /\ job'[i] = job[i]  BY <1>1, <3>2 DEF Sound, Jobbed
        <4>2. \A x : Invoked(i, x) => Invoked(i, x)'  BY <1>2
        <4>. QED  BY <4>1, <4>2 DEF Invoked
      <3>. QED  BY <3>1, <3>2
    <2>. QED  BY <2>1 DEF Jobbed
  <1>5. Booked'
    <2>1. ASSUME NEW a \in Specialists PROVE Accounted(a)'
      <3>0. Accounted(a) /\ phase' = phase /\ outcome' = outcome /\ phase # "planner" /\ a \in Jobs
        BY DEF Sound, Booked, Jobs
      <3>1. CASE a = j
        <4>1. outcome[a] = "pending"  BY <1>1, <3>0, <3>1 DEF Accounted
        <4>2. Counted(job[j], failed[j])'  BY <1>1, <3>0, <3>1, <4>1 DEF Accounted
        <4>. QED  BY <3>0, <3>1, <4>1, <4>2 DEF Accounted
      <3>2. CASE a # j  BY <1>1, <3>0, <3>2 DEF Accounted, Counted
      <3>. QED  BY <3>1, <3>2
    <2>. QED  BY <2>1 DEF Booked, FailuresContained
  <1>6. Evidenced'
    <2>1. ASSUME NEW k \in Keys PROVE Sourced(k)'
      <3>1. Sourced(k)  BY DEF Sound, Evidenced
      <3>2. \A q : Told(k, q) => Told(k, q)'  BY <1>2
      <3>. QED  BY <1>0, <3>1, <3>2 DEF Sourced, Told
    <2>. QED  BY <2>1 DEF Evidenced
  <1>7. Grounded' /\ InRounds'
    <2>1. LastClaim' = LastClaim  BY <1>0 DEF LastClaim
    <2>. QED  BY <1>0, <2>1 DEF Sound, Grounded, InRounds, Decided, CritiqueCurrent
  <1>. QED  BY <1>3, <1>4, <1>5, <1>6, <1>7 DEF Sound

\* A step of the main thread, or its end, that leaves all but the phase.
LEMMA PhaseStep ==
    ASSUME Sound, UNCHANGED <<job, outcome, dialogue, transcript, failed, tries>>,
           upsets' \in Nat, upsets' >= upsets, late' \in BOOLEAN,
           \/ phase' = "raised" /\ (upsets' > 0 \/ late' \/ \A a \in Specialists : outcome[a] = "failed")
           \/ phase = "specialists" /\ phase' = "deliberation"
           \/ phase = "memory" /\ phase' = "returned"
    PROVE  Sound'
  <1>0. /\ TypeOK /\ upsets \in Nat
        /\ UNCHANGED <<claims, source, round, pending, topic, revised, critique, evidence, approved, published>>
    BY DEF Sound, TypeOK, dialogue
  <1>2. (\A k, q : Told(k, q) => Told(k, q)') /\ (\A i, x : Invoked(i, x) => Invoked(i, x)')
    BY <1>0, RecordKept
  <1>3. TypeOK'  BY <1>0 DEF TypeOK, Nodes
  <1>4. Jobbed'
    <2>1. ASSUME NEW i \in Jobs PROVE Invoked(i, job[i])'
      <3>1. Invoked(i, job[i]) /\ job'[i] = job[i]  BY DEF Sound, Jobbed
      <3>2. \A x : Invoked(i, x) => Invoked(i, x)'  BY <1>2
      <3>. QED  BY <3>1, <3>2 DEF Invoked
    <2>. QED  BY <2>1 DEF Jobbed
  <1>5. Booked'
    <2>1. ASSUME NEW a \in Specialists PROVE Accounted(a)'
      BY DEF Sound, Booked, Accounted, Counted
    <2>2. FailuresContained'
      <3>1. CASE \A a \in Specialists : outcome[a] = "failed"
        BY <3>1 DEF Sound, Booked, Accounted, FailuresContained
      <3>2. CASE phase' # "raised" \/ upsets' > 0 \/ late'
        BY <3>2 DEF FailuresContained
      <3>. QED  BY <3>1, <3>2
    <2>. QED  BY <2>1, <2>2 DEF Booked
  <1>6. Evidenced'
    BY <1>0 DEF Sound, Evidenced, Sourced, Told
  <1>7. Grounded' /\ InRounds'
    <2>1. LastClaim' = LastClaim  BY <1>0 DEF LastClaim
    <2>. QED  BY <1>0, <2>1 DEF Sound, Grounded, InRounds, Decided, CritiqueCurrent, Open
  <1>. QED  BY <1>3, <1>4, <1>5, <1>6, <1>7 DEF Sound

\* A call that begins.
Blank ==
    /\ phase = "planner"
    /\ job = [j \in Jobs |-> NoJob]
    /\ outcome = [a \in Specialists |-> "pending"]
    /\ claims = [k \in Keys |-> <<>>]
    /\ source = [k \in Keys |-> NoOne]
    /\ round = 1
    /\ pending = [k \in Keys |-> 0] /\ topic = NoKey
    /\ revised = NoReply /\ critique = NoReply /\ evidence = NoReply /\ published = NoReply
    /\ approved = {}
    /\ late = FALSE
    /\ failed = [a \in Specialists |-> 0]
    /\ tries \in Nat /\ upsets \in Nat

\* Nothing has been said or decided yet.
LEMMA BlankSound == Blank => Sound
  <1>. SUFFICES ASSUME Blank PROVE Sound  OBVIOUS
  <1>1. TypeOK
    <2>1. job \in [Jobs -> Assignment]  BY Nobody DEF Blank
    <2>2. 1 \in 1 .. Rounds /\ <<>> \in Seq(Quality)  BY Types
    <2>3. claims \in [Keys -> Seq(Quality)] /\ source \in [Keys -> Names \cup {NoOne}]
          /\ round \in 1 .. Rounds /\ pending \in [Keys -> Nat] /\ topic \in Keys \cup {NoKey}
      BY <2>2 DEF Blank
    <2>4. revised \in Reply /\ critique \in Reply /\ evidence \in Reply /\ published \in Reply
      BY Types DEF Blank
    <2>5. phase \in Nodes /\ outcome \in [Specialists -> {"pending", "completed", "failed"}]
          /\ approved \subseteq Keys /\ late \in BOOLEAN /\ failed \in [Specialists -> Nat]
          /\ tries \in Nat /\ upsets \in Nat
      BY DEF Blank, Nodes
    <2>6. phase \in Nodes \cup {"returned", "raised"}  BY <2>5
    <2>. QED  BY <2>1, <2>3, <2>4, <2>5, <2>6, Zenon DEF TypeOK, Assignment
  <1>2. Jobbed  BY Nobody DEF Jobbed, Invoked, Blank
  <1>3. Booked
    <2>1. ASSUME NEW a \in Specialists PROVE Accounted(a)
      <3>1. job[a] = NoJob /\ outcome[a] = "pending" /\ failed[a] = 0  BY DEF Blank, Jobs
      <3>. QED  BY <3>1, Nobody DEF Accounted, Counted
    <2>. QED  BY <2>1 DEF Booked, FailuresContained, Blank
  <1>4. Evidenced  BY Types DEF Evidenced, Sourced, Blank
  <1>5. Grounded  BY Types DEF Grounded, Decided, CritiqueCurrent, Blank
  <1>6. InRounds  BY DEF InRounds, Blank
  <1>. QED  BY <1>1, <1>2, <1>3, <1>4, <1>5, <1>6 DEF Sound

\* The harness calls it again.
LEMMA TryAgainStep == ASSUME Sound, TryAgain PROVE Sound'
  <1>1. Blank'  BY DEF TryAgain, Blank, Sound, TypeOK
  <1>2. Blank' => Sound'  BY BlankSound, PTL
  <1>. QED  BY <1>1, <1>2

\* The assignments are given out.
LEMMA PlanStep == ASSUME Sound, Plan PROVE Sound'
  <1>0. /\ TypeOK /\ phase = "planner" /\ Enter("specialists")
        /\ job' = [j \in Jobs |-> IF j = Reviser THEN NoJob ELSE Start(j)]
        /\ UNCHANGED <<outcome, transcript, failed, tries, upsets>>
        /\ UNCHANGED <<claims, source, round, pending, topic, revised, critique, evidence, approved, published>>
    BY DEF Sound, Plan, In, dialogue
  <1>1. phase' \in {"specialists", "raised"} /\ late' \in BOOLEAN /\ (phase' = "raised" => late')
    BY <1>0 DEF Enter, TypeOK
  <1>2. ASSUME NEW j \in Jobs
        PROVE  /\ job'[j] \in Assignment /\ ~job'[j].standin /\ job'[j].reply = NoReply
               /\ IF j = Reviser THEN job'[j].stage = "idle"
                  ELSE job'[j].stage = "attempt" /\ job'[j].agent \in Names /\ job'[j].attempt = 1
    <2>1. j # Reviser => j \in Names  BY Types DEF Jobs
    <2>. QED  BY <1>0, <2>1, Started, Nobody
  <1>3. TypeOK'
    <2>1. job' \in [Jobs -> Assignment]  BY <1>0, <1>2
    <2>. QED  BY <1>0, <1>1, <2>1 DEF TypeOK, Assignment, Nodes
  <1>4. Jobbed'
    <2>1. ASSUME NEW j \in Jobs PROVE Invoked(j, job[j])'
      BY <1>2 DEF Invoked
    <2>. QED  BY <2>1 DEF Jobbed
  <1>5. Booked'
    <2>1. ASSUME NEW a \in Specialists PROVE Accounted(a)'
      <3>1. a \in Jobs /\ a # Reviser  BY Types DEF Jobs
      <3>2. /\ ~job'[a].standin /\ job'[a].stage = "attempt" /\ job'[a].attempt = 1
            /\ outcome'[a] = "pending" /\ failed'[a] = 0
        BY <1>0, <1>2, <3>1 DEF Sound, Booked, Accounted
      <3>. QED  BY <3>2 DEF Accounted, Counted
    <2>. QED  BY <1>1, <2>1 DEF Booked, FailuresContained
  <1>6. Evidenced'  BY <1>0 DEF Sound, Evidenced, Sourced, Told
  <1>7. Grounded' /\ InRounds'
    <2>1. LastClaim' = LastClaim  BY <1>0 DEF LastClaim
    <2>. QED  BY <1>0, <1>1, <2>1 DEF Sound, Grounded, InRounds, Decided, CritiqueCurrent, Open
  <1>. QED  BY <1>3, <1>4, <1>5, <1>6, <1>7 DEF Sound

\* What a specialist has found is gathered.
LEMMA GatherStep == ASSUME Sound, NEW a \in Specialists, Gather(a) PROVE Sound'
  <1>. DEFINE said == IF At(a, "answered") THEN job[a].reply ELSE NoReply
  <1>0. /\ TypeOK /\ phase = "specialists" /\ outcome[a] = "pending" /\ job[a].stage \in {"answered", "failed"}
        /\ outcome' = [outcome EXCEPT ![a] = IF At(a, "answered") THEN "completed" ELSE "failed"]
        /\ claims' = [k \in Keys |-> IF said[k] = "none" THEN claims[k] ELSE Append(claims[k], said[k])]
        /\ source' = [k \in Keys |-> IF said[k] # "none" /\ source[k] = NoOne
                                          THEN job[a].agent ELSE source[k]]
        /\ job' = [job EXCEPT ![a] = NoJob]
        /\ UNCHANGED <<phase, round, pending, topic, revised, critique, evidence, approved, published,
                       transcript, late, failed, tries, upsets>>
        /\ a \in Jobs /\ job \in [Jobs -> Assignment] /\ claims \in [Keys -> Seq(Quality)]
    BY DEF Sound, Gather, In, Jobs, TypeOK, Assignment
  <1>1. job[a].agent \in Names /\ said \in Reply
        /\ \A k \in Keys : said[k] # "none" => Told(k, said[k]) /\ said[k] \in Quality
    <2>1. Invoked(a, job[a]) /\ job[a] \in Assignment  BY <1>0 DEF Sound, Jobbed
    <2>2. job[a].agent \in Names  BY <1>0, <2>1 DEF Invoked
    <2>3. said \in Reply  BY <2>1, Types DEF Assignment
    <2>4. ASSUME NEW k \in Keys, said[k] # "none" PROVE Told(k, said[k]) /\ said[k] \in Quality
      <3>1. At(a, "answered")  BY <2>4, Types
      <3>2. said[k] \in Verdict  BY <2>3 DEF Reply
      <3>. QED  BY <2>1, <2>2, <2>4, <3>1, <3>2 DEF Invoked, At, Told, Verdict
    <2>. QED  BY <2>2, <2>3, <2>4
  <1>. HIDE DEF said
  <1>2. ASSUME NEW k \in Keys
        PROVE  /\ claims'[k] \in Seq(Quality) /\ source'[k] \in Names \cup {NoOne}
               /\ said[k] = "none" => claims'[k] = claims[k] /\ source'[k] = source[k]
               /\ said[k] # "none" =>
                    /\ Len(claims'[k]) = Len(claims[k]) + 1 /\ claims'[k] # <<>>
                    /\ \A i \in DOMAIN claims[k] : claims'[k][i] = claims[k][i]
                    /\ claims'[k][Len(claims[k]) + 1] = said[k]
                    /\ source'[k] \in Names
    <2>1. source[k] \in Names \cup {NoOne} /\ claims[k] \in Seq(Quality)  BY <1>0 DEF TypeOK
    <2>2. CASE said[k] = "none"  BY <1>0, <2>1, <2>2
    <2>3. CASE said[k] # "none"
      <3>1. claims'[k] = Append(claims[k], said[k]) /\ said[k] \in Quality  BY <1>0, <1>1, <2>3
      <3>2. source'[k] \in Names  BY <1>0, <1>1, <2>1, <2>3
      <3>. QED  BY <2>1, <2>3, <3>1, <3>2
    <2>. QED  BY <2>2, <2>3
  <1>3. TypeOK'
    <2>1. job' \in [Jobs -> Assignment]  BY <1>0, Nobody
    <2>2. claims' \in [Keys -> Seq(Quality)] /\ source' \in [Keys -> Names \cup {NoOne}]  BY <1>0, <1>2
    <2>. QED  BY <1>0, <2>1, <2>2 DEF TypeOK, Assignment
  <1>4. Jobbed'
    <2>1. ASSUME NEW i \in Jobs PROVE Invoked(i, job[i])'
      <3>1. Invoked(i, job[i])  BY DEF Sound, Jobbed
      <3>2. job'[i] = job[i] \/ job'[i] = NoJob  BY <1>0
      <3>. QED  BY <1>0, <3>1, <3>2, Nobody DEF Invoked
    <2>. QED  BY <2>1 DEF Jobbed
  <1>5. Booked'
    <2>1. ASSUME NEW b \in Specialists PROVE Accounted(b)'
      <3>0. Accounted(b) /\ Accounted(a) /\ outcome \in [Specialists -> {"pending", "completed", "failed"}]
        BY <1>0 DEF Sound, Booked, TypeOK
      <3>1. CASE b = a
        <4>1. job'[a].stage = "idle" /\ outcome'[a] \in {"completed", "failed"}
              /\ (outcome'[a] = "failed" => job[a].stage = "failed")
          BY <1>0, <3>0, Nobody DEF At
        <4>2. outcome'[a] = "failed" => failed[a] = 2 * (AgentRetries + 1)
          BY <1>0, <3>0, <4>1 DEF Accounted, Counted
        <4>. QED  BY <1>0, <3>1, <4>1, <4>2 DEF Accounted
      <3>2. CASE b # a
        <4>1. job'[b] = job[b] /\ outcome'[b] = outcome[b] /\ failed' = failed /\ phase' = phase
          BY <1>0, <3>0, <3>2 DEF Jobs
        <4>. QED  BY <3>0, <4>1 DEF Accounted, Counted
      <3>. QED  BY <3>1, <3>2
    <2>. QED  BY <1>0, <2>1 DEF Booked, FailuresContained
  <1>6. Evidenced'
    <2>1. ASSUME NEW k \in Keys PROVE Sourced(k)'
      <3>0. Sourced(k) /\ claims[k] \in Seq(Quality)  BY <1>0 DEF Sound, Evidenced
      <3>1. \A q : Told(k, q) => Told(k, q)'  BY <1>0 DEF Told
      <3>2. \A i \in DOMAIN claims'[k] : Told(k, claims'[k][i])
        <4>1. CASE said[k] = "none"  BY <1>2, <3>0, <4>1 DEF Sourced
        <4>2. CASE said[k] # "none"
          <5>1. claims'[k] \in Seq(Quality) /\ Len(claims'[k]) = Len(claims[k]) + 1
            BY <1>2, <4>2
          <5>2. \A i \in DOMAIN claims'[k] : i \in DOMAIN claims[k] \/ i = Len(claims[k]) + 1
            BY <3>0, <5>1
          <5>3. Told(k, said[k])  BY <1>1, <4>2
          <5>. QED  BY <1>2, <3>0, <4>2, <5>2, <5>3 DEF Sourced
        <4>. QED  BY <4>1, <4>2
      <3>3. \A i \in DOMAIN claims'[k] :
               \E n \in Names : <<"evidence", n, k, claims'[k][i]>> \in transcript'
        BY <3>2, <1>0 DEF Told
      <3>4. /\ claims'[k] # <<>> => source'[k] \in Names
            /\ pending'[k] > 0 => claims'[k] # <<>>
            /\ revised'[k] # "none" =>
                 \E n \in Names : <<"evidence", n, k, revised'[k]>> \in transcript'
        BY <1>0, <1>2, <3>0 DEF Sourced, Told
      <3>. QED  BY <3>3, <3>4 DEF Sourced, Told
    <2>. QED  BY <2>1 DEF Evidenced
  <1>7. Grounded' /\ InRounds'
    BY <1>0 DEF Sound, Grounded, InRounds, Decided, CritiqueCurrent, Open
  <1>. QED  BY <1>3, <1>4, <1>5, <1>6, <1>7 DEF Sound

\* While the main thread is at work nothing changes of jobs and counts.
LEMMA MainStep ==
    ASSUME Sound, UNCHANGED <<job, outcome, transcript, failed, tries, upsets>>,
           phase # "planner", late' \in BOOLEAN,
           phase' \in Nodes \ {"planner"} \/ (phase' = "raised" /\ late')
    PROVE  Jobbed' /\ Booked' /\ \A k, q : Told(k, q) => Told(k, q)'
  <1>0. TypeOK /\ upsets \in Nat  BY DEF Sound, TypeOK
  <1>1. Jobbed'
    <2>1. ASSUME NEW i \in Jobs PROVE Invoked(i, job[i])'
      <3>1. Invoked(i, job[i]) /\ job'[i] = job[i]  BY DEF Sound, Jobbed
      <3>. QED  BY <3>1 DEF Invoked
    <2>. QED  BY <2>1 DEF Jobbed
  <1>2. Booked'
    <2>1. ASSUME NEW a \in Specialists PROVE Accounted(a)'
      BY DEF Sound, Booked, Accounted, Counted, Nodes
    <2>2. phase' = "raised" => late'  BY DEF Nodes
    <2>. QED  BY <2>1, <2>2 DEF Booked, FailuresContained
  <1>3. \A k, q : Told(k, q) => Told(k, q)'  BY DEF Told
  <1>. QED  BY <1>1, <1>2, <1>3

\* The critic looks at what there is.
LEMMA ChallengeStep == ASSUME Sound, Challenge PROVE Sound'
  <1>0. /\ TypeOK /\ phase = "deliberation" /\ critique' = LastClaim
        /\ UNCHANGED <<job, outcome, claims, source, round, topic, revised, evidence, approved, published,
                       transcript, failed, tries, upsets>>
        /\ claims \in [Keys -> Seq(Quality)] /\ late \in BOOLEAN
    BY DEF Sound, Challenge, In, TypeOK
  <1>1. \/ phase' \in {"evidence", "raised"} /\ late' \in BOOLEAN /\ (phase' = "raised" => late')
           /\ pending' = pending
        \/ phase' = "revision" /\ late' = late /\ round < Rounds /\ pending' = [k \in Keys |-> Thin(k)]
    <2>1. round \in Nat /\ Rounds \in Nat  BY <1>0, Types DEF TypeOK
    <2>2. CASE round >= Rounds \/ (\A k \in Keys : Thin(k) = 0)
      <3>1. Enter("evidence") /\ pending' = pending  BY <2>2 DEF Challenge
      <3>. QED  BY <1>0, <3>1 DEF Enter
    <2>3. CASE ~(round >= Rounds \/ (\A k \in Keys : Thin(k) = 0))
      <3>1. phase' = "revision" /\ late' = late /\ pending' = [k \in Keys |-> Thin(k)]
        BY <2>3 DEF Challenge
      <3>. QED  BY <2>1, <2>3, <3>1
    <2>. QED  BY <2>2, <2>3
  <1>2. \A k \in Keys : LastClaim[k] \in Verdict /\ Thin(k) \in Nat /\ (Thin(k) > 0 => claims[k] # <<>>)
    BY <1>0, ClaimFacts
  <1>3. Jobbed' /\ Booked' /\ \A k, q : Told(k, q) => Told(k, q)'
    BY <1>0, <1>1, MainStep DEF Nodes
  <1>4. TypeOK'
    <2>1. critique' \in Reply  BY <1>0, <1>2 DEF Reply, LastClaim
    <2>2. pending' \in [Keys -> Nat]  BY <1>0, <1>1, <1>2 DEF TypeOK
    <2>. QED  BY <1>0, <1>1, <2>1, <2>2 DEF TypeOK, Nodes
  <1>5. Evidenced'
    <2>1. ASSUME NEW k \in Keys PROVE Sourced(k)'
      <3>1. Sourced(k)  BY DEF Sound, Evidenced
      <3>2. pending'[k] > 0 => claims[k] # <<>>  BY <1>1, <1>2, <3>1 DEF Sourced
      <3>. QED  BY <1>0, <3>1, <3>2 DEF Sourced, Told
    <2>. QED  BY <2>1 DEF Evidenced
  <1>6. LastClaim' = LastClaim  BY <1>0 DEF LastClaim
  <1>7. Grounded' /\ InRounds'
    BY <1>0, <1>1, <1>6 DEF Sound, Grounded, InRounds, Decided, CritiqueCurrent, Open
  <1>. QED  BY <1>3, <1>4, <1>5, <1>7 DEF Sound

\* A revision is asked for.
LEMMA AskStep == ASSUME Sound, NEW k \in Keys, AskRevision(k) PROVE Sound'
  <1>0. /\ TypeOK /\ phase = "revision" /\ pending[k] > 0
        /\ pending' = [pending EXCEPT ![k] = @ - 1] /\ topic' = k
        /\ job' = [job EXCEPT ![Reviser] = Start(source[k])]
        /\ UNCHANGED <<phase, outcome, claims, source, round, revised, critique, evidence, approved,
                       published, transcript, late, failed, tries, upsets>>
        /\ job \in [Jobs -> Assignment] /\ pending \in [Keys -> Nat]
    BY DEF Sound, AskRevision, In, TypeOK, Assignment
  <1>1. source[k] \in Names  BY <1>0 DEF Sound, Evidenced, Sourced
  <1>. DEFINE z == Start(source[k])
  <1>2. /\ z \in Assignment /\ z.stage = "attempt" /\ z.agent \in Names /\ z.attempt = 1
        /\ z.reply = NoReply /\ z.standin = FALSE
    BY <1>1, Started
  <1>. HIDE DEF z
  <1>3. /\ Reviser \in Jobs /\ job' \in [Jobs -> Assignment] /\ job'[Reviser] = z
        /\ \A i \in Jobs \ {Reviser} : job'[i] = job[i]
    BY <1>0, <1>2 DEF z, Jobs
  <1>4. TypeOK'
    <2>1. pending' \in [Keys -> Nat]  BY <1>0
    <2>. QED  BY <1>0, <1>3, <2>1 DEF TypeOK, Assignment
  <1>5. Jobbed'
    <2>1. ASSUME NEW i \in Jobs PROVE Invoked(i, job[i])'
      <3>1. Invoked(i, job[i])  BY DEF Sound, Jobbed
      <3>2. CASE i = Reviser  BY <1>2, <1>3, <3>2 DEF Invoked
      <3>3. CASE i # Reviser
        <4>1. job'[i] = job[i]  BY <1>3, <3>3
        <4>. QED  BY <1>0, <3>1, <4>1 DEF Invoked
      <3>. QED  BY <3>2, <3>3
    <2>. QED  BY <2>1 DEF Jobbed
  <1>6. Booked'
    <2>1. ASSUME NEW a \in Specialists PROVE Accounted(a)'
      <3>1. a \in Jobs \ {Reviser}  BY Types DEF Jobs
      <3>2. job'[a] = job[a] /\ Accounted(a)  BY <1>3, <3>1 DEF Sound, Booked
      <3>. QED  BY <1>0, <3>2 DEF Accounted, Counted
    <2>. QED  BY <1>0, <2>1 DEF Booked, FailuresContained
  <1>7. Evidenced'
    <2>1. ASSUME NEW l \in Keys PROVE Sourced(l)'
      <3>1. Sourced(l)  BY DEF Sound, Evidenced
      <3>2. pending'[l] > 0 => pending[l] > 0  BY <1>0
      <3>. QED  BY <1>0, <3>1, <3>2 DEF Sourced, Told
    <2>. QED  BY <2>1 DEF Evidenced
  <1>8. LastClaim' = LastClaim  BY <1>0 DEF LastClaim
  <1>9. Grounded' /\ InRounds'
    BY <1>0, <1>8 DEF Sound, Grounded, InRounds, Decided, CritiqueCurrent, Open
  <1>. QED  BY <1>4, <1>5, <1>6, <1>7, <1>9 DEF Sound

\* A revision has come back, or has not.
LEMMA TakeStep == ASSUME Sound, TakeRevision PROVE Sound'
  <1>. DEFINE x == job[Reviser]
              q == IF x.reply[topic] # "none" THEN x.reply[topic] ELSE revised[topic]
  <1>0. /\ TypeOK /\ phase = "revision" /\ x.stage \in {"answered", "failed"}
        /\ revised' = [revised EXCEPT ![topic] = q] /\ topic' = NoKey
        /\ job' = [job EXCEPT ![Reviser] = NoJob]
        /\ UNCHANGED <<phase, outcome, claims, source, round, pending, critique, evidence, approved,
                       published, transcript, late, failed, tries, upsets>>
        /\ job \in [Jobs -> Assignment] /\ Reviser \in Jobs /\ revised \in [Keys -> Verdict]
    BY DEF Sound, TakeRevision, TakeFrom, In, TypeOK, Assignment, Jobs, Reply
  <1>1. /\ job' \in [Jobs -> Assignment] /\ job'[Reviser] = NoJob
        /\ \A i \in Jobs \ {Reviser} : job'[i] = job[i]
    BY <1>0, Nobody
  <1>2. x.reply \in [Keys -> Verdict]  BY <1>0 DEF Assignment, Reply
  <1>3. ASSUME NEW k \in Keys, k = topic, q # "none" PROVE q \in Verdict /\ Told(k, q)
    <2>1. Invoked(Reviser, x) /\ Sourced(k)  BY <1>0 DEF Sound, Jobbed, Evidenced
    <2>2. CASE x.reply[k] # "none"
      <3>1. x.stage = "answered" /\ x.agent \in Names  BY <1>0, <2>1, <2>2, Types DEF Invoked
      <3>2. <<"evidence", x.agent, k, x.reply[k]>> \in transcript  BY <2>1, <2>2, <3>1 DEF Invoked
      <3>. QED  BY <1>2, <1>3, <2>2, <3>1, <3>2 DEF Told
    <2>3. CASE x.reply[k] = "none"
      BY <1>0, <1>3, <2>1, <2>3 DEF Sourced
    <2>. QED  BY <2>2, <2>3
  <1>4. \A k \in Keys : IF k = topic THEN revised'[k] = q ELSE revised'[k] = revised[k]
    BY <1>0
  <1>. HIDE DEF x, q
  <1>5. TypeOK'
    <2>1. revised' \in [Keys -> Verdict]
      <3>1. \A k \in Keys : revised'[k] \in Verdict  BY <1>0, <1>3, <1>4 DEF Verdict
      <3>. QED  BY <1>0, <3>1
    <2>. QED  BY <1>0, <1>1, <2>1 DEF TypeOK, Assignment, Reply
  <1>6. Jobbed'
    <2>1. ASSUME NEW i \in Jobs PROVE Invoked(i, job[i])'
      <3>1. Invoked(i, job[i])  BY DEF Sound, Jobbed
      <3>2. job'[i] = job[i] \/ job'[i] = NoJob  BY <1>1
      <3>. QED  BY <1>0, <3>1, <3>2, Nobody DEF Invoked
    <2>. QED  BY <2>1 DEF Jobbed
  <1>7. Booked'
    <2>1. ASSUME NEW a \in Specialists PROVE Accounted(a)'
      <3>1. a \in Jobs \ {Reviser}  BY Types DEF Jobs
      <3>2. job'[a] = job[a] /\ Accounted(a)  BY <1>1, <3>1 DEF Sound, Booked
      <3>. QED  BY <1>0, <3>2 DEF Accounted, Counted
    <2>. QED  BY <1>0, <2>1 DEF Booked, FailuresContained
  <1>8. Evidenced'
    <2>1. ASSUME NEW k \in Keys PROVE Sourced(k)'
      <3>1. Sourced(k)  BY DEF Sound, Evidenced
      <3>2. revised'[k] # "none" => Told(k, revised'[k])
        <4>1. CASE k = topic  BY <1>3, <1>4, <4>1
        <4>2. CASE k # topic  BY <1>4, <3>1, <4>2 DEF Sourced
        <4>. QED  BY <4>1, <4>2
      <3>. QED  BY <1>0, <3>1, <3>2 DEF Sourced, Told
    <2>. QED  BY <2>1 DEF Evidenced
  <1>9. LastClaim' = LastClaim  BY <1>0 DEF LastClaim
  <1>10. Grounded' /\ InRounds'
    BY <1>0, <1>9 DEF Sound, Grounded, InRounds, Decided, CritiqueCurrent, Open
  <1>. QED  BY <1>5, <1>6, <1>7, <1>8, <1>10 DEF Sound

\* The revisions take the place of what they revise.
LEMMA EndRoundStep == ASSUME Sound, EndRound PROVE Sound'
  <1>0. /\ TypeOK /\ phase = "revision" /\ phase' = "deliberation" /\ round' = round + 1
        /\ claims' = Revision /\ revised' = NoReply
        /\ UNCHANGED <<job, outcome, source, pending, topic, critique, evidence, approved, published,
                       transcript, late, failed, tries, upsets>>
        /\ claims \in [Keys -> Seq(Quality)] /\ late \in BOOLEAN /\ revised \in [Keys -> Verdict]
    BY DEF Sound, EndRound, RoundTo, In, TypeOK, Reply
  <1>1. round \in 1 .. Rounds /\ round < Rounds /\ Rounds \in Nat
    BY <1>0, Types DEF Sound, InRounds, TypeOK
  <1>2. ASSUME NEW k \in Keys
        PROVE  /\ claims'[k] \in Seq(Quality) /\ DOMAIN claims'[k] = DOMAIN claims[k]
               /\ claims[k] # <<>> => claims'[k] # <<>>
               /\ \A i \in DOMAIN claims[k] :
                    claims'[k][i] = IF revised[k] = "none" THEN claims[k][i] ELSE revised[k]
    <2>0. claims[k] \in Seq(Quality) /\ revised[k] \in Verdict  BY <1>0
    <2>1. CASE revised[k] = "none"  BY <1>0, <2>0, <2>1 DEF Revision
    <2>2. CASE revised[k] # "none"
      <3>1. revised[k] \in Quality  BY <2>0, <2>2 DEF Verdict
      <3>2. claims'[k] = [i \in DOMAIN claims[k] |-> revised[k]]  BY <1>0, <2>2 DEF Revision
      <3>3. DOMAIN claims[k] = 1 .. Len(claims[k]) /\ Len(claims[k]) \in Nat  BY <2>0
      <3>4. claims'[k] \in Seq(Quality)  BY <3>1, <3>2, <3>3
      <3>5. DOMAIN claims'[k] = DOMAIN claims[k]  BY <3>2
      <3>6. claims[k] # <<>> => 1 \in DOMAIN claims[k]  BY <2>0, <3>3
      <3>7. claims[k] # <<>> => claims'[k] # <<>>  BY <3>4, <3>5, <3>6
      <3>. QED  BY <2>2, <3>2, <3>4, <3>5, <3>7
    <2>. QED  BY <2>1, <2>2
  <1>3. Jobbed' /\ Booked'
    BY <1>0, MainStep DEF Nodes
  <1>4. TypeOK'
    <2>1. claims' \in [Keys -> Seq(Quality)]  BY <1>0, <1>2 DEF Revision
    <2>2. round' \in 1 .. Rounds  BY <1>0, <1>1
    <2>3. revised' \in Reply /\ phase' \in Nodes \cup {"returned", "raised"}  BY <1>0, Types DEF Nodes
    <2>. QED  BY <1>0, <2>1, <2>2, <2>3 DEF TypeOK
  <1>5. Evidenced'
    <2>1. ASSUME NEW k \in Keys PROVE Sourced(k)'
      <3>0. Sourced(k)  BY DEF Sound, Evidenced
      <3>1. \A i \in DOMAIN claims'[k] : Told(k, claims'[k][i])
        BY <1>2, <3>0 DEF Sourced
      <3>2. \A i \in DOMAIN claims'[k] :
               \E n \in Names : <<"evidence", n, k, claims'[k][i]>> \in transcript'
        BY <1>0, <3>1 DEF Told
      <3>3. claims'[k] # <<>> => claims[k] # <<>>  BY <1>0, <1>2
      <3>. QED  BY <1>0, <1>2, <3>0, <3>2, <3>3, Types DEF Sourced, Told
    <2>. QED  BY <2>1 DEF Evidenced
  <1>6. Grounded' /\ InRounds'
    BY <1>0 DEF Sound, Grounded, InRounds, Decided, CritiqueCurrent, Open
  <1>. QED  BY <1>3, <1>4, <1>5, <1>6 DEF Sound

\* The evidence is gone through.
LEMMA ReproduceStep == ASSUME Sound, Reproduce PROVE Sound'
  <1>0. /\ TypeOK /\ phase = "evidence" /\ evidence' = LastClaim
        /\ UNCHANGED <<job, outcome, claims, source, round, pending, topic, revised, critique, approved,
                       published, transcript, failed, tries, upsets>>
        /\ claims \in [Keys -> Seq(Quality)]
        /\ phase' \in {"verifier", "raised"} /\ late' \in BOOLEAN /\ (phase' = "raised" => late')
    BY DEF Sound, Reproduce, Enter, In, TypeOK
  <1>1. \A k \in Keys : LastClaim[k] \in Verdict  BY <1>0, ClaimFacts
  <1>2. Jobbed' /\ Booked'  BY <1>0, MainStep DEF Nodes
  <1>3. TypeOK'
    <2>1. evidence' \in Reply  BY <1>0, <1>1 DEF Reply, LastClaim
    <2>. QED  BY <1>0, <2>1 DEF TypeOK, Nodes
  <1>4. Evidenced'  BY <1>0 DEF Sound, Evidenced, Sourced, Told
  <1>5. LastClaim' = LastClaim  BY <1>0 DEF LastClaim
  <1>6. Grounded' /\ InRounds'
    <2>1. CritiqueCurrent'  BY <1>0, <1>5 DEF Sound, Grounded, CritiqueCurrent
    <2>2. ASSUME NEW k \in Keys PROVE Decided(k)'
      <3>1. Decided(k)  BY DEF Sound, Grounded
      <3>2. evidence'[k] = LastClaim'[k] /\ evidence'[k] = LastClaim[k]  BY <1>0, <1>5
      <3>3. k \in approved => evidence'[k] = "sound"  BY <1>0, <3>1, <3>2 DEF Decided
      <3>. QED  BY <1>0, <3>1, <3>2, <3>3 DEF Decided, Open
    <2>. QED  BY <1>0, <2>1, <2>2 DEF Grounded, InRounds
  <1>. QED  BY <1>2, <1>3, <1>4, <1>6 DEF Sound

\* It is verified.
LEMMA VerifyStep == ASSUME Sound, Verify PROVE Sound'
  <1>0. /\ TypeOK /\ phase = "verifier" /\ approved' = {k \in Keys : Approves(k)}
        /\ UNCHANGED <<job, outcome, claims, source, round, pending, topic, revised, critique, evidence,
                       published, transcript, failed, tries, upsets>>
        /\ phase' \in {"arbiter", "raised"} /\ late' \in BOOLEAN /\ (phase' = "raised" => late')
    BY DEF Sound, Verify, Enter, In, TypeOK
  <1>2. Jobbed' /\ Booked'  BY <1>0, MainStep DEF Nodes
  <1>3. TypeOK'  BY <1>0 DEF TypeOK, Nodes
  <1>4. Evidenced'  BY <1>0 DEF Sound, Evidenced, Sourced, Told
  <1>5. LastClaim' = LastClaim  BY <1>0 DEF LastClaim
  <1>6. Grounded' /\ InRounds'
    <2>1. CritiqueCurrent'  BY <1>0, <1>5 DEF Sound, Grounded, CritiqueCurrent
    <2>2. ASSUME NEW k \in Keys PROVE Decided(k)'
      <3>1. Decided(k) /\ published[k] = "none"  BY <1>0 DEF Sound, Grounded, Decided
      <3>. QED  BY <1>0, <1>5, <3>1 DEF Decided, Open, Approves
    <2>. QED  BY <1>0, <2>1, <2>2 DEF Grounded, InRounds
  <1>. QED  BY <1>2, <1>3, <1>4, <1>6 DEF Sound

\* What is approved is published.
LEMMA ArbitrateStep == ASSUME Sound, Arbitrate PROVE Sound'
  <1>0. /\ TypeOK /\ phase = "arbiter" /\ phase' = "memory"
        /\ published' = [k \in Keys |-> IF k \in approved THEN Head(claims[k]) ELSE "none"]
        /\ UNCHANGED <<job, outcome, claims, source, round, pending, topic, revised, critique, evidence,
                       approved, transcript, late, failed, tries, upsets>>
        /\ claims \in [Keys -> Seq(Quality)] /\ late \in BOOLEAN
    BY DEF Sound, Arbitrate, In, TypeOK
  <1>1. ASSUME NEW k \in Keys PROVE published'[k] \in Verdict
    <2>1. CASE k \in approved
      <3>1. Decided(k)  BY DEF Sound, Grounded
      <3>2. LastClaim[k] # "none"  BY <1>0, <2>1, <3>1 DEF Decided
      <3>3. claims[k] # <<>> /\ claims[k] \in Seq(Quality)  BY <1>0, <3>2, ClaimFacts
      <3>4. Head(claims[k]) \in Quality  BY <3>3
      <3>. QED  BY <1>0, <2>1, <3>4 DEF Verdict
    <2>2. CASE k \notin approved  BY <1>0, <2>2 DEF Verdict
    <2>. QED  BY <2>1, <2>2
  <1>2. Jobbed' /\ Booked'  BY <1>0, MainStep DEF Nodes
  <1>3. TypeOK'
    <2>1. published' \in Reply  BY <1>0, <1>1 DEF Reply
    <2>. QED  BY <1>0, <2>1 DEF TypeOK, Nodes
  <1>4. Evidenced'  BY <1>0 DEF Sound, Evidenced, Sourced, Told
  <1>5. LastClaim' = LastClaim  BY <1>0 DEF LastClaim
  <1>6. Grounded' /\ InRounds'
    BY <1>0, <1>5 DEF Sound, Grounded, InRounds, Decided, CritiqueCurrent, Open
  <1>. QED  BY <1>2, <1>3, <1>4, <1>6 DEF Sound

\* The steps that end the call, and those that only go on to the next node.
LEMMA EndingStep ==
    ASSUME Sound, GatheredAll \/ GatherBreaks \/ ReviseBreaks \/ Remember \/ NodeBreaks \/ Die
    PROVE  Sound'
  <1>0. upsets \in Nat /\ late \in BOOLEAN /\ Specialists \subseteq Jobs /\ Reviser \in Jobs
    BY DEF Sound, TypeOK, Jobs
  <1>1. CASE GatheredAll
    <2>1. /\ UNCHANGED <<job, outcome, dialogue, transcript, failed, tries>> /\ upsets' = upsets
          /\ phase = "specialists"
      BY <1>1 DEF GatheredAll, In
    <2>2. CASE AllGivenUp
      <3>1. phase' = "raised" /\ late' = late  BY <1>1, <2>2 DEF GatheredAll
      <3>. QED  BY <1>0, <2>1, <2>2, <3>1, PhaseStep DEF AllGivenUp
    <2>3. CASE ~AllGivenUp
      <3>1. Enter("deliberation")  BY <1>1, <2>3 DEF GatheredAll
      <3>2. CASE phase' = "deliberation" /\ late' = late  BY <1>0, <2>1, <3>2, PhaseStep
      <3>3. CASE phase' = "raised" /\ late' = TRUE  BY <1>0, <2>1, <3>3, PhaseStep
      <3>. QED  BY <3>1, <3>2, <3>3 DEF Enter
    <2>. QED  BY <2>2, <2>3
  <1>2. CASE GatherBreaks \/ ReviseBreaks
    <2>1. /\ UNCHANGED <<job, outcome, dialogue, transcript, failed, tries>> /\ upsets' = upsets
          /\ phase' = "raised" /\ late' = late
      BY <1>2 DEF GatherBreaks, ReviseBreaks
    <2>2. PICK j \in Jobs : job[j].stage = "broken"
      BY <1>0, <1>2 DEF GatherBreaks, ReviseBreaks, At
    <2>3. upsets > 0  BY <2>2 DEF Sound, Jobbed, Invoked
    <2>. QED  BY <1>0, <2>1, <2>3, PhaseStep
  <1>3. CASE Remember
    <2>1. /\ UNCHANGED <<job, outcome, dialogue, transcript, failed, tries>> /\ upsets' = upsets
          /\ phase = "memory" /\ phase' = "returned" /\ late' = late
      BY <1>3 DEF Remember, In
    <2>. QED  BY <1>0, <2>1, PhaseStep
  <1>4. CASE NodeBreaks \/ Die
    <2>1. /\ UNCHANGED <<job, outcome, dialogue, transcript, failed, tries>> /\ upsets' = upsets + 1
          /\ phase' = "raised" /\ late' = late
      BY <1>4 DEF NodeBreaks, Die, Upset
    <2>. QED  BY <1>0, <2>1, PhaseStep
  <1>. QED  BY <1>1, <1>2, <1>3, <1>4

\* Nothing happens.
LEMMA Unmoved == ASSUME Sound, UNCHANGED vars PROVE Sound'
  <1>1. /\ UNCHANGED <<phase, job, outcome, transcript, late, failed, tries, upsets>>
        /\ UNCHANGED <<claims, source, round, pending, topic, revised, critique, evidence, approved, published>>
    BY DEF vars, dialogue
  <1>2. TypeOK' /\ Jobbed'  BY <1>1 DEF Sound, TypeOK, Jobbed, Invoked
  <1>3. Booked'  BY <1>1 DEF Sound, Booked, Accounted, Counted, FailuresContained
  <1>4. Evidenced'  BY <1>1 DEF Sound, Evidenced, Sourced, Told
  <1>5. LastClaim' = LastClaim  BY <1>1 DEF LastClaim
  <1>6. Grounded' /\ InRounds'
    BY <1>1, <1>5 DEF Sound, Grounded, InRounds, Decided, CritiqueCurrent
  <1>. QED  BY <1>2, <1>3, <1>4, <1>6 DEF Sound

\* Every step keeps the invariant.
LEMMA SoundStep == Sound /\ [Next]_vars => Sound'
  <1>. SUFFICES ASSUME Sound, [Next]_vars PROVE Sound'  OBVIOUS
  <1>1. CASE Plan  BY <1>1, PlanStep
  <1>2. CASE \E a \in Specialists : Specialist(a) \/ Gather(a)
    <2>. PICK a \in Specialists : Specialist(a) \/ Gather(a)  BY <1>2
    <2>1. CASE Specialist(a)
      <3>1. a \in Jobs /\ (Invoke(a) \/ Handoff(a)) /\ phase = "specialists"
            /\ UNCHANGED <<phase, outcome, dialogue, late, tries>>
        BY <2>1 DEF Specialist, In, Jobs
      <3>. QED  BY <3>1, JobStep
    <2>2. CASE Gather(a)  BY <2>2, GatherStep
    <2>. QED  BY <2>1, <2>2
  <1>3. CASE Challenge  BY <1>3, ChallengeStep
  <1>4. CASE \E k \in Keys : AskRevision(k)  BY <1>4, AskStep
  <1>5. CASE Revise
    <2>1. Reviser \in Jobs /\ Invoke(Reviser) /\ phase = "revision"
          /\ UNCHANGED <<phase, outcome, dialogue, late, tries>>
      BY <1>5 DEF Revise, In, Jobs
    <2>. QED  BY <2>1, JobStep
  <1>6. CASE TakeRevision  BY <1>6, TakeStep
  <1>7. CASE EndRound  BY <1>7, EndRoundStep
  <1>8. CASE Reproduce  BY <1>8, ReproduceStep
  <1>9. CASE Verify  BY <1>9, VerifyStep
  <1>10. CASE Arbitrate  BY <1>10, ArbitrateStep
  <1>11. CASE GatheredAll \/ GatherBreaks \/ ReviseBreaks \/ Remember \/ NodeBreaks \/ Die
    BY <1>11, EndingStep
  <1>12. CASE TryAgain  BY <1>12, TryAgainStep
  <1>13. CASE UNCHANGED vars  BY <1>13, Unmoved
  <1>. QED
    BY <1>1, <1>2, <1>3, <1>4, <1>5, <1>6, <1>7, <1>8, <1>9, <1>10, <1>11, <1>12, <1>13
    DEF Next, Step, Dialogue

\* The first call begins with it.
LEMMA InitSound == Init => Sound
  <1>1. Init => Blank  BY DEF Init, Blank
  <1>. QED  BY <1>1, BlankSound

-----------------------------------------------------------------------------
(* What it means. *)

\* Every variable keeps its type, whatever fails and is handed on.
THEOREM CollaborationTypes == Spec => []TypeOK
  <1>1. Sound => TypeOK  BY DEF Sound
  <1>. QED  BY <1>1, InitSound, SoundStep, PTL DEF Spec

\* A finding is published only if one of its key satisfied the critic and the
\* verifier in the version that was challenged last (src/codeevo/agents.py:
\* review_with_context).
THEOREM OnlySupportedPublished == Spec => []PublishedSupported
  <1>1. Sound => PublishedSupported
    <2>. SUFFICES ASSUME Sound, NEW k \in Keys, published[k] # "none"
                  PROVE  \E i \in DOMAIN claims[k] : claims[k][i] = "sound"
      BY DEF PublishedSupported
    <2>1. LastClaim[k] = "sound"  BY DEF Sound, Grounded, Decided
    <2>2. claims \in [Keys -> Seq(Quality)]  BY DEF Sound, TypeOK
    <2>3. Len(claims[k]) \in DOMAIN claims[k] /\ LastClaim[k] = claims[k][Len(claims[k])]
      BY <2>1, <2>2, ClaimFacts
    <2>. QED  BY <2>1, <2>3
  <1>. QED  BY <1>1, InitSound, SoundStep, PTL DEF Spec

\* The decision rests on a critique of the findings as they are, however many
\* rounds of revision there were.
THEOREM CritiqueIsCurrent == Spec => []CritiqueCurrent
  <1>1. Sound => CritiqueCurrent  BY DEF Sound, Grounded
  <1>. QED  BY <1>1, InitSound, SoundStep, PTL DEF Spec

\* What deliberation works on, and every hand-off, was recorded by the agent it
\* came from, whatever writes failed and agents were replaced.
THEOREM EverythingRecorded == Spec => []Recorded
  <1>1. Sound => Recorded
    <2>. SUFFICES ASSUME Sound PROVE Recorded  OBVIOUS
    <2>1. ASSUME NEW k \in Keys, NEW i \in DOMAIN claims[k]
          PROVE  \E n \in Names : <<"evidence", n, k, claims[k][i]>> \in transcript
      BY DEF Sound, Evidenced, Sourced, Told
    <2>2. ASSUME NEW a \in Specialists, job[a].standin
          PROVE  <<"handoff", a, job[a].agent>> \in transcript
      <3>1. a \in Jobs  BY DEF Jobs
      <3>. QED  BY <2>2, <3>1 DEF Sound, Jobbed, Invoked
    <2>. QED  BY <2>1, <2>2 DEF Recorded
  <1>. QED  BY <1>1, InitSound, SoundStep, PTL DEF Spec

\* With the store and the clock in order a review fails only when every
\* assignment has failed in all attempts of two agents.
THEOREM FailuresAreContained == Spec => []FailuresContained
  <1>1. Sound => FailuresContained  BY DEF Sound, Booked
  <1>. QED  BY <1>1, InitSound, SoundStep, PTL DEF Spec

-----------------------------------------------------------------------------
(* One agent at a task. *)

TurnStages == {"idle", "step", "tool", "final", "failed", "evidence", "arbitrate", "forget", "completed"}
Reads == [from : Nat, to : Nat, sha256 : [Lines -> Quotes]]

TurnType == [pc : TurnStages, attempt : Nat, step : Nat, reads : SUBSET Reads,
         finding : Findings \cup {NoFinding}, refs : SUBSET Reads, approved : BOOLEAN]

\* Only a finding that has been verified is approved, and what it carries with it
\* is of its line; with the quote among it, once it is approved.
Quoted(t) ==
    /\ turn[t].finding # NoFinding => \A r \in turn[t].refs : Covers(r, turn[t].finding.line)
    /\ turn[t].approved => /\ turn[t].pc \in {"arbitrate", "forget"}
                           /\ turn[t].finding # NoFinding
                           /\ \E r \in turn[t].refs : r.sha256[turn[t].finding.line] = turn[t].finding.quote

Evident ==
    /\ file \in [Lines -> Quotes]
    /\ turn \in [Tasks -> TurnType]
    /\ report \in [Tasks -> [finding : Findings \cup {NoFinding}, refs : SUBSET Reads]]
    /\ \A t \in Tasks : Quoted(t)
    /\ EvidenceReal

-----------------------------------------------------------------------------

\* The range that the verifier reads around a line contains it.
LEMMA ContextCovers ==
    ASSUME NEW line \in Lines, file \in [Lines -> Quotes]
    PROVE  Context(line) \in Reads /\ Covers(Context(line), line) /\ Context(line).sha256 = file
BY AgentTurnAssumption, SMT DEF Context, Covers, Reads, Lines

\* At first nothing is read and nothing published.
LEMMA InitEvident == TurnInit => Evident
BY AgentTurnAssumption, SMT DEF TurnInit, Evident, Quoted, EvidenceReal, TurnType, TurnStages,
    Fresh, Unpublished, Lines, Reads

\* What a step has to say of the turn it changes, whatever it changes it to.
LEMMA TurnChanges ==
    ASSUME Evident, NEW t \in Tasks, NEW next \in TurnType, Becomes(t, next), UNCHANGED <<file, report>>, Quoted(t)'
    PROVE  Evident'
<1>1. turn' \in [Tasks -> TurnType]
    BY SMT DEF Evident, Becomes
<1>2. \A u \in Tasks : Quoted(u)'
    <2>. SUFFICES ASSUME NEW u \in Tasks, u # t PROVE Quoted(u)'
        OBVIOUS
    <2>1. turn'[u] = turn[u]
        BY SMT DEF Evident, Becomes
    <2>. QED
        BY <2>1, Zenon DEF Evident, Quoted
<1>3. EvidenceReal'
    BY Zenon DEF Evident, EvidenceReal
<1>. QED
    BY <1>1, <1>2, <1>3, Zenon DEF Evident

\* The turns an action may go to are turns.
LEMMA TurnTypes ==
    ASSUME Evident, NEW t \in Tasks
    PROVE  /\ turn[t] \in TurnType
           /\ Fresh \in TurnType
           /\ Failed(t) \in TurnType
           /\ NextStep(t) \in TurnType
           /\ NextStep(t).finding = (IF turn[t].step = MaxSteps THEN NoFinding ELSE turn[t].finding)
           /\ NextStep(t).refs = turn[t].refs
           /\ NextStep(t).approved = turn[t].approved
<1>1. turn[t] \in TurnType /\ 1 \in Nat /\ turn[t].step + 1 \in Nat
    BY SMT DEF Evident, TurnType
<1>2. Fresh \in TurnType
    BY <1>1, Zenon DEF TurnType, TurnStages, Fresh
<1>3. Failed(t) \in TurnType /\ Failed(t).refs = turn[t].refs /\ Failed(t).approved = turn[t].approved
         /\ Failed(t).finding = NoFinding
    BY <1>1, Zenon DEF TurnType, TurnStages, Failed
<1>. DEFINE more == [turn[t] EXCEPT !.pc = "step", !.step = @ + 1]
<1>4. more \in TurnType /\ more.refs = turn[t].refs /\ more.approved = turn[t].approved
         /\ more.finding = turn[t].finding
    BY <1>1, Zenon DEF TurnType, TurnStages
<1>5. NextStep(t) = IF turn[t].step = MaxSteps THEN Failed(t) ELSE more
    BY Zenon DEF NextStep
<1>. HIDE DEF more
<1>. QED
    BY <1>1, <1>2, <1>3, <1>4, <1>5, SMT

\* A step that approves nothing, and drops the finding or keeps it with its
\* references, disturbs nothing.
LEMMA Quiet ==
    ASSUME Evident, NEW t \in Tasks, NEW next \in TurnType, Becomes(t, next), UNCHANGED <<file, report>>,
           ~next.approved,
           next.finding # NoFinding => next.finding = turn[t].finding /\ next.refs = turn[t].refs
    PROVE  Evident'
<1>1. turn'[t] = next
    BY SMT DEF Evident, Becomes
<1>2. Quoted(t)
    BY Zenon DEF Evident
<1>3. Quoted(t)'
    BY <1>1, <1>2, SMT DEF Quoted, Covers
<1>. QED
    BY <1>3, TurnChanges, Zenon

\* Before the verifier nothing is approved.
LEMMA NotYet ==
    ASSUME Evident, NEW t \in Tasks, turn[t].pc \notin {"arbitrate", "forget"}
    PROVE  ~turn[t].approved
BY SMT DEF Evident, Quoted

\* A tool ends a step: what was read is in the ledger, the rest stays.
LEMMA ToolEvident ==
    ASSUME Evident, NEW t \in Tasks,
           \/ \E from \in Lines : \E to \in from..Length : ReadTool(t, from, to)
           \/ OtherTool(t)
    PROVE  Evident'
<1>0. turn[t].pc = "tool"
    BY Zenon DEF ReadTool, OtherTool, TurnAt
<1>1. turn[t] \in TurnType /\ ~turn[t].approved
    BY <1>0, NotYet, SMT DEF Evident
<1>3. CASE OtherTool(t)
    <2>1. Becomes(t, NextStep(t)) /\ UNCHANGED <<file, report>>
        BY <1>3, Zenon DEF OtherTool, world
    <2>. QED
        BY <1>1, <2>1, TurnTypes, Quiet, SMT
<1>4. CASE \E from \in Lines : \E to \in from..Length : ReadTool(t, from, to)
    <2>0. PICK from \in Lines : \E to \in from..Length : ReadTool(t, from, to)
        BY <1>4, Zenon
    <2>1. PICK to \in from..Length : ReadTool(t, from, to)
        BY <2>0, Zenon
    <2>. DEFINE read == [from |-> from, to |-> to, sha256 |-> file]
                more == [NextStep(t) EXCEPT !.reads = @ \cup {read}]
                next == IF NextStep(t).pc = "failed" THEN NextStep(t) ELSE more
    <2>2. read \in Reads
        BY <2>1, AgentTurnAssumption, SMT DEF Reads, Evident, Lines
    <2>3. more \in TurnType /\ more.refs = turn[t].refs /\ more.approved = turn[t].approved
             /\ more.finding = NextStep(t).finding
        <3>. HIDE DEF read
        <3>. QED
            BY <2>2, TurnTypes, SMT DEF TurnType
    <2>4. next \in TurnType /\ ~next.approved
             /\ (next.finding # NoFinding => next.finding = turn[t].finding /\ next.refs = turn[t].refs)
        <3>. HIDE DEF more
        <3>. QED
            BY <1>1, <2>3, TurnTypes, SMT
    <2>5. Becomes(t, next) /\ UNCHANGED <<file, report>>
        BY <2>1, Zenon DEF ReadTool, world
    <2>. HIDE DEF next
    <2>. QED
        BY <2>4, <2>5, Quiet, Zenon
<1>. QED
    BY <1>3, <1>4, Zenon

\* A finding leaves the loop with the reads of its own line.
LEMMA FinishEvident ==
    ASSUME Evident, NEW t \in Tasks, NEW finding \in Findings \cup {NoFinding}, Finish(t, finding)
    PROVE  Evident'
<1>. DEFINE refs == IF finding = NoFinding THEN {} ELSE EvidenceFor(t, finding.line)
            next == [turn[t] EXCEPT !.pc = "evidence", !.attempt = 1, !.step = 1, !.reads = {},
                                    !.finding = finding, !.refs = refs]
<1>1. turn[t] \in TurnType /\ turn \in [Tasks -> TurnType] /\ Quoted(t) /\ turn[t].pc = "final"
    BY TurnTypes, Zenon DEF Evident, Finish, TurnAt
<1>2. refs \in SUBSET Reads /\ (finding # NoFinding => \A r \in refs : Covers(r, finding.line))
    BY <1>1, SMT DEF EvidenceFor, TurnType
<1>3. Becomes(t, next) /\ UNCHANGED <<file, report>>
    BY Zenon DEF Finish, world
<1>. HIDE DEF refs
<1>4. /\ next \in TurnType /\ next.refs = refs /\ next.finding = finding /\ next.approved = turn[t].approved
    <2>1. 1 \in Nat
        OBVIOUS
    <2>. QED
        BY <1>1, <1>2, <2>1, Zenon DEF TurnType, TurnStages
<1>. HIDE DEF next
<1>5. turn'[t] = next
    BY <1>1, <1>3, SMT DEF Becomes
<1>6. Quoted(t)'
    BY <1>1, <1>2, <1>4, <1>5, SMT DEF Quoted
<1>. QED
    BY <1>3, <1>4, <1>6, TurnChanges, Zenon

\* The verifier approves what the file says when it looks, and adds that look.
LEMMA VerifyEvident ==
    ASSUME Evident, NEW t \in Tasks, NEW others \in BOOLEAN, VerifyTurn(t, others)
    PROVE  Evident'
<1>. DEFINE f == turn[t].finding
            look == Context(f.line)
            refs == IF Verified(f) THEN turn[t].refs \cup {look} ELSE turn[t].refs
            none == [turn[t] EXCEPT !.pc = "arbitrate"]
            some == [turn[t] EXCEPT !.pc = "arbitrate", !.approved = PassesGate(f, others), !.refs = refs]
<1>1. turn[t] \in TurnType /\ turn \in [Tasks -> TurnType] /\ Quoted(t) /\ turn[t].pc = "evidence" /\ ~turn[t].approved
    BY TurnTypes, SMT DEF Evident, Quoted, VerifyTurn, TurnAt
<1>2. UNCHANGED <<file, report>>
    BY Zenon DEF VerifyTurn, world
<1>3. CASE f = NoFinding
    <2>1. Becomes(t, none)
        BY <1>3, Zenon DEF VerifyTurn
    <2>2. none \in TurnType /\ none.finding = NoFinding /\ ~none.approved
        BY <1>1, <1>3, SMT DEF TurnType, TurnStages
    <2>. HIDE DEF none
    <2>3. turn'[t] = none
        BY <1>1, <2>1, SMT DEF Becomes
    <2>4. Quoted(t)'
        BY <2>2, <2>3, Zenon DEF Quoted
    <2>. QED
        BY <1>2, <2>1, <2>2, <2>4, TurnChanges, Zenon
<1>4. CASE f # NoFinding
    <2>1. f \in Findings /\ f.line \in Lines
        BY <1>1, <1>4, SMT DEF TurnType, Findings
    <2>2. look \in Reads /\ Covers(look, f.line) /\ look.sha256 = file
        BY <2>1, ContextCovers, Zenon DEF Evident
    <2>3. Verified(f) => look.sha256[f.line] = f.quote
        BY Zenon DEF Verified
    <2>4. Becomes(t, some)
        BY <1>4, SMT DEF VerifyTurn
    <2>5. PassesGate(f, others) \in BOOLEAN /\ (PassesGate(f, others) => Verified(f))
        BY SMT DEF PassesGate, Verified
    <2>. HIDE DEF look
    <2>6. refs \in SUBSET Reads /\ \A r \in refs : Covers(r, f.line)
        BY <1>1, <1>4, <2>2, SMT DEF TurnType, Quoted
    <2>7. PassesGate(f, others) => \E r \in refs : r.sha256[f.line] = f.quote
        BY <2>3, <2>5, Zenon
    <2>. HIDE DEF refs
    <2>8. some \in TurnType /\ some.finding = f /\ some.refs = refs /\ some.approved = PassesGate(f, others)
             /\ some.pc = "arbitrate"
        BY <1>1, <2>5, <2>6, Zenon DEF TurnType, TurnStages
    <2>. HIDE DEF some
    <2>9. turn'[t] = some
        BY <1>1, <2>4, SMT DEF Becomes
    <2>10. Quoted(t)'
        BY <1>4, <2>6, <2>7, <2>8, <2>9, SMT DEF Quoted
    <2>. QED
        BY <1>2, <2>4, <2>8, <2>10, TurnChanges, Zenon
<1>. QED
    BY <1>3, <1>4, Zenon

\* The rest of the loop: attempts that begin, act, fail and are retried.
LEMMA LoopEvident ==
    ASSUME Evident, NEW t \in Tasks,
           \/ Begin(t) \/ ModelRaises(t) \/ RetryTurn(t)
           \/ \E kind \in {"tool", "final", "failed"} : Act(t, kind)
    PROVE  Evident'
<1>1. turn[t] \in TurnType /\ 1 \in Nat /\ turn[t].attempt + 1 \in Nat
    BY SMT DEF Evident, TurnType
<1>2. CASE Begin(t)
    <2>. DEFINE next == [turn[t] EXCEPT !.pc = "step", !.step = 1, !.reads = {}, !.finding = NoFinding, !.refs = {}]
    <2>1. Becomes(t, next) /\ UNCHANGED <<file, report>> /\ turn[t].pc = "idle"
        BY <1>2, Zenon DEF Begin, TurnAt, world
    <2>2. next \in TurnType /\ next.finding = NoFinding /\ next.approved = turn[t].approved
        BY <1>1, Zenon DEF TurnType, TurnStages
    <2>. HIDE DEF next
    <2>. QED
        BY <2>1, <2>2, NotYet, Quiet, SMT
<1>3. CASE ModelRaises(t)
    <2>1. Becomes(t, Failed(t)) /\ UNCHANGED <<file, report>> /\ turn[t].pc = "step"
        BY <1>3, Zenon DEF ModelRaises, TurnAt, world
    <2>2. Failed(t) \in TurnType /\ Failed(t).finding = NoFinding /\ Failed(t).approved = turn[t].approved
        BY <1>1, Zenon DEF Failed, TurnType, TurnStages
    <2>. QED
        BY <2>1, <2>2, NotYet, Quiet, SMT
<1>4. CASE RetryTurn(t)
    <2>. DEFINE again == [turn[t] EXCEPT !.pc = "idle", !.attempt = @ + 1]
                over == [turn[t] EXCEPT !.pc = "evidence", !.attempt = 1, !.finding = NoFinding, !.refs = {}]
    <2>1. (Becomes(t, again) \/ Becomes(t, over)) /\ UNCHANGED <<file, report>> /\ turn[t].pc = "failed"
        BY <1>4, SMT DEF RetryTurn, TurnAt, world
    <2>2. again \in TurnType /\ again.finding = turn[t].finding /\ again.refs = turn[t].refs
             /\ again.approved = turn[t].approved
        BY <1>1, Zenon DEF TurnType, TurnStages
    <2>3. over \in TurnType /\ over.finding = NoFinding /\ over.approved = turn[t].approved
        BY <1>1, Zenon DEF TurnType, TurnStages
    <2>. HIDE DEF again, over
    <2>. QED
        BY <2>1, <2>2, <2>3, NotYet, Quiet, SMT
<1>5. CASE \E kind \in {"tool", "final", "failed"} : Act(t, kind)
    <2>1. PICK kind \in {"tool", "final", "failed"} : Act(t, kind)
        BY <1>5, Zenon
    <2>. DEFINE next == [turn[t] EXCEPT !.pc = kind]
    <2>2. Becomes(t, next) /\ UNCHANGED <<file, report>> /\ turn[t].pc = "step"
        BY <2>1, Zenon DEF Act, TurnAt, world
    <2>3. next \in TurnType /\ next.finding = turn[t].finding /\ next.refs = turn[t].refs
             /\ next.approved = turn[t].approved
        BY <1>1, <2>1, SMT DEF TurnType, TurnStages
    <2>. HIDE DEF next
    <2>. QED
        BY <2>2, <2>3, NotYet, Quiet, SMT
<1>. QED
    BY <1>2, <1>3, <1>4, <1>5, Zenon

\* The summary is archived, then the approved finding is published as it is.
LEMMA EndEvident ==
    ASSUME Evident, NEW t \in Tasks, Archive(t) \/ Release(t)
    PROVE  Evident'
<1>1. turn[t] \in TurnType /\ turn \in [Tasks -> TurnType] /\ Quoted(t)
    BY Zenon DEF Evident
<1>2. CASE Archive(t)
    <2>. DEFINE next == [turn[t] EXCEPT !.pc = "forget"]
    <2>1. Becomes(t, next) /\ UNCHANGED <<file, report>>
        BY <1>2, Zenon DEF Archive, world
    <2>2. next \in TurnType /\ next.pc = "forget" /\ next.finding = turn[t].finding
             /\ next.refs = turn[t].refs /\ next.approved = turn[t].approved
        BY <1>1, Zenon DEF TurnType, TurnStages
    <2>. HIDE DEF next
    <2>3. turn'[t] = next
        BY <1>1, <2>1, SMT DEF Becomes
    <2>4. Quoted(t)'
        BY <1>1, <2>2, <2>3, SMT DEF Quoted, Covers
    <2>. QED
        BY <2>1, <2>2, <2>4, TurnChanges, Zenon
<1>3. CASE Release(t)
    <2>. DEFINE next == [Fresh EXCEPT !.pc = "completed"]
                said == IF turn[t].approved THEN [finding |-> turn[t].finding, refs |-> turn[t].refs]
                        ELSE Unpublished
    <2>1. Becomes(t, next) /\ file' = file /\ report' = [report EXCEPT ![t] = said]
        BY <1>3, Zenon DEF Release, world
    <2>2. next \in TurnType /\ ~next.approved /\ next.finding = NoFinding
        BY TurnTypes, Zenon DEF TurnType, TurnStages, Fresh
    <2>3. said \in [finding : Findings \cup {NoFinding}, refs : SUBSET Reads]
        BY <1>1, SMT DEF Unpublished, TurnType
    <2>4. said.finding # NoFinding =>
             /\ turn[t].approved /\ said.finding = turn[t].finding /\ said.refs = turn[t].refs
        BY SMT DEF Unpublished
    <2>. HIDE DEF next, said
    <2>5. turn' \in [Tasks -> TurnType] /\ turn'[t] = next /\ \A u \in Tasks : u # t => turn'[u] = turn[u]
        BY <1>1, <2>1, <2>2, SMT DEF Becomes
    <2>6. /\ report' \in [Tasks -> [finding : Findings \cup {NoFinding}, refs : SUBSET Reads]]
          /\ report'[t] = said /\ \A u \in Tasks : u # t => report'[u] = report[u]
        BY <2>1, <2>3, SMT DEF Evident
    <2>7. \A u \in Tasks : Quoted(u)'
        BY <2>2, <2>5, SMT DEF Evident, Quoted, Covers
    <2>8. EvidenceReal'
        <3>. SUFFICES ASSUME NEW u \in Tasks, report'[u].finding # NoFinding
                      PROVE  /\ \E r \in report'[u].refs :
                                   r.sha256[report'[u].finding.line] = report'[u].finding.quote
                             /\ \A r \in report'[u].refs :
                                   r.from <= report'[u].finding.line /\ report'[u].finding.line <= r.to
            BY Zenon DEF EvidenceReal
        <3>1. CASE u = t
            BY <1>1, <2>4, <2>6, <3>1, SMT DEF Quoted, Covers
        <3>2. CASE u # t
            BY <2>6, <3>2, Zenon DEF Evident, EvidenceReal
        <3>. QED
            BY <3>1, <3>2, Zenon
    <2>. QED
        BY <2>1, <2>5, <2>6, <2>7, <2>8, Zenon DEF Evident
<1>. QED
    BY <1>2, <1>3, Zenon

\* Failures, deaths and updates of the checkout.
LEMMA MishapEvident ==
    ASSUME Evident, (\E t \in Tasks : WriteFails(t) \/ TurnDies(t)) \/ Update
    PROVE  Evident'
<1>1. CASE \E t \in Tasks : WriteFails(t) \/ TurnDies(t)
    <2>1. PICK t \in Tasks : WriteFails(t) \/ TurnDies(t)
        BY <1>1, Zenon
    <2>2. (Becomes(t, Fresh) \/ (Becomes(t, Failed(t)) /\ turn[t].pc \in {"step", "tool"})) /\ UNCHANGED <<file, report>>
        BY <2>1, SMT DEF WriteFails, TurnDies, world
    <2>3. turn[t] \in TurnType /\ 1 \in Nat
        BY Zenon DEF Evident
    <2>4. Failed(t) \in TurnType /\ Failed(t).finding = NoFinding /\ Failed(t).approved = turn[t].approved
        BY <2>3, Zenon DEF Failed, TurnType, TurnStages
    <2>5. Fresh \in TurnType /\ ~Fresh.approved /\ Fresh.finding = NoFinding
        BY TurnTypes, Zenon DEF Fresh
    <2>6. turn[t].pc \in {"step", "tool"} => ~turn[t].approved
        BY NotYet, SMT
    <2>. QED
        BY <2>2, <2>4, <2>5, <2>6, Quiet, SMT
<1>2. CASE Update
    <2>1. UNCHANGED <<turn, report>> /\ file' \in [Lines -> Quotes]
        BY <1>2, SMT DEF Update, Evident
    <2>. QED
        BY <2>1, Zenon DEF Evident, Quoted, EvidenceReal
<1>. QED
    BY <1>1, <1>2, Zenon

\* Every step keeps it.
LEMMA NextEvident == Evident /\ [TurnNext]_turnVars => Evident'
<1>. SUFFICES ASSUME Evident, [TurnNext]_turnVars PROVE Evident'
    OBVIOUS
<1>1. CASE UNCHANGED turnVars
    BY <1>1, Zenon DEF turnVars, Evident, Quoted, EvidenceReal
<1>2. CASE TurnNext
    <2>1. ASSUME NEW t \in Tasks, TurnStep(t) PROVE Evident'
        BY <2>1, ToolEvident, FinishEvident, VerifyEvident, LoopEvident, EndEvident, Zenon DEF TurnStep
    <2>. QED
        BY <1>2, <2>1, MishapEvident, Zenon DEF TurnNext
<1>. QED
    BY <1>1, <1>2, Zenon

\* The evidence gate (VerifierAgent.verify over the references of
\* EvidenceAgent.reproduce): whatever is published of high severity quotes the
\* line as somebody read it.
THEOREM EvidenceIsReal == TurnSpec => []EvidenceReal
<1>1. Evident => EvidenceReal
    BY Zenon DEF Evident
<1>. QED
    BY <1>1, InitEvident, NextEvident, PTL DEF TurnSpec

-----------------------------------------------------------------------------

\* The summary is a row from the archive on, and stays, since it is no working
\* memory; and a completed task has none of those, since a row keeps its task.
Released ==
    /\ \A t \in Tasks :
          turn[t].pc \in {"forget", "completed"} => <<Episodic, <<"summary", t>>>> \in DOMAIN memories
    /\ MemoryReleased

\* What the steps of a task do to the memories: others' summaries stay, and a new
\* row is the task's own.
Tends(t) ==
    /\ \A m \in DOMAIN memories : m[1] # Working => m \in DOMAIN memories'
    /\ \A m \in DOMAIN memories' :
          (m \in DOMAIN memories /\ memories'[m] = memories[m]) \/ memories'[m] = t

\* A summary is not working memory.
LEMMA SummaryStays == \A t : <<Episodic, <<"summary", t>>>>[1] # Working
BY SMT DEF Episodic, Working

\* What is remembered, forgotten and expired is in accordance with it.
LEMMA RowsTend ==
    ASSUME NEW t \in Tasks, NEW scope, NEW contents, NEW ids \in SUBSET WorkingRows,
           \/ memories' = With(memories, t, scope, contents)
           \/ memories' = With(Without(ids), t, scope, contents)
           \/ memories' = Without(ids)
           \/ memories' = memories
    PROVE  Tends(t)
<1>1. \A rows : LET more == With(rows, t, scope, contents)
                IN /\ \A m \in DOMAIN rows : m \in DOMAIN more /\ more[m] = rows[m]
                   /\ \A m \in DOMAIN more : m \in DOMAIN rows \/ more[m] = t
    BY SMT DEF With
<1>2. /\ \A m \in DOMAIN memories : m[1] # Working => m \in DOMAIN Without(ids)
      /\ \A m \in DOMAIN Without(ids) : m \in DOMAIN memories /\ Without(ids)[m] = memories[m]
    BY SMT DEF Without, WorkingRows
<1>. QED
    BY <1>1, <1>2, SMT DEF Tends

\* A step of a task that is not at its end leaves the others' ends alone.
LEMMA OthersReleased ==
    ASSUME Released, NEW t \in Tasks, Tends(t), turn'[t].pc \notin {"forget", "completed"},
           \A u \in Tasks : u # t => turn'[u] = turn[u]
    PROVE  Released'
<1>. SUFFICES ASSUME NEW u \in Tasks, turn'[u].pc \in {"forget", "completed"}
              PROVE  /\ <<Episodic, <<"summary", u>>>> \in DOMAIN memories'
                     /\ turn'[u].pc = "completed" => \A m \in WorkingRows' : memories'[m] # u
    BY Zenon DEF Released, MemoryReleased, TurnAt
<1>1. u # t /\ turn'[u] = turn[u]
    BY Zenon
<1>2. <<Episodic, <<"summary", u>>>> \in DOMAIN memories'
    BY <1>1, SummaryStays, Zenon DEF Released, Tends
<1>3. ASSUME turn'[u].pc = "completed", NEW m \in WorkingRows' PROVE memories'[m] # u
    <2>1. m \in DOMAIN memories' /\ m[1] = Working
        BY <1>3, Zenon DEF WorkingRows
    <2>2. m \in DOMAIN memories /\ memories'[m] = memories[m] => m \in WorkingRows
        BY <2>1, Zenon DEF WorkingRows
    <2>. QED
        BY <1>1, <1>3, <2>1, <2>2, Zenon DEF Tends, Released, MemoryReleased, TurnAt
<1>. QED
    BY <1>2, <1>3, Zenon

\* Nobody has finished at first.
LEMMA InitReleased == TurnInit => Released
BY SMT DEF TurnInit, Released, MemoryReleased, TurnAt, Fresh

\* The turn that a step of the loop or of the gate leaves is not at its end.
LEMMA WorkReleased ==
    ASSUME Evident, Released, NEW t \in Tasks,
           \/ Begin(t) \/ ModelRaises(t) \/ RetryTurn(t) \/ OtherTool(t)
           \/ \E kind \in {"tool", "final", "failed"} : Act(t, kind)
           \/ \E from \in Lines : \E to \in from..Length : ReadTool(t, from, to)
           \/ \E finding \in Findings \cup {NoFinding} : Finish(t, finding)
           \/ \E others \in BOOLEAN : VerifyTurn(t, others)
           \/ WriteFails(t) \/ TurnDies(t)
    PROVE  Released'
<1>1. turn \in [Tasks -> TurnType] /\ turn[t] \in TurnType
    BY Zenon DEF Evident
<1>2. ASSUME NEW next, Becomes(t, next)
      PROVE  turn'[t] = next /\ \A u \in Tasks : u # t => turn'[u] = turn[u]
    BY <1>1, <1>2, SMT DEF Becomes
<1>. DEFINE Early == {"idle", "step", "tool", "final", "failed", "evidence", "arbitrate"}
<1>3. Failed(t).pc = "failed" /\ Fresh.pc = "idle" /\ NextStep(t).pc \in {"failed", "step"}
    BY <1>1, Zenon DEF Failed, Fresh, NextStep, TurnType
<1>4. \E next : Becomes(t, next) /\ next.pc \in Early
    <2>1. CASE Begin(t)
        <3>. DEFINE next == [turn[t] EXCEPT !.pc = "step", !.step = 1, !.reads = {}, !.finding = NoFinding, !.refs = {}]
        <3>1. Becomes(t, next)
            BY <2>1, Zenon DEF Begin
        <3>2. next.pc \in Early
            BY <1>1, Zenon DEF TurnType
        <3>. HIDE DEF next
        <3>. QED
            BY <3>1, <3>2, Zenon
    <2>2. CASE ModelRaises(t) \/ WriteFails(t) \/ TurnDies(t)
        BY <1>3, <2>2, SMT DEF ModelRaises, WriteFails, TurnDies
    <2>3. CASE RetryTurn(t)
        <3>. DEFINE again == [turn[t] EXCEPT !.pc = "idle", !.attempt = @ + 1]
                   over == [turn[t] EXCEPT !.pc = "evidence", !.attempt = 1, !.finding = NoFinding, !.refs = {}]
        <3>1. Becomes(t, again) \/ Becomes(t, over)
            BY <2>3, SMT DEF RetryTurn
        <3>2. again.pc \in Early
            BY <1>1, Zenon DEF TurnType
        <3>3. over.pc \in Early
            BY <1>1, Zenon DEF TurnType
        <3>. HIDE DEF again, over
        <3>. QED
            BY <3>1, <3>2, <3>3, Zenon
    <2>4. CASE OtherTool(t)
        BY <1>3, <2>4, Zenon DEF OtherTool
    <2>5. CASE \E kind \in {"tool", "final", "failed"} : Act(t, kind)
        <3>1. PICK kind \in {"tool", "final", "failed"} : Act(t, kind)
            BY <2>5, Zenon
        <3>. DEFINE next == [turn[t] EXCEPT !.pc = kind]
        <3>2. Becomes(t, next)
            BY <3>1, Zenon DEF Act
        <3>3. next.pc \in Early
            BY <1>1, <3>1, Zenon DEF TurnType
        <3>. HIDE DEF next
        <3>. QED
            BY <3>2, <3>3, Zenon
    <2>6. CASE \E from \in Lines : \E to \in from..Length : ReadTool(t, from, to)
        <3>1. \E read : Becomes(t, IF NextStep(t).pc = "failed" THEN NextStep(t)
                              ELSE [NextStep(t) EXCEPT !.reads = @ \cup {read}])
            BY <2>6, Zenon DEF ReadTool
        <3>2. \A read : [NextStep(t) EXCEPT !.reads = @ \cup {read}].pc = NextStep(t).pc
            BY TurnTypes, Zenon DEF TurnType
        <3>. QED
            BY <1>3, <3>1, <3>2, Zenon
    <2>7. CASE \E finding \in Findings \cup {NoFinding} : Finish(t, finding)
        <3>1. PICK finding \in Findings \cup {NoFinding} : Finish(t, finding)
            BY <2>7, Zenon
        <3>. DEFINE next == [turn[t] EXCEPT !.pc = "evidence", !.attempt = 1, !.step = 1, !.reads = {},
                               !.finding = finding,
                               !.refs = IF finding = NoFinding THEN {} ELSE EvidenceFor(t, finding.line)]
        <3>2. Becomes(t, next)
            BY <3>1, Zenon DEF Finish
        <3>3. next.pc \in Early
            BY <1>1, <3>1, Zenon DEF TurnType
        <3>. HIDE DEF next
        <3>. QED
            BY <3>2, <3>3, Zenon
    <2>8. CASE \E others \in BOOLEAN : VerifyTurn(t, others)
        <3>1. PICK others \in BOOLEAN : VerifyTurn(t, others)
            BY <2>8, Zenon
        <3>. DEFINE none == [turn[t] EXCEPT !.pc = "arbitrate"]
                   some == [turn[t] EXCEPT !.pc = "arbitrate", !.approved = PassesGate(turn[t].finding, others),
                               !.refs = IF Verified(turn[t].finding) THEN @ \cup {Context(turn[t].finding.line)} ELSE @]
        <3>2. Becomes(t, none) \/ Becomes(t, some)
            <4>1. CASE turn[t].finding = NoFinding
                BY <3>1, <4>1, Zenon DEF VerifyTurn
            <4>2. CASE turn[t].finding # NoFinding
                BY <3>1, <4>2, Zenon DEF VerifyTurn
            <4>. QED
                BY <4>1, <4>2, Zenon
        <3>3. none.pc \in Early
            BY <1>1, <3>1, Zenon DEF TurnType
        <3>4. some.pc \in Early
            BY <1>1, <3>1, Zenon DEF TurnType
        <3>. HIDE DEF none, some
        <3>. QED
            BY <3>2, <3>3, <3>4, Zenon
    <2>. QED
        BY <2>1, <2>2, <2>3, <2>4, <2>5, <2>6, <2>7, <2>8, Zenon
<1>5. Tends(t)
    <2>1. CASE Begin(t)
        BY <2>1, RowsTend, Zenon DEF Begin, Purge
    <2>2. CASE ModelRaises(t)
        BY <2>2, RowsTend, Zenon DEF ModelRaises, AddMemories
    <2>3. CASE \E kind \in {"tool", "final", "failed"} : Act(t, kind)
        BY <2>3, RowsTend, Zenon DEF Act, AddMemories
    <2>4. CASE OtherTool(t)
        BY <2>4, RowsTend, Zenon DEF OtherTool, Observe
    <2>5. CASE \E from \in Lines : \E to \in from..Length : ReadTool(t, from, to)
        BY <2>5, RowsTend, Zenon DEF ReadTool, Observe
    <2>6. CASE UNCHANGED memories
        BY <2>6, Zenon DEF Tends
    <2>. QED
        BY <2>1, <2>2, <2>3, <2>4, <2>5, <2>6, Zenon DEF RetryTurn, Finish, VerifyTurn, WriteFails,
            TurnDies
<1>. QED
    BY <1>2, <1>4, <1>5, OthersReleased, Zenon

\* The summary is written before the task forgets ...
LEMMA ArchiveReleased ==
    ASSUME Evident, Released, NEW t \in Tasks, Archive(t)
    PROVE  Released'
<1>1. turn \in [Tasks -> TurnType] /\ turn[t] \in TurnType
    BY Zenon DEF Evident
<1>2. turn'[t].pc = "forget" /\ \A u \in Tasks : u # t => turn'[u] = turn[u]
    <2>. DEFINE next == [turn[t] EXCEPT !.pc = "forget"]
    <2>1. Becomes(t, next) /\ next.pc = "forget"
        BY <1>1, Zenon DEF Archive, TurnType
    <2>. HIDE DEF next
    <2>. QED
        BY <1>1, <2>1, SMT DEF Becomes
<1>3. memories' = With(memories, t, Episodic, {<<"summary", t>>})
    BY Zenon DEF Archive, AddMemories
<1>4. <<Episodic, <<"summary", t>>>> \in DOMAIN memories'
    BY <1>3, Zenon DEF With
<1>5. Tends(t)
    BY <1>3, Zenon DEF With, Tends
<1>. SUFFICES ASSUME NEW u \in Tasks, turn'[u].pc \in {"forget", "completed"}, u # t
              PROVE  /\ <<Episodic, <<"summary", u>>>> \in DOMAIN memories'
                     /\ turn'[u].pc = "completed" => \A m \in WorkingRows' : memories'[m] # u
    BY <1>2, <1>4, SMT DEF Released, MemoryReleased, TurnAt
<1>6. <<Episodic, <<"summary", u>>>> \in DOMAIN memories'
    BY <1>2, <1>5, SummaryStays, Zenon DEF Released, Tends
<1>7. ASSUME turn'[u].pc = "completed", NEW m \in WorkingRows' PROVE memories'[m] # u
    <2>1. m \in DOMAIN memories' /\ m[1] = Working
        BY <1>7, Zenon DEF WorkingRows
    <2>2. m \in DOMAIN memories /\ memories'[m] = memories[m] => m \in WorkingRows
        BY <2>1, Zenon DEF WorkingRows
    <2>. QED
        BY <1>2, <1>5, <1>7, <2>1, <2>2, Zenon DEF Tends, Released, MemoryReleased, TurnAt
<1>. QED
    BY <1>6, <1>7, Zenon

\* ... and forgets all that is still its own.
LEMMA ReleaseReleased ==
    ASSUME Evident, Released, NEW t \in Tasks, Release(t)
    PROVE  Released'
<1>1. turn \in [Tasks -> TurnType] /\ turn[t].pc = "forget"
    BY Zenon DEF Evident, Release, TurnAt
<1>2. turn'[t].pc = "completed" /\ \A u \in Tasks : u # t => turn'[u] = turn[u]
    <2>. DEFINE next == [Fresh EXCEPT !.pc = "completed"]
    <2>1. Becomes(t, next) /\ next.pc = "completed"
        BY Zenon DEF Release, Fresh
    <2>. HIDE DEF next
    <2>. QED
        BY <1>1, <2>1, SMT DEF Becomes
<1>3. memories' = Without({m \in WorkingRows : memories[m] = t})
    BY Zenon DEF Release, Forget
<1>4. /\ \A m \in DOMAIN memories : m[1] # Working => m \in DOMAIN memories'
      /\ \A m \in DOMAIN memories' : m \in DOMAIN memories /\ memories'[m] = memories[m]
      /\ \A m \in WorkingRows' : memories'[m] # t
    BY <1>3, Zenon DEF Without, WorkingRows
<1>5. WorkingRows' \subseteq WorkingRows
    BY <1>4, Zenon DEF WorkingRows
<1>. SUFFICES ASSUME NEW u \in Tasks, turn'[u].pc \in {"forget", "completed"}
              PROVE  /\ <<Episodic, <<"summary", u>>>> \in DOMAIN memories'
                     /\ turn'[u].pc = "completed" => \A m \in WorkingRows' : memories'[m] # u
    BY Zenon DEF Released, MemoryReleased, TurnAt
<1>6. turn[u].pc \in {"forget", "completed"} /\ (u # t => turn'[u] = turn[u])
    BY <1>1, <1>2, SMT
<1>7. <<Episodic, <<"summary", u>>>> \in DOMAIN memories'
    BY <1>4, <1>6, SummaryStays, Zenon DEF Released
<1>8. ASSUME turn'[u].pc = "completed", NEW m \in WorkingRows' PROVE memories'[m] # u
    <2>1. m \in WorkingRows /\ memories'[m] = memories[m]
        BY <1>4, <1>5, <1>8, Zenon DEF WorkingRows
    <2>. QED
        BY <1>4, <1>6, <1>8, <2>1, Zenon DEF Released, MemoryReleased, TurnAt
<1>. QED
    BY <1>7, <1>8, Zenon

\* Every step keeps it.
LEMMA NextReleased == Evident /\ Released /\ [TurnNext]_turnVars => Released'
<1>. SUFFICES ASSUME Evident, Released, [TurnNext]_turnVars PROVE Released'
    OBVIOUS
<1>1. CASE UNCHANGED <<turn, memories>>
    BY <1>1, Zenon DEF Released, MemoryReleased, WorkingRows, TurnAt
<1>2. ASSUME NEW t \in Tasks, TurnStep(t) \/ WriteFails(t) \/ TurnDies(t) PROVE Released'
    BY <1>2, WorkReleased, ArchiveReleased, ReleaseReleased, Zenon DEF TurnStep
<1>. QED
    BY <1>1, <1>2, Zenon DEF turnVars, TurnNext, Update

\* Releasing the working memory (delete_agent_memories after archive_review) by
\* task, of rows known by their content, leaves none that the task wrote first.
THEOREM MemoryIsReleased == TurnSpec => []MemoryReleased
<1>1. Released => MemoryReleased
    BY Zenon DEF Released
<1>. QED
    BY <1>1, InitEvident, NextEvident, InitReleased, NextReleased, PTL DEF TurnSpec

=============================================================================
