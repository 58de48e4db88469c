------------------------------- MODULE DMAProofs -------------------------------
(***************************************************************************)
(* Proofs about the cluster DMA, for every number of cores, every size of  *)
(* the job table and every program: a job keeps its entry, transfers are   *)
(* of one request, dma_wait returns when the data has moved.               *)
(***************************************************************************)
EXTENDS DMA, Integers, FiniteSetTheorems, WellFoundedInduction, TLAPS

(* Loops as functions, and indices that go round. *)

\* A non-empty set of naturals has a least member.
LEMMA LeastNat ==
  ASSUME NEW T \in SUBSET Nat, T # {}
  PROVE  \E x \in T : \A y \in T : x <= y
<1> DEFINE R == {ss \in Nat \X Nat : ss[1] < ss[2]}
<1>1. IsWellFoundedOn(R, Nat)
  BY NatLessThanWellFounded, Zenon DEF OpToRel
<1>2. \E x \in T : \A y \in T : ~ (<<y, x>> \in R)
  <2> HIDE DEF R
  <2> QED BY <1>1, WFMin
<1>3. PICK x \in T : \A y \in T : ~ (<<y, x>> \in R)
  BY <1>2
<1>4. ASSUME NEW y \in T PROVE x <= y
  <2>1. y \in Nat /\ x \in Nat
    OBVIOUS
  <2>2. y < x => <<y, x>> \in R
    BY <2>1
  <2> QED BY <1>3, <2>1, <2>2
<1>5. QED
  BY <1>4

\* A set that holds 0 and, with i, also i + 1, holds all numbers up to n.
LEMMA SetInduction ==
  ASSUME NEW S, 0 \in S, NEW n \in Nat, \A i \in 0 .. n - 1 : i \in S => i + 1 \in S
  PROVE  \A i \in 0 .. n : i \in S
<1> SUFFICES ASSUME {i \in 0 .. n : i \notin S} # {} PROVE FALSE
  OBVIOUS
<1> DEFINE T == {i \in 0 .. n : i \notin S}
<1>1. PICK x \in T : \A y \in T : x <= y
  <2>1. T \in SUBSET Nat
    OBVIOUS
  <2>2. QED
    BY <2>1, LeastNat
<1>2. x # 0 /\ x - 1 \in 0 .. n - 1 /\ x - 1 \notin T
  BY <1>1
<1>3. QED
  BY <1>1, <1>2

\* f: the values, in S, of a loop of n turns that begins with first.
Bodies(S, n) == [S \X (0 .. n - 1) -> S]
IsLoop(f, S, n, first, turn) ==
  /\ f \in [0 .. n -> S]
  /\ f[0] = first /\ \A i \in 1 .. n : f[i] = turn[<<f[i - 1], i - 1>>]

\* The values of a loop of n turns exist.
LEMMA Loop ==
  ASSUME NEW S, NEW n \in Nat, NEW first \in S, NEW turn \in Bodies(S, n)
  PROVE  \E f : IsLoop(f, S, n, first, turn)
<1> USE DEF Bodies
<1> DEFINE Runs(f, m) == f[0] = first /\ \A i \in 1 .. m : f[i] = turn[<<f[i - 1], i - 1>>]
           T == {m \in Nat : \E f \in [0 .. m -> S] : Runs(f, m)}
<1>1. 0 \in T
  <2>1. [i \in 0 .. 0 |-> first] \in [0 .. 0 -> S] /\ Runs([i \in 0 .. 0 |-> first], 0)
    OBVIOUS
  <2>2. QED
    BY <2>1
<1>2. ASSUME NEW m \in 0 .. n - 1, m \in T PROVE m + 1 \in T
  <2>1. PICK f \in [0 .. m -> S] : Runs(f, m)
    BY <1>2
  <2> DEFINE run == [i \in 0 .. m + 1 |-> IF i <= m THEN f[i] ELSE turn[<<f[m], m>>]]
  <2>2. turn[<<f[m], m>>] \in S
    OBVIOUS
  <2>3. run \in [0 .. m + 1 -> S]
    BY <2>2
  <2>4. Runs(run, m + 1)
    <3>1. run[0] = first
      BY <2>1
    <3>2. ASSUME NEW i \in 1 .. m + 1 PROVE run[i] = turn[<<run[i - 1], i - 1>>]
      <4>1. CASE i <= m
        BY <2>1, <4>1
      <4>2. CASE i = m + 1
        <5>1. i - 1 = m /\ run[i] = turn[<<f[m], m>>] /\ run[m] = f[m]
          BY <4>2
        <5>2. QED
          BY <5>1
      <4>3. QED
        BY <4>1, <4>2
    <3>3. QED
      BY <3>1, <3>2
  <2>5. \E h \in [0 .. m + 1 -> S] : Runs(h, m + 1)
    <3> HIDE DEF run, Runs
    <3>1. QED
      BY <2>3, <2>4
  <2>6. QED
    BY <2>5
<1>3. n \in T
  <2> HIDE DEF T
  <2>1. QED
    BY <1>1, <1>2, SetInduction
<1>4. QED
  BY <1>3 DEF IsLoop

\* An index that goes round stays in its range.
LEMMA RoundRange == ASSUME NEW n \in Nat \ {0}, NEW x \in Nat PROVE x % n \in 0 .. n - 1
  OBVIOUS

\* It is where it would be without going round, or less by one round.
LEMMA RoundOnce == ASSUME NEW n \in Nat \ {0}, NEW x \in 0 .. n - 1 PROVE x % n = x /\ (x + n) % n = x
<1>1. x % n = x
  OBVIOUS
<1>2. (x + n) % n = x
  OBVIOUS
<1>3. QED
  BY <1>1, <1>2

-----------------------------------------------------------------------------

(* The inductive invariant. *)

Programming == {"addr1", "addr2", "mode"}
Waiting == {"poll", "asleep"}

\* What the registers written so far have left in the entry of the request
\* core c is programming.
Draft(c) == [owner |-> IF pc[c] = "addr1" THEN None ELSE c,
             addr1 |-> IF pc[c] = "addr1" THEN 0 ELSE req[c].tag,
             addr2 |-> IF pc[c] = "mode" THEN req[c].tag ELSE 0,
             size |-> 0, dir |-> 0, pri |-> FALSE, sleep |-> FALSE, trigger |-> FALSE, done |-> FALSE]

\* An entry written to the end, by one request.
Whole(c, j) ==
  LET e == jt[c][j] IN
  /\ e.owner = c /\ e.size > 0 /\ e.addr1 = e.size /\ e.addr2 = e.size
  /\ e.done => e.trigger /\ Moved(c, e.size)

\* An entry is free, a draft, or a whole job: one that runs by itself, or one its
\* core still knows.
EntryInv(c) ==
  \A j \in Jobs :
    \/ jt[c][j] = FreeEntry
    \/ pc[c] \in Programming /\ j = req[c].job
    \/ /\ Whole(c, j)
       /\ \/ jt[c][j].pri /\ jt[c][j].trigger /\ ~jt[c][j].done
          \/ \E r \in out[c] : r.job = j

\* The core and the entry agree about an outstanding job.
Known(c, r) ==
  LET e == jt[c][r.job] IN
  /\ r.job \in Jobs /\ Whole(c, r.job)
  /\ r = [job |-> r.job, tag |-> e.size, dir |-> e.dir, pri |-> e.pri, sleep |-> e.sleep,
          started |-> e.trigger]
  /\ ~(r.pri /\ r.started)
OutInv(c) == \A r \in out[c] : Known(c, r)

\* A core that programs a job has an entry for it, and room among those outstanding.
DraftInv(c) ==
  pc[c] \in Programming =>
    /\ req[c].job \in Jobs /\ job_curr_prog[c] = req[c].job
    /\ jt[c][req[c].job] = Draft(c)
    /\ req[c].tag = tag[c] /\ tag[c] > 0 /\ ~req[c].started
    /\ Cardinality(out[c]) < MaxOut[c]

\* A core that waits does so for an outstanding job of its own.
WaitInv(c) ==
  /\ pc[c] = "run" => req[c] = NoRequest
  /\ pc[c] \in Waiting => req[c] \in out[c]

\* A request the core no longer knows has been moved, or is still in the table.
LostInv(c) == \A t \in Started(c) : Moved(c, t) \/ \E j \in Jobs : jt[c][j].size = t

CoreInv(c) ==
  /\ EntryInv(c) /\ OutInv(c) /\ DraftInv(c) /\ WaitInv(c) /\ LostInv(c)
  /\ \A t \in collected[c] : Moved(c, t)
  /\ \A x \in moved[c] : x.from # x.to /\ x.source = x.target /\ x.source = x.size /\ x.source > 0

\* The engine works for a job that stays ready until it is moved.
EngineInv ==
  /\ engine.at # "wait" => working_sig
  /\ working_sig => Ready(curr_core, curr_job[curr_core])
  /\ engine.at = "source" =>
       /\ engine.source = Current.size /\ engine.size = Current.size
       /\ engine.from = (IF Current.dir = 1 THEN "addr1" ELSE "addr2")
  /\ engine.at = "target" => Moved(curr_core, Current.size)

DMAInv == TypeOK /\ EngineInv /\ \A c \in Cores : CoreInv(c)

-----------------------------------------------------------------------------
(* The scheduler's search. *)

\* What the search has found after some turns.
Finds == [core : Cores, hit : BOOLEAN, job : [Cores -> Jobs]]
HasReady(s) == s.hit => \E j \in Jobs : Ready(s.core, j)

\* The least number of a set of jobs or cores.
LEMMA MinIn == ASSUME NEW S \in SUBSET Nat, S # {} PROVE Min(S) \in S
  BY LeastNat DEF Min

\* Going round from one job by the number of another ends at a job.
LEMMA JobRound == ASSUME NEW x \in Jobs, NEW y \in Jobs PROVE (x + 1 + y) % JT_SIZE \in Jobs
<1>1. x + 1 + y \in Nat /\ JT_SIZE \in Nat \ {0}
  BY ConstantsAssumption DEF Jobs
<1>2. QED
  BY <1>1, RoundRange DEF Jobs

\* A turn of the search leaves a core and a job of its own; a core that was
\* hit has a ready job.
LEMMA VisitFinds ==
  ASSUME NEW s \in Finds, NEW i \in 0 .. Channels - 1
  PROVE  Visit(s, i) \in Finds /\ (HasReady(s) => HasReady(Visit(s, i)))
<1> DEFINE c == (s.core + 1 + i) % Channels
           found == {j \in Jobs : Ready(c, (s.job[s.core] + 1 + j) % JT_SIZE)}
<1>1. s.core \in Cores /\ s.job \in [Cores -> Jobs] /\ s.hit \in BOOLEAN
  BY DEF Finds
<1>2. c \in Cores
  <2>1. s.core + 1 + i \in Nat /\ Channels \in Nat \ {0}
    BY <1>1, ConstantsAssumption DEF Cores
  <2>2. QED
    BY <2>1, RoundRange DEF Cores
<1>3. CASE found = {}
  BY <1>3 DEF Visit
<1>4. CASE found # {}
  <2> DEFINE m == Min(found)
             job == [s.job EXCEPT ![c] = (@ + 1 + m) % JT_SIZE]
  <2>1. m \in found
    <3>1. found \in SUBSET Nat
      BY DEF Jobs
    <3> HIDE DEF found
    <3>2. QED
      BY <1>4, <3>1, MinIn
  <2>2. (s.job[s.core] + 1 + m) % JT_SIZE \in Jobs /\ (s.job[c] + 1 + m) % JT_SIZE \in Jobs
    <3>1. m \in Jobs /\ s.job[s.core] \in Jobs /\ s.job[c] \in Jobs
      BY <1>1, <1>2, <2>1
    <3> HIDE DEF m, c
    <3>2. QED
      BY <3>1, JobRound
  <2>3. Visit(s, i) = [core |-> c, hit |-> TRUE, job |-> job]
    BY <1>4 DEF Visit
  <2>4. job \in [Cores -> Jobs]
    BY <1>1, <2>2
  <2>5. Ready(c, (s.job[s.core] + 1 + m) % JT_SIZE)
    BY <2>1
  <2>6. QED
    <3> HIDE DEF c, job, m
    <3>1. QED
      BY <1>2, <2>2, <2>3, <2>4, <2>5 DEF Finds, HasReady
<1>5. QED
  BY <1>3, <1>4

\* Counting from any job, some offset of the inner loop reaches every job.
LEMMA OffsetReaches == ASSUME NEW a \in Jobs, NEW j \in Jobs PROVE \E k \in Jobs : (a + 1 + k) % JT_SIZE = j
<1> DEFINE k == IF j > a THEN j - a - 1 ELSE j - a - 1 + JT_SIZE
<1>1. k \in Jobs /\ a + 1 + k = (IF j > a THEN j ELSE j + JT_SIZE)
  BY ConstantsAssumption DEF Jobs
<1>2. j % JT_SIZE = j /\ (j + JT_SIZE) % JT_SIZE = j
  BY RoundOnce, ConstantsAssumption DEF Jobs
<1> HIDE DEF k
<1>3. QED
  BY <1>1, <1>2

\* The last turn comes back to the core chosen so far, and leaves a ready job of it.
LEMMA LastVisit ==
  ASSUME NEW s \in Finds, HasReady(s), Visit(s, Channels - 1).hit
  PROVE  LET v == Visit(s, Channels - 1) IN Ready(v.core, v.job[v.core])
<1> DEFINE a == s.job[s.core]
           found == {j \in Jobs : Ready(s.core, (a + 1 + j) % JT_SIZE)}
           v == Visit(s, Channels - 1)
<1>1. s.core \in Cores /\ s.job \in [Cores -> Jobs] /\ a \in Jobs
  BY DEF Finds
<1>2. (s.core + 1 + (Channels - 1)) % Channels = s.core
  <2>1. s.core + 1 + (Channels - 1) = s.core + Channels
    BY <1>1, ConstantsAssumption DEF Cores
  <2>2. QED
    BY <1>1, <2>1, RoundOnce, ConstantsAssumption DEF Cores
<1>3. v = IF found = {} THEN s
          ELSE [core |-> s.core, hit |-> TRUE, job |-> [s.job EXCEPT ![s.core] = (@ + 1 + Min(found)) % JT_SIZE]]
  BY <1>2 DEF Visit
<1>4. ASSUME s.hit PROVE found # {}
  <2>1. PICK j \in Jobs : Ready(s.core, j)
    BY <1>4 DEF HasReady
  <2>2. PICK k \in Jobs : (a + 1 + k) % JT_SIZE = j
    BY <1>1, OffsetReaches
  <2>3. QED
    BY <2>1, <2>2
<1>5. found # {}
  BY <1>3, <1>4
<1>6. Min(found) \in found
  <2>1. found \in SUBSET Nat
    BY DEF Jobs
  <2> HIDE DEF found
  <2>2. QED
    BY <1>5, <2>1, MinIn
<1>7. v.core = s.core /\ v.job[s.core] = (a + 1 + Min(found)) % JT_SIZE
  <2> HIDE DEF found, v
  <2>1. QED
    BY <1>1, <1>3, <1>5
<1>8. QED
  BY <1>6, <1>7

\* The turns of the search, as a function of their number.
IsSearch(turn) ==
  /\ turn[0] = [core |-> curr_core, hit |-> FALSE, job |-> curr_job]
  /\ \A i \in 0 .. Channels - 1 : turn[i + 1] = Visit(turn[i], i)
  /\ Search = turn[Channels]
\* The loop of set_next_job has these turns.
LEMMA SearchTurns == ASSUME TypeOK PROVE \E turn : IsSearch(turn)
<1> DEFINE first == [core |-> curr_core, hit |-> FALSE, job |-> curr_job]
           step == [x \in Finds \X (0 .. Channels - 1) |-> Visit(x[1], x[2])]
           Turns(f) == f = [i \in 0 .. Channels |-> IF i = 0 THEN first ELSE Visit(f[i - 1], i - 1)]
           turn == CHOOSE f : Turns(f)
<1>1. first \in Finds /\ HasReady(first)
  BY DEF TypeOK, Finds, HasReady
<1>2. step \in [Finds \X (0 .. Channels - 1) -> Finds]
  BY VisitFinds
<1>3. PICK f : IsLoop(f, Finds, Channels, first, step)
  <2>1. Channels \in Nat /\ first \in Finds /\ step \in Bodies(Finds, Channels)
    BY <1>1, <1>2, ConstantsAssumption DEF Bodies
  <2> HIDE DEF first, step
  <2>2. QED
    BY <2>1, Loop
<1>4. Turns(f)
  <2>1. ASSUME NEW i \in 1 .. Channels PROVE f[i] = Visit(f[i - 1], i - 1)
    <3>1. f[i - 1] \in Finds /\ i - 1 \in 0 .. Channels - 1
      BY <1>3, ConstantsAssumption DEF IsLoop
    <3>2. QED
      BY <1>3, <3>1 DEF IsLoop
  <2>2. QED
    BY <1>3, <2>1, ConstantsAssumption DEF IsLoop
<1>5. turn[0] = first /\ \A i \in 0 .. Channels - 1 : turn[i + 1] = Visit(turn[i], i)
  <2>1. Turns(turn)
    <3> HIDE DEF Turns
    <3>1. QED
      BY <1>4
  <2> HIDE DEF turn, first
  <2>2. QED
    BY <2>1, ConstantsAssumption
<1>6. Search = turn[Channels]
  BY DEF Search
<1>7. QED
  <2> HIDE DEF turn
  <2>1. QED
    BY <1>5, <1>6 DEF IsSearch

\* The job the scheduler hands to transfer() is a ready one, although the offsets of
\* jobs are counted from one core and applied to another on the way.
LEMMA SearchReady ==
  ASSUME TypeOK
  PROVE  Search.hit => /\ Search.core \in Cores /\ Search.job \in [Cores -> Jobs]
                       /\ Ready(Search.core, Search.job[Search.core])
<1>1. PICK turn : IsSearch(turn)
  BY SearchTurns
<1>2. turn[0] \in Finds /\ HasReady(turn[0])
  BY <1>1 DEF IsSearch, TypeOK, Finds, HasReady
<1>3. \A i \in 0 .. Channels - 1 : turn[i + 1] = Visit(turn[i], i)
  BY <1>1 DEF IsSearch
<1> DEFINE S == {i \in 0 .. Channels : turn[i] \in Finds /\ HasReady(turn[i])}
<1>4. \A i \in 0 .. Channels : i \in S
  <2>1. 0 \in S
    BY <1>2, ConstantsAssumption
  <2>2. ASSUME NEW i \in 0 .. Channels - 1, i \in S PROVE i + 1 \in S
    <3>1. turn[i + 1] = Visit(turn[i], i)
      BY <1>3
    <3>2. turn[i + 1] \in Finds /\ HasReady(turn[i + 1])
      BY <2>2, <3>1, VisitFinds
    <3>3. QED
      BY <3>2, ConstantsAssumption
  <2>3. QED
    <3> HIDE DEF S
    <3>1. QED
      BY <2>1, <2>2, SetInduction, ConstantsAssumption
<1>5. turn[Channels] = Visit(turn[Channels - 1], Channels - 1)
  BY <1>3, ConstantsAssumption
<1>6. turn[Channels - 1] \in Finds /\ HasReady(turn[Channels - 1]) /\ turn[Channels] \in Finds
  BY <1>4, ConstantsAssumption
<1>7. QED
  BY <1>1, <1>5, <1>6, LastVisit DEF Finds, IsSearch

\* Counting from any core, some offset of the outer loop reaches every core.
LEMMA TurnReaches ==
  ASSUME NEW a \in Cores, NEW c \in Cores
  PROVE  \E k \in 0 .. Channels - 1 : (a + 1 + k) % Channels = c
<1> DEFINE k == IF c > a THEN c - a - 1 ELSE c - a - 1 + Channels
<1>1. k \in 0 .. Channels - 1 /\ a + 1 + k = (IF c > a THEN c ELSE c + Channels)
  BY ConstantsAssumption DEF Cores
<1>2. c % Channels = c /\ (c + Channels) % Channels = c
  BY RoundOnce, ConstantsAssumption DEF Cores
<1> HIDE DEF k
<1>3. QED
  BY <1>1, <1>2

\* A turn without a hit has looked at every job of its core, and changes nothing.
LEMMA VisitMisses ==
  ASSUME NEW s \in Finds, NEW i \in 0 .. Channels - 1, ~Visit(s, i).hit
  PROVE  Visit(s, i) = s /\ \A j \in Jobs : ~Ready((s.core + 1 + i) % Channels, j)
<1> DEFINE c == (s.core + 1 + i) % Channels
           found == {j \in Jobs : Ready(c, (s.job[s.core] + 1 + j) % JT_SIZE)}
<1>1. found = {} /\ Visit(s, i) = s
  BY DEF Visit
<1>2. ASSUME NEW j \in Jobs PROVE ~Ready(c, j)
  <2>1. s.job[s.core] \in Jobs
    BY DEF Finds
  <2>2. PICK k \in Jobs : (s.job[s.core] + 1 + k) % JT_SIZE = j
    BY <2>1, OffsetReaches
  <2>3. QED
    BY <1>1, <2>2
<1>3. QED
  BY <1>1, <1>2

\* A search that finds nothing has looked at every job of every core.
LEMMA SearchFinds == ASSUME TypeOK PROVE NeverIdle
<1>1. PICK turn : IsSearch(turn)
  BY SearchTurns
<1>2. turn[0] \in Finds /\ turn[0].core = curr_core
  BY <1>1 DEF IsSearch, TypeOK, Finds
<1> DEFINE Missed(i) == \A k \in 0 .. i - 1, j \in Jobs : ~Ready((curr_core + 1 + k) % Channels, j)
           S == {i \in 0 .. Channels : turn[i] \in Finds /\ (turn[i].hit \/ (turn[i].core = curr_core /\ Missed(i)))}
<1>3. \A i \in 0 .. Channels : i \in S
  <2>1. 0 \in S
    BY <1>2, ConstantsAssumption
  <2>2. ASSUME NEW i \in 0 .. Channels - 1, i \in S PROVE i + 1 \in S
    <3>1. turn[i + 1] = Visit(turn[i], i) /\ turn[i] \in Finds /\ i + 1 \in 0 .. Channels
      BY <1>1, <2>2, ConstantsAssumption DEF IsSearch
    <3>2. turn[i + 1] \in Finds
      BY <3>1, VisitFinds
    <3>3. CASE ~turn[i + 1].hit
      <4>1. turn[i + 1] = turn[i] /\ \A j \in Jobs : ~Ready((turn[i].core + 1 + i) % Channels, j)
        BY <3>1, <3>3, VisitMisses
      <4>2. turn[i].core = curr_core /\ Missed(i)
        BY <2>2, <3>3, <4>1
      <4>3. Missed(i + 1)
        BY <4>1, <4>2
      <4>4. QED
        BY <3>1, <3>2, <4>1, <4>2, <4>3
    <3>4. CASE turn[i + 1].hit
      BY <3>1, <3>2, <3>4
    <3>5. QED
      BY <3>3, <3>4
  <2>3. QED
    <3> HIDE DEF S
    <3>1. QED
      BY <2>1, <2>2, SetInduction, ConstantsAssumption
<1>4. Search.hit \/ Missed(Channels)
  <2>1. Channels \in S /\ Search = turn[Channels]
    BY <1>1, <1>3, ConstantsAssumption DEF IsSearch
  <2>2. QED
    BY <2>1
<1>5. ASSUME NEW c \in Cores, NEW j \in Jobs, Ready(c, j) PROVE Search.hit
  <2>1. PICK k \in 0 .. Channels - 1 : (curr_core + 1 + k) % Channels = c
    BY TurnReaches DEF TypeOK
  <2>2. QED
    BY <1>4, <1>5, <2>1
<1>6. QED
  BY <1>5 DEF NeverIdle

-----------------------------------------------------------------------------
(* What a step leaves alone. *)

\* Nothing of core d changes.
Same(d) ==
  /\ jt'[d] = jt[d] /\ job_curr_prog'[d] = job_curr_prog[d] /\ dma_event'[d] = dma_event[d]
  /\ moved'[d] = moved[d] /\ pc'[d] = pc[d] /\ req'[d] = req[d] /\ out'[d] = out[d]
  /\ tag'[d] = tag[d] /\ collected'[d] = collected[d]

\* What holds of a core goes on holding while others act.
LEMMA Untouched == ASSUME NEW d \in Cores, CoreInv(d), Same(d) PROVE CoreInv(d)'
<1> USE DEF CoreInv, Same
<1>1. EntryInv(d)'
  BY DEF EntryInv, Whole, Moved
<1>2. OutInv(d)'
  BY DEF OutInv, Known, Whole, Moved
<1>3. DraftInv(d)'
  BY DEF DraftInv, Draft
<1>4. WaitInv(d)'
  BY DEF WaitInv
<1>5. LostInv(d)'
  BY DEF LostInv, Started, Moved
<1>6. QED
  BY <1>1, <1>2, <1>3, <1>4, <1>5 DEF Moved

\* One entry of the table is written.
LEMMA RowWrite ==
  ASSUME TypeOK, NEW c \in Cores, NEW j \in Jobs, NEW e \in Entries, jt' = [jt EXCEPT ![c][j] = e]
  PROVE  /\ jt' \in [Cores -> [Jobs -> Entries]] /\ jt'[c][j] = e
         /\ \A k \in Jobs \ {j} : jt'[c][k] = jt[c][k]
         /\ \A d \in Cores \ {c} : jt'[d] = jt[d]
  BY DEF TypeOK

\* A register access of core c: the others and the engine go on as before.
LEMMA AccessInv ==
  ASSUME DMAInv, NEW c \in Cores, TypeOK', CoreInv(c)', \A d \in Cores \ {c} : Same(d),
         UNCHANGED <<sched, engine, moved>>,
         working_sig /\ curr_core = c =>
           jt'[c][curr_job[c]] = jt[c][curr_job[c]]
  PROVE  DMAInv'
<1>1. \A d \in Cores : CoreInv(d)'
  BY Untouched DEF DMAInv
<1>2. EngineInv'
  <2>1. working_sig => jt'[curr_core][curr_job[curr_core]] = jt[curr_core][curr_job[curr_core]]
    BY DEF Same, DMAInv, TypeOK
  <2>2. QED
    BY <2>1 DEF DMAInv, EngineInv, Ready, Current, Moved, sched
<1>3. QED
  BY <1>1, <1>2 DEF DMAInv
-----------------------------------------------------------------------------
(* Every step preserves the invariant. *)

\* The two records the tables begin with.
LEMMA Records == FreeEntry \in Entries /\ NoRequest \in Requests
  BY DEF FreeEntry, Entries, NoRequest, Requests, Tags

\* What the register writes leave in an entry.
LEMMA Addr1Written ==
  ASSUME NEW x \in Entries, NEW c, NEW t, NEW f, f = [x EXCEPT !.owner = c, !.addr1 = t]
  PROVE  f = [owner |-> c, addr1 |-> t, addr2 |-> x.addr2, size |-> x.size, dir |-> x.dir,
              pri |-> x.pri, sleep |-> x.sleep, trigger |-> x.trigger, done |-> x.done]
  BY DEF Entries
\* The second address register.
LEMMA Addr2Written ==
  ASSUME NEW x \in Entries, NEW t, NEW f, f = [x EXCEPT !.addr2 = t]
  PROVE  f = [owner |-> x.owner, addr1 |-> x.addr1, addr2 |-> t, size |-> x.size, dir |-> x.dir,
              pri |-> x.pri, sleep |-> x.sleep, trigger |-> x.trigger, done |-> x.done]
  BY DEF Entries

\* reset_jt leaves a table of free entries and an idle engine.
LEMMA InitInv == Init => DMAInv
<1> SUFFICES ASSUME Init PROVE DMAInv
  OBVIOUS
<1> USE DEF Init
<1>1. TypeOK
  <2>1. 0 \in Cores /\ 0 \in Jobs
    BY ConstantsAssumption DEF Cores, Jobs
  <2>2. engine \in [at : {"wait", "source", "target"}, source : Tags, from : Sides, size : Tags]
    BY DEF Idle, Sides, Tags
  <2>3. \A c \in Cores : IsFiniteSet(out[c]) /\ Cardinality(out[c]) <= MaxOut[c]
    BY FS_EmptySet, ConstantsAssumption DEF Cores
  <2>4. QED
    BY <2>1, <2>2, <2>3, Records DEF TypeOK
<1>2. EngineInv
  BY DEF EngineInv, Idle
<1>3. ASSUME NEW c \in Cores PROVE CoreInv(c)
  <2>1. EntryInv(c) /\ OutInv(c)
    BY DEF EntryInv, OutInv
  <2>2. DraftInv(c) /\ WaitInv(c)
    BY DEF DraftInv, WaitInv, Programming, Waiting
  <2>3. LostInv(c)
    BY DEF LostInv, Started
  <2>4. QED
    BY <2>1, <2>2, <2>3 DEF CoreInv
<1>4. QED
  BY <1>1, <1>2, <1>3 DEF DMAInv

\* The outstanding jobs of a core can be counted.
LEMMA OutCount == ASSUME TypeOK, NEW c \in Cores PROVE Cardinality(out[c]) \in Nat
  BY FS_CardinalityType DEF TypeOK

\* The entry dma_prog is given: a free one.
LEMMA FreeSlotFree ==
  ASSUME TypeOK, NEW c \in Cores, look_4_free_slot(c) # None
  PROVE  look_4_free_slot(c) \in Jobs /\ jt[c][look_4_free_slot(c)].owner = None
<1> DEFINE free == {j \in Jobs : jt[c][j].owner = None}
<1>1. free # {} /\ look_4_free_slot(c) = Min(free)
  BY DEF look_4_free_slot
<1>2. free \in SUBSET Nat
  BY DEF Jobs
<1>3. Min(free) \in free
  <2> HIDE DEF free
  <2>1. QED
    BY <1>1, <1>2, MinIn
<1>4. QED
  BY <1>1, <1>3

\* An outstanding job is neither a draft nor free, and has its entry to itself.
LEMMA OutEntry ==
  ASSUME TypeOK, NEW c \in Cores, CoreInv(c), NEW r \in out[c]
  PROVE  /\ r.job \in Jobs /\ jt[c][r.job].size > 0 /\ jt[c][r.job].size = r.tag
         /\ jt[c][r.job].owner = c
         /\ \A s \in out[c] : s.job = r.job => s = r
         /\ pc[c] \in Programming => r.job # req[c].job
<1>1. Known(c, r)
  BY DEF CoreInv, OutInv
<1>2. \A s \in out[c] : s.job = r.job => s = r
  BY DEF CoreInv, OutInv, Known
<1>3. r.job \in Jobs /\ jt[c][r.job].size > 0 /\ jt[c][r.job].size = r.tag /\ jt[c][r.job].owner = c
  BY <1>1 DEF Known, Whole
<1>4. pc[c] \in Programming => jt[c][req[c].job].size = 0
  BY DEF CoreInv, DraftInv, Draft, FreeEntry
<1>5. QED
  BY <1>2, <1>3, <1>4

\* DMA_FREE_SLOT_REG: an entry nobody has, or none.
LEMMA FreeSlotInv == ASSUME DMAInv, NEW c \in Cores, FreeSlot(c) PROVE DMAInv'
<1> DEFINE j == look_4_free_slot(c)
<1>1. TypeOK /\ CoreInv(c) /\ pc[c] = "run" /\ req[c] = NoRequest
  BY DEF DMAInv, FreeSlot, CoreInv, WaitInv
<1>2. Cardinality(out[c]) \in Nat /\ Cardinality(out[c]) < MaxOut[c]
  BY <1>1, OutCount DEF FreeSlot
<1>3. /\ UNCHANGED <<jt, job_gen_ev, curr_core, curr_job, working_sig, dma_event, engine, moved, out, collected>>
      /\ job_curr_prog' = [job_curr_prog EXCEPT ![c] = j]
  BY DEF FreeSlot, sched
<1>4. CASE j = None
  <2>1. UNCHANGED <<pc, req, tag>>
    BY <1>4 DEF FreeSlot
  <2>2. TypeOK'
    BY <1>1, <1>3, <1>4, <2>1 DEF TypeOK
  <2>3. CoreInv(c)'
    <3>1. OutInv(c)'
      BY <1>1, <1>2, <1>3, <2>1 DEF CoreInv, OutInv, Known, Whole, Moved
    <3>2. EntryInv(c)' /\ WaitInv(c)' /\ DraftInv(c)'
      BY <1>1, <1>3, <2>1 DEF CoreInv, EntryInv, WaitInv, DraftInv, Whole, Moved, Programming
    <3>3. LostInv(c)'
      BY <1>1, <1>3, <2>1 DEF CoreInv, LostInv, Started, Moved
    <3>4. QED
      BY <1>1, <1>3, <3>1, <3>2, <3>3 DEF CoreInv, Moved
  <2>4. \A d \in Cores \ {c} : Same(d)
    BY <1>1, <1>3, <2>1 DEF Same, TypeOK
  <2>5. QED
    BY <1>3, <2>2, <2>3, <2>4, AccessInv DEF sched
<1>5. CASE j # None
  <2>1. PICK mode \in Modes[c] :
          /\ tag' = [tag EXCEPT ![c] = @ + 1]
          /\ req' = [req EXCEPT ![c] = [job |-> j, tag |-> tag[c] + 1, dir |-> mode[3],
                        pri |-> mode[1], sleep |-> mode[2], started |-> FALSE]]
          /\ pc' = [pc EXCEPT ![c] = "addr1"]
    BY <1>5 DEF FreeSlot, Goto
  <2>2. j \in Jobs /\ jt[c][j].owner = None
    BY <1>1, <1>5, FreeSlotFree
  <2>3. mode[1] \in BOOLEAN /\ mode[2] \in BOOLEAN /\ mode[3] \in {0, 1}
    BY ConstantsAssumption DEF Cores
  <2> HIDE DEF j
  <2>4. TypeOK'
    <3>1. req' \in [Cores -> Requests] /\ tag' \in [Cores -> Nat]
      BY <1>1, <2>1, <2>2, <2>3 DEF TypeOK, Requests, Tags
    <3>2. QED
      BY <1>1, <1>3, <2>1, <2>2, <3>1 DEF TypeOK
  <2>5. jt[c][j] = FreeEntry
    BY <1>1, <2>2 DEF CoreInv, EntryInv, Whole, None, Cores, Programming
  <2>6. /\ pc'[c] = "addr1" /\ tag'[c] = tag[c] + 1 /\ tag[c] \in Nat /\ job_curr_prog'[c] = j
        /\ req'[c].job = j /\ req'[c].tag = tag[c] + 1 /\ ~req'[c].started
    BY <1>1, <1>3, <2>1, <2>3 DEF TypeOK
  <2>7. CoreInv(c)'
    <3>1. OutInv(c)'
      BY <1>1, <1>2, <1>3 DEF CoreInv, OutInv, Known, Whole, Moved
    <3>2. EntryInv(c)'
      BY <1>1, <1>3, <2>6 DEF CoreInv, EntryInv, Whole, Moved, Programming
    <3>3. DraftInv(c)'
      <4>1. Draft(c)' = FreeEntry
        BY <2>6 DEF Draft, FreeEntry
      <4>2. QED
        BY <1>2, <1>3, <2>2, <2>5, <2>6, <4>1 DEF DraftInv
    <3>4. WaitInv(c)'
      BY <1>1, <1>3, <2>6 DEF CoreInv, WaitInv, Waiting
    <3>5. LostInv(c)'
      BY <1>1, <1>3, <2>6 DEF CoreInv, LostInv, Started, Moved, NoRequest
    <3>6. QED
      BY <1>1, <1>3, <3>1, <3>2, <3>3, <3>4, <3>5 DEF CoreInv, Moved
  <2>8. \A d \in Cores \ {c} : Same(d)
    BY <1>1, <1>3, <2>1 DEF Same, TypeOK
  <2>9. QED
    BY <1>3, <2>4, <2>7, <2>8, AccessInv DEF sched
<1>6. QED
  BY <1>4, <1>5

\* What a register write of dma_prog does not reach: the other entries of the core.
LEMMA DraftFacts ==
  ASSUME DMAInv, NEW c \in Cores, pc[c] \in Programming
  PROVE  /\ TypeOK /\ CoreInv(c) /\ req[c].job \in Jobs /\ job_curr_prog[c] = req[c].job
         /\ jt[c][req[c].job] = Draft(c) /\ Entry(c) = Draft(c) /\ req[c].tag = tag[c] /\ tag[c] \in Nat \ {0}
         /\ \A r \in out[c] : r.job \in Jobs \ {req[c].job}
         /\ working_sig /\ curr_core = c => curr_job[c] # req[c].job
<1>1. TypeOK /\ CoreInv(c) /\ DraftInv(c) /\ EngineInv
  BY DEF DMAInv, CoreInv
<1>2. \A r \in out[c] : r.job \in Jobs \ {req[c].job}
  BY <1>1, OutEntry
<1>3. ~Draft(c).trigger
  BY DEF Draft
<1>4. QED
  BY <1>1, <1>2, <1>3 DEF DraftInv, EngineInv, Ready, Entry, TypeOK

\* The two addresses of the request.
LEMMA DraftStep ==
  ASSUME DMAInv, NEW c \in Cores, pc[c] \in {"addr1", "addr2"},
         pc' = [pc EXCEPT ![c] = IF pc[c] = "addr1" THEN "addr2" ELSE "mode"],
         jt' = [jt EXCEPT ![c][req[c].job] = Draft(c)'],
         UNCHANGED <<job_curr_prog, job_gen_ev, sched, dma_event, engine, moved, req, out, tag, collected>>
  PROVE  DMAInv'
<1> DEFINE j == req[c].job
<1>0. PICK e : e = Draft(c)'
  OBVIOUS
<1>1. /\ TypeOK /\ CoreInv(c) /\ j \in Jobs /\ job_curr_prog[c] = j /\ req[c].tag = tag[c] /\ tag[c] \in Nat \ {0}
      /\ \A r \in out[c] : r.job \in Jobs \ {j}
      /\ working_sig /\ curr_core = c => curr_job[c] # j
      /\ pc[c] \in Programming
  BY DraftFacts DEF Programming
<1>2. pc'[c] \in {"addr2", "mode"} /\ pc'[c] \in Programming
  BY <1>1 DEF TypeOK, Programming
<1>3. e \in Entries
  BY <1>0, <1>1, <1>2 DEF Draft, Entries, Tags, None
<1>4. /\ jt' \in [Cores -> [Jobs -> Entries]] /\ jt'[c][j] = e
      /\ \A k \in Jobs \ {j} : jt'[c][k] = jt[c][k]
      /\ \A d \in Cores \ {c} : jt'[d] = jt[d]
  BY <1>0, <1>1, <1>3 DEF TypeOK
<1>5. TypeOK'
  BY <1>1, <1>2, <1>4 DEF TypeOK, sched
<1>6. CoreInv(c)'
  <2>1. EntryInv(c)'
    BY <1>1, <1>2, <1>4 DEF CoreInv, EntryInv, Whole, Moved
  <2>2. OutInv(c)'
    BY <1>1, <1>4 DEF CoreInv, OutInv, Known, Whole, Moved
  <2>3. DraftInv(c)'
    BY <1>0, <1>1, <1>2, <1>4 DEF CoreInv, DraftInv
  <2>4. WaitInv(c)'
    BY <1>1, <1>2, <1>4 DEF CoreInv, WaitInv, Waiting
  <2>5. LostInv(c)'
    <3>1. jt[c][j].size = 0
      BY <1>1 DEF CoreInv, DraftInv, Draft
    <3>2. \A t \in Started(c) : t # 0 /\ (\E k \in Jobs : jt[c][k].size = t => \E i \in Jobs : jt'[c][i].size = t)
      BY <1>1, <1>4, <3>1 DEF Started
    <3>3. QED
      BY <1>1, <1>4, <3>1 DEF CoreInv, LostInv, Started, Moved
  <2>6. QED
    BY <1>1, <2>1, <2>2, <2>3, <2>4, <2>5 DEF CoreInv, Moved
<1>7. \A d \in Cores \ {c} : Same(d)
  BY <1>1, <1>4 DEF Same, TypeOK
<1>8. working_sig /\ curr_core = c => jt'[c][curr_job[c]] = jt[c][curr_job[c]]
  BY <1>1, <1>4 DEF TypeOK
<1>9. QED
  BY <1>5, <1>6, <1>7, <1>8, AccessInv

\* DMA_ADDR1_REG: the owner and the first address.
LEMMA WriteAddr1Inv == ASSUME DMAInv, NEW c \in Cores, WriteAddr1(c) PROVE DMAInv'
<1>1. pc[c] = "addr1" /\ pc' = [pc EXCEPT ![c] = "addr2"] /\ UNCHANGED req
  BY DEF WriteAddr1, Goto
<1>2. Entry(c) = Draft(c) /\ job_curr_prog[c] = req[c].job
  BY <1>1, DraftFacts DEF Programming
<1>3. [Entry(c) EXCEPT !.owner = c, !.addr1 = req[c].tag] = Draft(c)'
  <2>1. /\ Entry(c).addr2 = 0 /\ Entry(c).size = 0 /\ Entry(c).dir = 0 /\ Entry(c).pri = FALSE
        /\ Entry(c).sleep = FALSE /\ Entry(c).trigger = FALSE /\ Entry(c).done = FALSE
        /\ Entry(c) \in Entries
    BY <1>1, <1>2, DraftFacts DEF Draft, TypeOK, Programming
  <2>2. pc'[c] = "addr2" /\ req'[c] = req[c]
    BY <1>1 DEF DMAInv, TypeOK
  <2>3. PICK e : e = [Entry(c) EXCEPT !.owner = c, !.addr1 = req[c].tag]
    OBVIOUS
  <2>4. e = Draft(c)'
    BY <2>1, <2>2, <2>3, Addr1Written DEF Draft
  <2>5. QED
    BY <2>3, <2>4
<1>4. jt' = [jt EXCEPT ![c][req[c].job] = Draft(c)']
  BY <1>2, <1>3 DEF WriteAddr1, Program
<1>5. QED
  BY <1>1, <1>4, DraftStep DEF WriteAddr1

\* DMA_ADDR2_REG: the second address.
LEMMA WriteAddr2Inv == ASSUME DMAInv, NEW c \in Cores, WriteAddr2(c) PROVE DMAInv'
<1>1. pc[c] = "addr2" /\ pc' = [pc EXCEPT ![c] = "mode"] /\ UNCHANGED req
  BY DEF WriteAddr2, Goto
<1>2. Entry(c) = Draft(c) /\ job_curr_prog[c] = req[c].job
  BY <1>1, DraftFacts DEF Programming
<1>3. [Entry(c) EXCEPT !.addr2 = req[c].tag] = Draft(c)'
  <2>1. /\ Entry(c).owner = c /\ Entry(c).addr1 = req[c].tag
        /\ Entry(c).size = 0 /\ Entry(c).dir = 0 /\ Entry(c).pri = FALSE
        /\ Entry(c).sleep = FALSE /\ Entry(c).trigger = FALSE /\ Entry(c).done = FALSE
        /\ Entry(c) \in Entries
    BY <1>1, <1>2, DraftFacts DEF Draft, TypeOK, Programming
  <2>2. pc'[c] = "mode" /\ req'[c] = req[c]
    BY <1>1 DEF DMAInv, TypeOK
  <2>3. PICK e : e = [Entry(c) EXCEPT !.addr2 = req[c].tag]
    OBVIOUS
  <2>4. e = [owner |-> Entry(c).owner, addr1 |-> Entry(c).addr1, addr2 |-> req[c].tag,
             size |-> Entry(c).size, dir |-> Entry(c).dir, pri |-> Entry(c).pri,
             sleep |-> Entry(c).sleep, trigger |-> Entry(c).trigger, done |-> Entry(c).done]
    BY <2>1, <2>3, Addr2Written
  <2>5. e = Draft(c)'
    BY <2>1, <2>2, <2>4 DEF Draft
  <2>6. QED
    BY <2>3, <2>5
<1>4. jt' = [jt EXCEPT ![c][req[c].job] = Draft(c)']
  BY <1>2, <1>3 DEF WriteAddr2, Program
<1>5. QED
  BY <1>1, <1>4, DraftStep DEF WriteAddr2

\* The mode register, with the size: the draft becomes a whole job.
LEMMA WriteModeInv == ASSUME DMAInv, NEW c \in Cores, WriteMode(c) PROVE DMAInv'
<1>0. PICK j : j = req[c].job
  OBVIOUS
<1>1. PICK trigger \in BOOLEAN :
        /\ Program(c, [Entry(c) EXCEPT !.pri = req[c].pri, !.dir = req[c].dir,
                        !.sleep = req[c].sleep, !.size = req[c].tag, !.trigger = trigger])
        /\ Keep(c, [req[c] EXCEPT !.started = trigger])
  BY DEF WriteMode
<1>2. /\ pc[c] = "mode" /\ req' = [req EXCEPT ![c] = NoRequest] /\ pc' = [pc EXCEPT ![c] = "run"]
      /\ UNCHANGED <<job_curr_prog, job_gen_ev, sched, dma_event, engine, moved, tag, collected>>
  BY DEF WriteMode, Goto
<1>3. /\ TypeOK /\ CoreInv(c) /\ j \in Jobs /\ job_curr_prog[c] = j /\ req[c].tag = tag[c] /\ tag[c] \in Nat \ {0}
      /\ \A r \in out[c] : r.job \in Jobs \ {j}
      /\ working_sig /\ curr_core = c => curr_job[c] # j
      /\ Entry(c) = Draft(c)
      /\ IsFiniteSet(out[c]) /\ Cardinality(out[c]) \in Nat /\ Cardinality(out[c]) < MaxOut[c] /\ MaxOut[c] \in Nat
      /\ req[c] \in Requests
  <2>1. pc[c] \in Programming
    BY <1>2 DEF Programming
  <2>2. TypeOK /\ DraftInv(c)
    BY DEF DMAInv, CoreInv
  <2>3. QED
    BY <1>0, <2>1, <2>2, DraftFacts, OutCount, ConstantsAssumption DEF DraftInv, TypeOK, Cores
<1>e. PICK e : e = [owner |-> c, addr1 |-> req[c].tag, addr2 |-> req[c].tag, size |-> req[c].tag,
                    dir |-> req[c].dir, pri |-> req[c].pri, sleep |-> req[c].sleep,
                    trigger |-> trigger, done |-> FALSE]
  OBVIOUS
<1>r. PICK r : r = [job |-> j, tag |-> req[c].tag, dir |-> req[c].dir, pri |-> req[c].pri,
                    sleep |-> req[c].sleep, started |-> trigger]
  OBVIOUS
<1>5. e \in Entries /\ r \in Requests
  BY <1>0, <1>e, <1>r, <1>3 DEF Entries, Tags, Requests
<1>4. jt' = [jt EXCEPT ![c][j] = e]
  <2>1. [Entry(c) EXCEPT !.pri = req[c].pri, !.dir = req[c].dir,
           !.sleep = req[c].sleep, !.size = req[c].tag, !.trigger = trigger] = e
    <3>1. /\ Entry(c).owner = c /\ Entry(c).addr1 = req[c].tag /\ Entry(c).addr2 = req[c].tag
          /\ Entry(c).done = FALSE /\ Entry(c) \in Entries
      BY <1>0, <1>2, <1>3 DEF Draft, TypeOK, Entry
    <3>2. PICK f : f = [Entry(c) EXCEPT !.pri = req[c].pri, !.dir = req[c].dir,
                          !.sleep = req[c].sleep, !.size = req[c].tag, !.trigger = trigger]
      OBVIOUS
    <3>3. f = [owner |-> Entry(c).owner, addr1 |-> Entry(c).addr1, addr2 |-> Entry(c).addr2,
               size |-> req[c].tag, dir |-> req[c].dir, pri |-> req[c].pri, sleep |-> req[c].sleep,
               trigger |-> trigger, done |-> Entry(c).done]
      <4>1. PICK x, q : x = Entry(c) /\ q = req[c]
        OBVIOUS
      <4>2. f = [x EXCEPT !.pri = q.pri, !.dir = q.dir, !.sleep = q.sleep, !.size = q.tag, !.trigger = trigger]
        BY <3>2, <4>1
      <4>3. f = [owner |-> x.owner, addr1 |-> x.addr1, addr2 |-> x.addr2, size |-> q.tag, dir |-> q.dir,
                 pri |-> q.pri, sleep |-> q.sleep, trigger |-> trigger, done |-> x.done]
        BY <3>1, <4>1, <4>2 DEF Entries
      <4>4. QED
        BY <4>1, <4>3
    <3>4. f = e
      BY <1>e, <3>1, <3>3
    <3>5. QED
      BY <3>2, <3>4
  <2>2. QED
    BY <1>1, <1>3, <2>1 DEF Program
<1>6. out' = [out EXCEPT ![c] = IF r.pri /\ r.started THEN @ \ {r} ELSE @ \cup {r}]
  <2>1. [req[c] EXCEPT !.started = trigger] = r
    BY <1>0, <1>r, <1>3 DEF Requests
  <2>2. QED
    BY <1>1, <2>1 DEF Keep
<1>7. /\ jt' \in [Cores -> [Jobs -> Entries]] /\ jt'[c][j] = e
      /\ \A k \in Jobs \ {j} : jt'[c][k] = jt[c][k]
      /\ \A d \in Cores \ {c} : jt'[d] = jt[d]
  BY <1>3, <1>4, <1>5 DEF TypeOK
<1>8. /\ r.pri /\ trigger => out'[c] = out[c]
      /\ ~(r.pri /\ trigger) => out'[c] = out[c] \cup {r}
      /\ pc'[c] = "run" /\ req'[c] = NoRequest
      /\ \A d \in Cores \ {c} : out'[d] = out[d] /\ pc'[d] = pc[d] /\ req'[d] = req[d]
  <2>1. r \notin out[c] /\ r.pri = req[c].pri /\ r.started = trigger
    BY <1>r, <1>3
  <2>2. QED
    BY <1>2, <1>3, <1>6, <2>1 DEF TypeOK
<1>9. e.pri = r.pri /\ e.sleep = r.sleep /\ e.trigger = trigger /\ e.done = FALSE /\ e.size = req[c].tag
      /\ e.owner = c /\ e.addr1 = e.size /\ e.addr2 = e.size /\ r.job = j /\ r.tag = e.size
      /\ r.sleep = req[c].sleep /\ r.pri = req[c].pri /\ r.started = trigger
      /\ r = [job |-> j, tag |-> e.size, dir |-> e.dir, pri |-> e.pri, sleep |-> e.sleep, started |-> e.trigger]
  BY <1>e, <1>r
<1>10. TypeOK'
  <2>1. out' \in [Cores -> SUBSET Requests]
    BY <1>3, <1>5, <1>6 DEF TypeOK
  <2>2. IsFiniteSet(out'[c]) /\ Cardinality(out'[c]) <= MaxOut[c]
    <3>1. IsFiniteSet(out[c])
      BY <1>3
    <3>2. /\ IsFiniteSet(out[c] \cup {r})
          /\ Cardinality(out[c] \cup {r}) = IF r \in out[c] THEN Cardinality(out[c]) ELSE Cardinality(out[c]) + 1
      BY <3>1, FS_AddElement, Zenon
    <3>3. CASE out'[c] = out[c]
      BY <1>3, <3>3
    <3>4. CASE out'[c] = out[c] \cup {r}
      BY <1>3, <3>2, <3>4
    <3>5. QED
      BY <1>8, <3>3, <3>4
  <2>3. \A d \in Cores : IsFiniteSet(out'[d]) /\ Cardinality(out'[d]) <= MaxOut[d]
    BY <1>3, <1>8, <2>2 DEF TypeOK
  <2>4. QED
    BY <1>2, <1>3, <1>7, <2>1, <2>3, Records DEF TypeOK, sched
<1>11. CoreInv(c)'
  <2>1. Whole(c, j)'
    BY <1>3, <1>7, <1>9 DEF Whole
  <2>2. EntryInv(c)'
    <3>1. ASSUME NEW k \in Jobs, k # j
          PROVE  jt'[c][k] = FreeEntry \/ (Whole(c, k) /\ ((jt[c][k].pri /\ jt[c][k].trigger /\ ~jt[c][k].done) \/ \E x \in out'[c] : x.job = k))
      BY <1>0, <1>3, <1>7, <1>8, <3>1 DEF CoreInv, EntryInv
    <3>2. ASSUME NEW k \in Jobs, k # j PROVE Whole(c, k) => Whole(c, k)'
      BY <1>2, <1>7, <3>2 DEF Whole, Moved
    <3>3. (jt[c][j].pri /\ jt[c][j].trigger /\ ~jt[c][j].done)' \/ \E x \in out'[c] : x.job = j
      BY <1>7, <1>8, <1>9
    <3>4. QED
      BY <1>7, <2>1, <3>1, <3>2, <3>3 DEF EntryInv
  <2>3. OutInv(c)'
    <3>1. ASSUME NEW x \in out[c] PROVE Known(c, x)'
      BY <1>2, <1>3, <1>7 DEF CoreInv, OutInv, Known, Whole, Moved
    <3>2. ~(r.pri /\ trigger) => Known(c, r)'
      BY <1>2, <1>3, <1>7, <1>9, <2>1 DEF Known
    <3>3. QED
      BY <1>8, <3>1, <3>2 DEF OutInv
  <2>4. DraftInv(c)' /\ WaitInv(c)'
    BY <1>8 DEF DraftInv, WaitInv, Programming, Waiting
  <2>5. LostInv(c)'
    <3>1. jt[c][j].size = 0
      BY <1>2, <1>3 DEF CoreInv, DraftInv, Draft, Programming
    <3>2. ASSUME NEW t \in Started(c)', t # req[c].tag PROVE t \in Started(c) /\ t # 0
      BY <1>2, <1>8, <3>2 DEF Started
    <3>3. QED
      BY <1>2, <1>3, <1>7, <1>9, <3>1, <3>2 DEF CoreInv, LostInv, Moved
  <2>6. QED
    BY <1>2, <1>3, <2>2, <2>3, <2>4, <2>5 DEF CoreInv, Moved
<1>12. \A d \in Cores \ {c} : Same(d)
  BY <1>2, <1>7, <1>8 DEF Same
<1>13. working_sig /\ curr_core = c => jt'[c][curr_job[c]] = jt[c][curr_job[c]]
  BY <1>3, <1>7 DEF TypeOK
<1>14. QED
  BY <1>2, <1>10, <1>11, <1>12, <1>13, AccessInv

\* DMA_TRIGGER_REG: an entry of the core that the engine does not work for.
LEMMA TriggerInv == ASSUME DMAInv, NEW c \in Cores, Trigger(c) PROVE DMAInv'
<1>1. PICK r \in out[c] :
        /\ ~r.started
        /\ jt' = [jt EXCEPT ![c][r.job].trigger = TRUE]
        /\ out' = [out EXCEPT ![c] = IF r.pri THEN @ \ {r} ELSE (@ \ {r}) \cup {[r EXCEPT !.started = TRUE]}]
  BY DEF Trigger
<1>2. /\ pc[c] = "run"
      /\ UNCHANGED <<job_curr_prog, job_gen_ev, sched, dma_event, engine, moved, pc, req, tag, collected>>
  BY DEF Trigger
<1>3. TypeOK /\ CoreInv(c) /\ EngineInv /\ Known(c, r) /\ r \in Requests
  BY DEF DMAInv, CoreInv, OutInv, TypeOK
<1>4. PICK j, e, s : /\ j = r.job /\ e = [jt[c][j] EXCEPT !.trigger = TRUE]
                    /\ s = [r EXCEPT !.started = TRUE]
  OBVIOUS
<1>5. /\ j \in Jobs /\ ~jt[c][j].trigger /\ ~jt[c][j].done /\ jt[c][j] \in Entries
      /\ jt[c][j].size = r.tag /\ jt[c][j].pri = r.pri /\ jt[c][j].sleep = r.sleep /\ Whole(c, j)
      /\ \A x \in out[c] : x.job = j => x = r
  BY <1>1, <1>3, <1>4, OutEntry DEF Known, Whole, TypeOK
<1>6. /\ e \in Entries /\ e.trigger /\ ~e.done /\ e.owner = jt[c][j].owner /\ e.size = jt[c][j].size
      /\ e.addr1 = jt[c][j].addr1 /\ e.addr2 = jt[c][j].addr2 /\ e.dir = jt[c][j].dir
      /\ e.pri = jt[c][j].pri /\ e.sleep = jt[c][j].sleep
  BY <1>4, <1>5 DEF Entries
<1>7. /\ s \in Requests /\ s.job = j /\ s.tag = r.tag /\ s.pri = r.pri /\ s.sleep = r.sleep
      /\ s = [job |-> j, tag |-> e.size, dir |-> e.dir, pri |-> e.pri, sleep |-> e.sleep, started |-> e.trigger]
  <2>1. /\ s \in Requests /\ s.job = j /\ s.tag = r.tag /\ s.pri = r.pri /\ s.sleep = r.sleep /\ s.dir = r.dir
        /\ s.started = TRUE
    BY <1>3, <1>4 DEF Requests
  <2>2. r.dir = e.dir /\ e.trigger = TRUE
    BY <1>3, <1>4, <1>6 DEF Known, Entries
  <2>3. QED
    BY <1>5, <1>6, <2>1, <2>2 DEF Requests
<1>8. /\ jt' \in [Cores -> [Jobs -> Entries]] /\ jt'[c][j] = e
      /\ \A k \in Jobs \ {j} : jt'[c][k] = jt[c][k]
      /\ \A d \in Cores \ {c} : jt'[d] = jt[d]
  <2>1. jt' = [jt EXCEPT ![c][j] = e]
    BY <1>1, <1>4
  <2>2. QED
    BY <1>3, <1>5, <1>6, <2>1 DEF TypeOK
<1>9. /\ r.pri => out'[c] = out[c] \ {r}
      /\ ~r.pri => out'[c] = (out[c] \ {r}) \cup {s}
      /\ \A d \in Cores \ {c} : out'[d] = out[d]
      /\ out' \in [Cores -> SUBSET Requests]
  <2>1. out' = [out EXCEPT ![c] = IF r.pri THEN @ \ {r} ELSE (@ \ {r}) \cup {s}]
    BY <1>1, <1>4
  <2>2. s \in Requests /\ out \in [Cores -> SUBSET Requests]
    BY <1>3, <1>7 DEF TypeOK
  <2>3. QED
    BY <2>1, <2>2
<1>10. TypeOK'
  <2>1. IsFiniteSet(out[c]) /\ Cardinality(out[c]) <= MaxOut[c] /\ MaxOut[c] \in Nat
    BY <1>3, ConstantsAssumption DEF TypeOK, Cores
  <2>2. /\ IsFiniteSet(out[c] \ {r}) /\ Cardinality(out[c] \ {r}) = Cardinality(out[c]) - 1
        /\ Cardinality(out[c] \ {r}) \in Nat /\ Cardinality(out[c]) \in Nat
    BY <1>1, <2>1, FS_RemoveElement, FS_CardinalityType
  <2>3. /\ IsFiniteSet((out[c] \ {r}) \cup {s})
        /\ Cardinality((out[c] \ {r}) \cup {s}) = IF s \in out[c] \ {r} THEN Cardinality(out[c] \ {r})
                                                 ELSE Cardinality(out[c] \ {r}) + 1
    BY <2>2, FS_AddElement, Zenon
  <2>4. CASE out'[c] = out[c] \ {r}
    <3>1. IsFiniteSet(out'[c]) /\ Cardinality(out'[c]) <= MaxOut[c]
      BY <2>1, <2>2, <2>4
    <3>2. QED
      BY <1>2, <1>3, <1>8, <1>9, <3>1 DEF TypeOK, sched
  <2>5. CASE out'[c] = (out[c] \ {r}) \cup {s}
    <3>1. IsFiniteSet(out'[c]) /\ Cardinality(out'[c]) <= MaxOut[c]
      BY <2>1, <2>2, <2>3, <2>5
    <3>2. QED
      BY <1>2, <1>3, <1>8, <1>9, <3>1 DEF TypeOK, sched
  <2>6. QED
    BY <1>9, <2>4, <2>5
<1>11. CoreInv(c)'
  <2>1. Whole(c, j)'
    BY <1>2, <1>5, <1>6, <1>8 DEF Whole, Moved
  <2>2. ASSUME NEW x \in out[c], x # r PROVE Known(c, x)' /\ x \in out'[c] /\ x.job # j /\ x.job \in Jobs
    <3>1. x.job # j /\ x.job \in Jobs /\ Known(c, x)
      BY <1>3, <1>5, <2>2 DEF CoreInv, OutInv, Known
    <3>2. QED
      BY <1>2, <1>8, <1>9, <2>2, <3>1 DEF Known, Whole, Moved
  <2>3. ~r.pri => Known(c, s)' /\ s \in out'[c]
    BY <1>2, <1>3, <1>4, <1>5, <1>6, <1>7, <1>8, <1>9, <2>1 DEF Known
  <2>4. OutInv(c)'
    BY <1>9, <2>2, <2>3 DEF OutInv
  <2>5. EntryInv(c)'
    <3>1. ASSUME NEW k \in Jobs, k # j
          PROVE  \/ jt'[c][k] = FreeEntry
                 \/ Whole(c, k)' /\ ((jt'[c][k].pri /\ jt'[c][k].trigger /\ ~jt'[c][k].done) \/ \E x \in out'[c] : x.job = k)
      <4>1. \/ jt[c][k] = FreeEntry
            \/ Whole(c, k) /\ ((jt[c][k].pri /\ jt[c][k].trigger /\ ~jt[c][k].done) \/ \E x \in out[c] : x.job = k)
        BY <1>2, <1>3 DEF CoreInv, EntryInv, Programming
      <4>2. jt'[c][k] = jt[c][k] /\ (Whole(c, k) => Whole(c, k)')
        BY <1>2, <1>8, <3>1 DEF Whole, Moved
      <4>3. (\E x \in out[c] : x.job = k) => \E x \in out'[c] : x.job = k
        BY <1>4, <2>2, <3>1
      <4>4. QED
        BY <4>1, <4>2, <4>3
    <3>2. (jt'[c][j].pri /\ jt'[c][j].trigger /\ ~jt'[c][j].done) \/ \E x \in out'[c] : x.job = j
      BY <1>5, <1>6, <1>7, <1>8, <2>3
    <3>3. QED
      BY <2>1, <3>1, <3>2 DEF EntryInv
  <2>6. DraftInv(c)' /\ WaitInv(c)'
    BY <1>2, <1>3 DEF CoreInv, DraftInv, WaitInv, Programming, Waiting
  <2>7. LostInv(c)'
    <3>1. \A k \in Jobs : jt'[c][k].size = jt[c][k].size
      BY <1>6, <1>8
    <3>2. ASSUME NEW t \in Started(c)' PROVE t \in Started(c) \/ t = r.tag
      BY <1>2, <2>2 DEF Started
    <3>3. QED
      BY <1>2, <1>3, <1>5, <3>1, <3>2 DEF CoreInv, LostInv, Moved
  <2>8. QED
    BY <1>2, <1>3, <2>4, <2>5, <2>6, <2>7 DEF CoreInv, Moved
<1>12. \A d \in Cores \ {c} : Same(d)
  BY <1>2, <1>8, <1>9 DEF Same
<1>13. working_sig /\ curr_core = c => jt'[c][curr_job[c]] = jt[c][curr_job[c]]
  BY <1>3, <1>5, <1>8 DEF TypeOK, EngineInv, Ready
<1>14. QED
  BY <1>2, <1>10, <1>11, <1>12, <1>13, AccessInv

\* dma_wait begins.
LEMMA WaitInvKept == ASSUME DMAInv, NEW c \in Cores, Wait(c) PROVE DMAInv'
<1>1. PICK r \in out[c] :
        /\ r.started
        /\ req' = [req EXCEPT ![c] = r]
        /\ pc' = [pc EXCEPT ![c] = IF r.sleep THEN "asleep" ELSE "poll"]
  BY DEF Wait, Goto
<1>2. /\ pc[c] = "run"
      /\ UNCHANGED <<jt, job_curr_prog, job_gen_ev, sched, dma_event, engine, moved, out, tag, collected>>
  BY DEF Wait, tables
<1>3. TypeOK /\ CoreInv(c) /\ r \in Requests /\ r.sleep \in BOOLEAN
  BY DEF DMAInv, TypeOK, Requests
<1>4. /\ pc'[c] = IF r.sleep THEN "asleep" ELSE "poll"
      /\ pc'[c] \in {"asleep", "poll"} /\ req'[c] = r
  BY <1>1, <1>3 DEF TypeOK
<1>5. TypeOK'
  BY <1>1, <1>2, <1>3 DEF TypeOK, sched
<1>6. CoreInv(c)'
  <2>1. EntryInv(c)'
    BY <1>2, <1>3 DEF CoreInv, EntryInv, Whole, Moved, Programming
  <2>2. OutInv(c)'
    BY <1>2, <1>3 DEF CoreInv, OutInv, Known, Whole, Moved
  <2>3. DraftInv(c)'
    BY <1>2, <1>3, <1>4 DEF CoreInv, DraftInv, Programming
  <2>4. WaitInv(c)'
    BY <1>1, <1>2, <1>3, <1>4 DEF WaitInv, Waiting
  <2>5. LostInv(c)'
    <3>1. req[c].tag = 0
      BY <1>2, <1>3 DEF CoreInv, WaitInv, NoRequest
    <3>2. QED
      BY <1>2, <1>3, <3>1 DEF CoreInv, LostInv, Started, Moved
  <2>6. QED
    BY <1>2, <1>3, <2>1, <2>2, <2>3, <2>4, <2>5 DEF CoreInv, Moved
<1>7. \A d \in Cores \ {c} : Same(d)
  BY <1>1, <1>2, <1>3 DEF Same, TypeOK
<1>8. QED
  BY <1>2, <1>5, <1>6, <1>7, AccessInv

\* DMA_DONE_REG: the answer that ends a wait clears the entry of the job waited for,
\* and no other.
LEMMA PollDoneInv == ASSUME DMAInv, NEW c \in Cores, PollDone(c) PROVE DMAInv'
<1>1. PICK r : r = req[c]
  OBVIOUS
<1>2. PICK j : j = r.job
  OBVIOUS
<1>3. /\ out' = [out EXCEPT ![c] = @ \ {r}]
      /\ collected' = [collected EXCEPT ![c] = @ \cup {r.tag}]
      /\ req' = [req EXCEPT ![c] = NoRequest]
      /\ pc' = [pc EXCEPT ![c] = "run"] /\ pc[c] = "poll"
      /\ jt[c][r.job].done /\ jt' = [jt EXCEPT ![c][r.job] = FreeEntry]
      /\ UNCHANGED <<sched, engine, moved, tag, job_curr_prog, job_gen_ev, dma_event>>
  BY <1>1 DEF PollDone, Goto, clear_entry
<1>4. TypeOK /\ CoreInv(c) /\ EngineInv
  BY DEF DMAInv
<1>5. r \in out[c] /\ r.tag \in Nat
  BY <1>1, <1>3, <1>4 DEF CoreInv, WaitInv, Waiting, TypeOK, Requests, Tags
<1>6. /\ j \in Jobs /\ jt[c][j].done /\ jt[c][j].size = r.tag /\ Moved(c, r.tag)
      /\ \A x \in out[c] : x.job = j => x = r
  BY <1>2, <1>3, <1>4, <1>5, OutEntry DEF CoreInv, OutInv, Known, Whole
<1>7. /\ jt' \in [Cores -> [Jobs -> Entries]] /\ jt'[c][j] = FreeEntry
      /\ \A k \in Jobs \ {j} : jt'[c][k] = jt[c][k]
      /\ \A d \in Cores \ {c} : jt'[d] = jt[d]
  BY <1>2, <1>3, <1>4, <1>6, Records DEF TypeOK
<1>8. /\ out'[c] = out[c] \ {r} /\ collected'[c] = collected[c] \cup {r.tag}
      /\ req'[c] = NoRequest /\ pc'[c] = "run"
      /\ \A d \in Cores \ {c} : /\ out'[d] = out[d] /\ collected'[d] = collected[d]
                                 /\ req'[d] = req[d] /\ pc'[d] = pc[d]
  BY <1>3, <1>4 DEF TypeOK
<1>9. TypeOK'
  <2>1. IsFiniteSet(out[c]) /\ Cardinality(out[c]) <= MaxOut[c] /\ MaxOut[c] \in Nat
    BY <1>4, ConstantsAssumption DEF TypeOK, Cores
  <2>2. /\ IsFiniteSet(out[c] \ {r}) /\ Cardinality(out[c] \ {r}) = Cardinality(out[c]) - 1
        /\ Cardinality(out[c]) \in Nat
    BY <1>5, <2>1, FS_RemoveElement, FS_CardinalityType
  <2>3. IsFiniteSet(out'[c]) /\ Cardinality(out'[c]) <= MaxOut[c]
    BY <1>8, <2>1, <2>2
  <2>4. out' \in [Cores -> SUBSET Requests] /\ collected' \in [Cores -> SUBSET Tags]
    BY <1>3, <1>4, <1>5 DEF TypeOK, Tags
  <2>5. QED
    BY <1>3, <1>4, <1>7, <1>8, <2>3, <2>4, Records DEF TypeOK, sched
<1>10. CoreInv(c)'
  <2>1. ASSUME NEW x \in out[c], x # r PROVE Known(c, x)' /\ x \in out'[c] /\ x.job # j /\ x.job \in Jobs
    <3>1. x.job # j /\ x.job \in Jobs /\ Known(c, x)
      BY <1>4, <1>6, <2>1 DEF CoreInv, OutInv, Known
    <3>2. QED
      BY <1>3, <1>7, <1>8, <2>1, <3>1 DEF Known, Whole, Moved
  <2>2. OutInv(c)'
    BY <1>8, <2>1 DEF OutInv
  <2>3. EntryInv(c)'
    <3>1. ASSUME NEW k \in Jobs, k # j
          PROVE  \/ jt'[c][k] = FreeEntry
                 \/ Whole(c, k)' /\ ((jt'[c][k].pri /\ jt'[c][k].trigger /\ ~jt'[c][k].done) \/ \E x \in out'[c] : x.job = k)
      <4>1. \/ jt[c][k] = FreeEntry
            \/ Whole(c, k) /\ ((jt[c][k].pri /\ jt[c][k].trigger /\ ~jt[c][k].done) \/ \E x \in out[c] : x.job = k)
        BY <1>3, <1>4 DEF CoreInv, EntryInv, Programming
      <4>2. jt'[c][k] = jt[c][k] /\ (Whole(c, k) => Whole(c, k)')
        BY <1>3, <1>7, <3>1 DEF Whole, Moved
      <4>3. (\E x \in out[c] : x.job = k) => \E x \in out'[c] : x.job = k
        BY <1>2, <2>1, <3>1
      <4>4. QED
        BY <4>1, <4>2, <4>3
    <3>2. QED
      BY <1>7, <3>1 DEF EntryInv
  <2>4. DraftInv(c)' /\ WaitInv(c)'
    BY <1>8 DEF DraftInv, WaitInv, Programming, Waiting
  <2>5. LostInv(c)'
    <3>1. ASSUME NEW t \in Started(c)', t # r.tag PROVE t \in Started(c)
      BY <1>1, <1>3, <1>8, <3>1 DEF Started
    <3>2. ASSUME NEW t \in Started(c)', t # r.tag PROVE (\E k \in Jobs : jt[c][k].size = t) => \E k \in Jobs : jt'[c][k].size = t
      BY <1>6, <1>7, <3>2
    <3>3. QED
      BY <1>3, <1>4, <1>6, <3>1, <3>2 DEF CoreInv, LostInv, Moved
  <2>6. QED
    BY <1>3, <1>4, <1>6, <1>8, <2>2, <2>3, <2>4, <2>5 DEF CoreInv, Moved
<1>11. \A d \in Cores \ {c} : Same(d)
  BY <1>3, <1>7, <1>8 DEF Same
<1>12. working_sig /\ curr_core = c => jt'[c][curr_job[c]] = jt[c][curr_job[c]]
  BY <1>4, <1>6, <1>7 DEF TypeOK, EngineInv, Ready
<1>13. QED
  BY <1>3, <1>9, <1>10, <1>11, <1>12, AccessInv

\* The scheduler hands a ready job to an engine that waits for one.
LEMMA set_next_jobInv == ASSUME DMAInv, set_next_job PROVE DMAInv'
<1>1. /\ ~working_sig /\ Search.hit /\ curr_core' = Search.core /\ curr_job' = Search.job /\ working_sig' = TRUE
      /\ UNCHANGED <<jt, job_curr_prog, job_gen_ev, dma_event, engine, moved, pc, req, out, tag, collected>>
  BY DEF set_next_job, tables, drivers
<1>2. /\ TypeOK /\ EngineInv /\ curr_core' \in Cores /\ curr_job' \in [Cores -> Jobs]
      /\ Ready(curr_core', curr_job'[curr_core'])
  BY <1>1, SearchReady DEF DMAInv
<1>3. TypeOK'
  BY <1>1, <1>2 DEF TypeOK
<1>4. EngineInv'
  BY <1>1, <1>2 DEF EngineInv, Ready, TypeOK
<1>5. \A c \in Cores : CoreInv(c)'
  BY <1>1, Untouched DEF DMAInv, Same
<1>6. QED
  BY <1>3, <1>4, <1>5 DEF DMAInv

\* The job the engine works for: a whole one, that runs by itself or is outstanding.
LEMMA CurrentJob ==
  ASSUME DMAInv, working_sig
  PROVE  /\ TypeOK /\ EngineInv /\ curr_core \in Cores /\ CoreInv(curr_core)
         /\ curr_job[curr_core] \in Jobs /\ Current \in Entries
         /\ Current.trigger /\ ~Current.done /\ Whole(curr_core, curr_job[curr_core])
         /\ Current.pri \/ \E r \in out[curr_core] : r.job = curr_job[curr_core]
<1>1. /\ TypeOK /\ EngineInv /\ curr_core \in Cores /\ CoreInv(curr_core)
      /\ curr_job[curr_core] \in Jobs /\ Current \in Entries /\ Current.trigger /\ ~Current.done
  BY DEF DMAInv, TypeOK, EngineInv, Ready, Current
<1>2. Current # FreeEntry
  BY <1>1 DEF FreeEntry
<1>3. ~(pc[curr_core] \in Programming /\ curr_job[curr_core] = req[curr_core].job)
  BY <1>1 DEF CoreInv, DraftInv, Draft, Current
<1>4. QED
  BY <1>1, <1>2, <1>3 DEF CoreInv, EntryInv, Current

\* SOURCE.
LEMMA ReadSourceInv == ASSUME DMAInv, ReadSource PROVE DMAInv'
<1>1. /\ working_sig /\ engine.at = "wait"
      /\ UNCHANGED <<jt, job_curr_prog, job_gen_ev, curr_core, curr_job, working_sig, dma_event, moved,
                     pc, req, out, tag, collected>>
      /\ engine' = [at |-> "source", size |-> Current.size,
                    from |-> IF Current.dir = 1 THEN "addr1" ELSE "addr2",
                    source |-> IF Current.dir = 1 THEN Current.addr1 ELSE Current.addr2]
  BY DEF ReadSource, tables, sched, drivers
<1>2. /\ TypeOK /\ EngineInv /\ Current \in Entries /\ Current.addr1 = Current.size /\ Current.addr2 = Current.size
  BY <1>1, CurrentJob DEF Whole, Current
<1>3. TypeOK'
  <2>1. engine' \in [at : {"wait", "source", "target"}, source : Tags, from : Sides, size : Tags]
    BY <1>1, <1>2 DEF Entries, Sides
  <2>2. QED
    BY <1>1, <1>2, <2>1 DEF TypeOK
<1>4. EngineInv'
  <2>1. Current' = Current /\ Ready(curr_core, curr_job[curr_core])'
    BY <1>1, <1>2 DEF EngineInv, Ready, Current
  <2>2. QED
    BY <1>1, <1>2, <2>1 DEF EngineInv
<1>5. \A c \in Cores : CoreInv(c)'
  BY <1>1, Untouched DEF DMAInv, Same
<1>6. QED
  BY <1>3, <1>4, <1>5 DEF DMAInv

\* TARGET: what was read for a request is written for the same one.
LEMMA WriteTargetInv == ASSUME DMAInv, WriteTarget PROVE DMAInv'
<1>1. PICK x : x = [source |-> engine.source, size |-> engine.size, from |-> engine.from,
                    to |-> IF Current.dir = 1 THEN "addr2" ELSE "addr1",
                    target |-> IF Current.dir = 1 THEN Current.addr2 ELSE Current.addr1]
  OBVIOUS
<1>2. /\ engine.at = "source" /\ engine' = [engine EXCEPT !.at = "target"]
      /\ moved' = [moved EXCEPT ![curr_core] = @ \cup {x}]
      /\ UNCHANGED <<jt, job_curr_prog, job_gen_ev, curr_core, curr_job, working_sig, dma_event,
                     pc, req, out, tag, collected>>
  BY <1>1 DEF WriteTarget, tables, sched, drivers
<1>3. working_sig /\ TypeOK /\ EngineInv
  BY <1>2 DEF DMAInv, EngineInv
<1>4. /\ curr_core \in Cores /\ Current \in Entries /\ Current.addr1 = Current.size
      /\ Current.addr2 = Current.size /\ Current.size > 0
  BY <1>3, CurrentJob DEF Whole, Current
<1>5. /\ x.source = Current.size /\ x.size = Current.size /\ x.target = Current.size /\ x.from # x.to
      /\ x \in [source : Tags, size : Tags, from : Sides, to : Sides, target : Tags]
  <2>1. /\ engine.source = Current.size /\ engine.size = Current.size
        /\ engine.from = IF Current.dir = 1 THEN "addr1" ELSE "addr2"
    BY <1>2, <1>3 DEF EngineInv
  <2>2. Current.size \in Tags
    BY <1>4 DEF Entries
  <2>3. QED
    BY <1>1, <1>4, <2>1, <2>2 DEF Sides
<1>6. /\ moved' \in [Cores -> SUBSET [source : Tags, size : Tags, from : Sides, to : Sides, target : Tags]]
      /\ moved'[curr_core] = moved[curr_core] \cup {x}
      /\ \A c \in Cores \ {curr_core} : moved'[c] = moved[c]
      /\ \A c \in Cores : moved[c] \subseteq moved'[c]
  BY <1>2, <1>3, <1>4, <1>5 DEF TypeOK
<1>7. TypeOK'
  <2>1. engine' \in [at : {"wait", "source", "target"}, source : Tags, from : Sides, size : Tags]
    BY <1>2, <1>3 DEF TypeOK
  <2>2. QED
    BY <1>2, <1>3, <1>6, <2>1 DEF TypeOK
<1>8. EngineInv'
  <2>1. Current' = Current /\ Ready(curr_core, curr_job[curr_core])' /\ engine'.at = "target" /\ working_sig'
    BY <1>2, <1>3 DEF EngineInv, Ready, Current, TypeOK
  <2>2. Moved(curr_core, Current.size)'
    BY <1>2, <1>5, <1>6, <2>1 DEF Moved
  <2>3. QED
    BY <1>2, <2>1, <2>2 DEF EngineInv
<1>9. ASSUME NEW c \in Cores PROVE CoreInv(c)'
  <2>1. CASE c # curr_core
    BY <1>2, <1>6, <2>1, Untouched DEF DMAInv, Same
  <2>2. CASE c = curr_core
    <3>1. CoreInv(c) /\ \A t : Moved(c, t) => Moved(c, t)'
      BY <1>6 DEF DMAInv, Moved
    <3>2. \A j \in Jobs : Whole(c, j) => Whole(c, j)'
      BY <1>2, <3>1 DEF Whole
    <3>3. EntryInv(c)' /\ OutInv(c)'
      BY <1>2, <3>1, <3>2 DEF CoreInv, EntryInv, OutInv, Known
    <3>4. DraftInv(c)' /\ WaitInv(c)'
      BY <1>2, <3>1 DEF CoreInv, DraftInv, Draft, WaitInv
    <3>5. LostInv(c)'
      BY <1>2, <3>1 DEF CoreInv, LostInv, Started
    <3>6. \A y \in moved'[c] : y.from # y.to /\ y.source = y.target /\ y.source = y.size /\ y.source > 0
      BY <1>4, <1>5, <1>6, <2>2, <3>1 DEF CoreInv
    <3>7. QED
      BY <1>2, <3>1, <3>3, <3>4, <3>5, <3>6 DEF CoreInv
  <2>3. QED
    BY <2>1, <2>2
<1>10. QED
  BY <1>7, <1>8, <1>9 DEF DMAInv

\* Completion: an asynchronous job leaves the table, the core that waits for
\* another one finds it done, and the event of a job in sleep mode is raised.
LEMMA UpdateStatusInv == ASSUME DMAInv, UpdateStatus PROVE DMAInv'
<1>1. PICK c, j, e : /\ c = curr_core /\ j = curr_job[curr_core]
                     /\ e = IF Current.pri THEN FreeEntry ELSE [Current EXCEPT !.done = TRUE]
  OBVIOUS
<1>2. /\ engine.at = "target"
      /\ jt' = [jt EXCEPT ![c][j] = e]
      /\ job_gen_ev' = [job_gen_ev EXCEPT ![c] = IF Current.sleep THEN j ELSE @]
      /\ dma_event' = [dma_event EXCEPT ![c] = @ \/ Current.sleep]
      /\ working_sig' = FALSE /\ engine' = Idle
      /\ UNCHANGED <<job_curr_prog, curr_core, curr_job, moved, pc, req, out, tag, collected>>
  BY <1>1 DEF UpdateStatus, drivers, Current
<1>3. working_sig /\ TypeOK /\ EngineInv
  BY <1>2 DEF DMAInv, EngineInv
<1>4. /\ c \in Cores /\ j \in Jobs /\ CoreInv(c) /\ Current = jt[c][j] /\ jt[c][j] \in Entries
      /\ jt[c][j].trigger /\ ~jt[c][j].done /\ Whole(c, j)
      /\ jt[c][j].pri \/ \E r \in out[c] : r.job = j
  BY <1>1, <1>3, CurrentJob DEF Current
<1>5. jt[c][j].pri \in BOOLEAN /\ jt[c][j].sleep \in BOOLEAN /\ Moved(c, jt[c][j].size)
  BY <1>1, <1>2, <1>3, <1>4 DEF EngineInv, Entries
<1>6. /\ jt[c][j].pri => e = FreeEntry
      /\ ~jt[c][j].pri => /\ e.done /\ e.trigger = jt[c][j].trigger /\ e.owner = jt[c][j].owner
                          /\ e.size = jt[c][j].size /\ e.addr1 = jt[c][j].addr1 /\ e.addr2 = jt[c][j].addr2
                          /\ e.dir = jt[c][j].dir /\ e.pri = jt[c][j].pri /\ e.sleep = jt[c][j].sleep
      /\ e \in Entries
  BY <1>1, <1>4, Records DEF Entries
<1>7. /\ jt' \in [Cores -> [Jobs -> Entries]] /\ jt'[c][j] = e
      /\ \A k \in Jobs \ {j} : jt'[c][k] = jt[c][k]
      /\ \A d \in Cores \ {c} : jt'[d] = jt[d]
  BY <1>2, <1>3, <1>4, <1>6 DEF TypeOK
<1>8. /\ dma_event' \in [Cores -> BOOLEAN] /\ job_gen_ev' \in [Cores -> Jobs \cup {None}]
      /\ dma_event'[c] = (dma_event[c] \/ jt[c][j].sleep)
      /\ \A d \in Cores \ {c} : dma_event'[d] = dma_event[d]
  BY <1>2, <1>3, <1>4, <1>5 DEF TypeOK
<1>9. TypeOK'
  <2>1. engine' \in [at : {"wait", "source", "target"}, source : Tags, from : Sides, size : Tags]
    BY <1>2 DEF Idle, Sides, Tags
  <2>2. QED
    BY <1>2, <1>3, <1>7, <1>8, <2>1 DEF TypeOK
<1>10. EngineInv'
  BY <1>2 DEF EngineInv, Idle
<1>11. CoreInv(c)'
  <2>1. ASSUME NEW r \in out[c], r.job = j
        PROVE  ~jt[c][j].pri
    <3>1. Known(c, r)
      BY <1>4 DEF CoreInv, OutInv
    <3>2. QED
      BY <1>4, <1>5, <2>1, <3>1 DEF Known
  <2>2. \A k \in Jobs \ {j} : Whole(c, k) => Whole(c, k)'
    BY <1>2, <1>7 DEF Whole, Moved
  <2>3. ~jt[c][j].pri => Whole(c, j)'
    <3>1. ASSUME ~jt[c][j].pri
          PROVE  /\ e.done /\ e.trigger /\ e.owner = c /\ e.size = jt[c][j].size /\ e.size > 0
                 /\ e.addr1 = e.size /\ e.addr2 = e.size
      BY <1>4, <1>6, <3>1 DEF Whole
    <3>2. \A t : Moved(c, t) => Moved(c, t)'
      BY <1>2 DEF Moved
    <3>3. QED
      BY <1>5, <1>7, <3>1, <3>2 DEF Whole
  <2>4. EntryInv(c)'
    <3>1. ASSUME NEW k \in Jobs, k # j
          PROVE  \/ jt'[c][k] = FreeEntry
                 \/ pc'[c] \in Programming /\ k = req'[c].job
                 \/ Whole(c, k)' /\ ((jt'[c][k].pri /\ jt'[c][k].trigger /\ ~jt'[c][k].done) \/ \E x \in out'[c] : x.job = k)
      BY <1>2, <1>4, <1>7, <2>2, <3>1 DEF CoreInv, EntryInv
    <3>2. \/ jt'[c][j] = FreeEntry
          \/ Whole(c, j)' /\ \E x \in out'[c] : x.job = j
      BY <1>2, <1>4, <1>5, <1>6, <1>7, <2>3
    <3>3. QED
      BY <3>1, <3>2 DEF EntryInv
  <2>5. OutInv(c)'
    <3>1. ASSUME NEW r \in out[c], r.job = j PROVE Known(c, r)'
      <4>1. Known(c, r)
        BY <1>4 DEF CoreInv, OutInv
      <4>2. QED
        BY <1>2, <1>5, <1>6, <1>7, <2>1, <2>3, <3>1, <4>1 DEF Known
    <3>2. ASSUME NEW r \in out[c], r.job # j PROVE Known(c, r)'
      BY <1>2, <1>4, <1>7, <2>2, <3>2 DEF CoreInv, OutInv, Known
    <3>3. QED
      BY <1>2, <3>1, <3>2 DEF OutInv
  <2>6. DraftInv(c)'
    <3>1. pc[c] \in Programming => req[c].job # j
      BY <1>4 DEF CoreInv, DraftInv, Draft
    <3>2. QED
      BY <1>2, <1>4, <1>7, <3>1 DEF CoreInv, DraftInv, Draft
  <2>7. WaitInv(c)'
    BY <1>2, <1>4 DEF CoreInv, WaitInv
  <2>8. LostInv(c)'
    <3>1. ASSUME NEW t, t # jt[c][j].size PROVE (\E k \in Jobs : jt[c][k].size = t) => \E k \in Jobs : jt'[c][k].size = t
      BY <1>7, <3>1
    <3>2. QED
      BY <1>2, <1>4, <1>5, <3>1 DEF CoreInv, LostInv, Started, Moved
  <2>9. QED
    BY <1>2, <1>4, <2>4, <2>5, <2>6, <2>7, <2>8 DEF CoreInv, Moved
<1>12. ASSUME NEW d \in Cores, d # c PROVE CoreInv(d)'
  BY <1>2, <1>7, <1>8, <1>12, Untouched DEF DMAInv, Same
<1>13. QED
  BY <1>9, <1>10, <1>11, <1>12 DEF DMAInv

\* No step of the cores, the scheduler or the engine breaks the invariant.
LEMMA StepInv == DMAInv /\ [Next]_vars => DMAInv'
<1> SUFFICES ASSUME DMAInv, [Next]_vars PROVE DMAInv'
  OBVIOUS
<1>1. ASSUME NEW c \in Cores, Access(c) PROVE DMAInv'
  BY <1>1, FreeSlotInv, WriteAddr1Inv, WriteAddr2Inv, WriteModeInv, TriggerInv, WaitInvKept,
     PollDoneInv DEF Access
<1>2. CASE Engine
  BY <1>2, ReadSourceInv, WriteTargetInv, UpdateStatusInv DEF Engine
<1>3. CASE UNCHANGED vars
  <2>1. UNCHANGED <<jt, job_curr_prog, job_gen_ev, curr_core, curr_job, working_sig, dma_event, engine, moved,
                    pc, req, out, tag, collected>>
    BY <1>3 DEF vars, tables, sched, drivers
  <2>2. TypeOK'
    BY <2>1 DEF DMAInv, TypeOK
  <2>3. EngineInv'
    BY <2>1 DEF DMAInv, EngineInv, Ready, Current, Moved
  <2>4. \A c \in Cores : CoreInv(c)'
    BY <2>1, Untouched DEF DMAInv, Same
  <2>5. QED
    BY <2>2, <2>3, <2>4 DEF DMAInv
<1>4. QED
  BY <1>1, <1>2, <1>3, set_next_jobInv DEF Next, Terminated

-----------------------------------------------------------------------------
(* The theorems. *)

\* The invariant holds in every state of the DMA.
THEOREM Invariance == Spec => []DMAInv
<1>1. QED
  BY InitInv, StepInv, PTL DEF Spec

\* Every value the DMA and its drivers hold is one the code can hold.
THEOREM TypesKept == Spec => []TypeOK
<1>1. DMAInv => TypeOK
  BY DEF DMAInv
<1>2. QED
  BY <1>1, Invariance, PTL

\* The job table: look_4_free_slot never gives an entry in use to another job, and
\* a job that was started stays in the table until it is moved.
THEOREM JobsAreKept == Spec => []JobsKept
<1>1. ASSUME DMAInv PROVE JobsKept
  <2>1. ASSUME NEW c \in Cores, NEW r \in out[c]
        PROVE  jt[c][r.job].owner = c /\ jt[c][r.job].addr1 = r.tag /\ jt[c][r.job].size = r.tag
    <3>1. Known(c, r)
      BY <1>1 DEF DMAInv, CoreInv, OutInv
    <3>2. QED
      BY <3>1 DEF Known, Whole
  <2>2. NothingLost
    BY <1>1 DEF DMAInv, CoreInv, LostInv, NothingLost
  <2>3. QED
    BY <1>1, <2>1, <2>2 DEF DMAInv, JobsKept, EntryKept
<1>2. QED
  BY <1>1, Invariance, PTL

\* dma_wait returns only when the data of its job has been moved.
THEOREM WaitsForTheMove == Spec => []WaitMeansMoved
<1>1. DMAInv => WaitMeansMoved
  BY DEF DMAInv, CoreInv, WaitMeansMoved
<1>2. QED
  BY <1>1, Invariance, PTL

\* The engine is handed a ready job, source, target and size of a transfer are those
\* of one request, and no ready job keeps the scheduler idle: for every number of
\* channels, whatever the order in which the search serves them.
THEOREM TransfersAreSound == Spec => []TransfersSound
<1>1. ASSUME DMAInv PROVE TransfersSound
  <2>1. NeverIdle
    BY <1>1, SearchFinds DEF DMAInv
  <2>2. QED
    BY <1>1, <2>1 DEF DMAInv, CoreInv, EngineInv, TransfersSound, ScheduledReady, TransferCoherent
<1>2. QED
  BY <1>1, Invariance, PTL
=============================================================================
