------------------------------ MODULE IdleProofs ------------------------------
(***************************************************************************)
(* Proofs about the sleep and wake-up of the cores, for every number of    *)
(* cores, every number of synchronisations and both ways of waking.        *)
(***************************************************************************)
EXTENDS Idle, FiniteSetTheorems, TLAPS

(* The inductive invariant. *)

\* sync_mngr: it releases only what it has counted, and that is everybody.
CountInv ==
  /\ IdleCount
  /\ mngr = "release" => sent = Cores

\* A core is idle from its call of sync_cores to the release; so it has entered
\* one more synchronisation than have been done, and left one fewer than it
\* has entered as long as it is inside.
RoundInv == \A c \in Cores :
  /\ c \in idle => InSync(c) /\ entered[c] = rounds + 1
  /\ c \notin idle => entered[c] = rounds
  /\ InSync(c) => entered[c] = left[c] + 1
  /\ ~InSync(c) => entered[c] = left[c]

\* The line of a core that waits for its next fetch is up for as long as it is
\* stopped or idle.
LineInv == \A c \in Cores : at[c] = "answered" /\ c \in stop \union idle => c \in line

\* Where an event is on its way, and who stops or woke a core that is asleep.
SleepInv == \A c \in Cores :
  /\ event[c] # "none" => op[c] = "event" /\ at[c] # "run" /\ waker = "events"
  /\ event[c] = "in" => c \in stop
  /\ op[c] = "event" /\ at[c] = "wait" => event[c] \in {"asked", "stop"}
  /\ event[c] \in {"asked", "stop"} => at[c] = "wait"
  /\ at[c] = "answered" /\ op[c] = "event" => c \in stop \union called
  /\ at[c] # "run" /\ op[c] = "stop" => c \in stop \union called

IdleInv == TypeOK /\ CountInv /\ RoundInv /\ LineInv /\ SleepInv

(* Its parts are kept by each action. *)

\* The number of cores.
LEMMA CoreCount == IsFiniteSet(Cores) /\ Cardinality(Cores) \in Nat
BY ConstantsAssumption, FS_CardinalityType

\* A set of cores is finite, and is that of all cores if it has their number.
LEMMA SubsetCount ==
  ASSUME NEW S \in SUBSET Cores
  PROVE  /\ IsFiniteSet(S) /\ Cardinality(S) \in 0 .. Cardinality(Cores)
         /\ Cardinality(S) = Cardinality(Cores) => S = Cores
<1>1. /\ IsFiniteSet(S) /\ Cardinality(S) <= Cardinality(Cores)
      /\ Cardinality(S) = Cardinality(Cores) => S = Cores
  BY CoreCount, FS_Subset
<1>2. Cardinality(S) \in Nat
  BY <1>1, FS_CardinalityType
<1>3. QED
  BY CoreCount, <1>1, <1>2

\* Init establishes the invariant.
LEMMA IdleInit == ASSUME Init PROVE IdleInv
<1>1. TypeOK
  BY CoreCount, ConstantsAssumption DEF Init, TypeOK
<1>2. CountInv
  BY FS_EmptySet DEF Init, CountInv, IdleCount
<1>3. RoundInv /\ LineInv /\ SleepInv
  BY DEF Init, RoundInv, LineInv, SleepInv, InSync
<1>4. QED
  BY <1>1, <1>2, <1>3 DEF IdleInv

\* The messages and the fetch of a core.
LEMMA StopCoreKeeps == ASSUME IdleInv, NEW c \in Cores, StopCore(c) PROVE IdleInv'
<1> USE DEF IdleInv, StopCore, Access, syncVars
<1>1. TypeOK'
  BY DEF TypeOK
<1>2. CountInv'
  BY DEF CountInv, IdleCount
<1>3. RoundInv'
  BY DEF RoundInv, InSync, TypeOK
<1>4. LineInv' /\ SleepInv'
  BY DEF LineInv, SleepInv, TypeOK
<1>5. QED
  BY <1>1, <1>2, <1>3, <1>4

LEMMA SyncCoresKeeps == ASSUME IdleInv, NEW c \in Cores, SyncCores(c) PROVE IdleInv'
<1> USE DEF IdleInv, SyncCores, Access
<1>1. TypeOK'
  BY DEF TypeOK
<1>2. CountInv'
  BY DEF CountInv, IdleCount
<1>3. RoundInv'
  BY DEF RoundInv, InSync, TypeOK
<1>4. LineInv' /\ SleepInv'
  BY DEF LineInv, SleepInv, TypeOK
<1>5. QED
  BY <1>1, <1>2, <1>3, <1>4

LEMMA WakeUpKeeps ==
  ASSUME IdleInv, NEW c \in Cores, NEW S \in SUBSET Cores, WakeUp(c, S)
  PROVE  IdleInv'
<1> USE DEF IdleInv, WakeUp, Access, syncVars
<1>1. TypeOK'
  BY DEF TypeOK
<1>2. CountInv'
  BY DEF CountInv, IdleCount
<1>3. RoundInv'
  BY DEF RoundInv, InSync, TypeOK
<1>4. LineInv' /\ SleepInv'
  BY DEF LineInv, SleepInv, TypeOK
<1>5. QED
  BY <1>1, <1>2, <1>3, <1>4

LEMMA NotifyEventKeeps == ASSUME IdleInv, NEW c \in Cores, NotifyEvent(c) PROVE IdleInv'
<1> USE DEF IdleInv, NotifyEvent, Access, syncVars
<1>1. TypeOK'
  BY DEF TypeOK
<1>2. CountInv'
  BY DEF CountInv, IdleCount
<1>3. RoundInv'
  BY DEF RoundInv, InSync, TypeOK
<1>4. LineInv' /\ SleepInv'
  BY DEF LineInv, SleepInv, TypeOK
<1>5. QED
  BY <1>1, <1>2, <1>3, <1>4

LEMMA ContinueKeeps == ASSUME IdleInv, NEW c \in Cores, Continue(c) PROVE IdleInv'
<1> USE DEF IdleInv, Continue, syncVars
<1>1. c \notin stop /\ c \notin idle
  BY DEF LineInv
<1>2. TypeOK'
  BY DEF TypeOK
<1>3. CountInv'
  BY DEF CountInv, IdleCount
<1>4. RoundInv'
  BY <1>1 DEF RoundInv, InSync, TypeOK
<1>5. LineInv' /\ SleepInv'
  BY <1>1 DEF LineInv, SleepInv, TypeOK
<1>6. QED
  BY <1>2, <1>3, <1>4, <1>5

\* sync_mngr keeps its count, and releases only when each core is idle.
LEMMA CountKeeps ==
  ASSUME TypeOK, CountInv, Scan \/ Release
  PROVE  /\ CountInv' /\ sent' \in SUBSET Cores /\ idle_cores' \in 0 .. Cardinality(Cores)
         /\ mngr' \in {"scan", "release"}
         /\ Release => idle = Cores
<1>1. CASE Scan
  <2>1. /\ sent' = sent \union Fresh /\ idle_cores' = idle_cores + Cardinality(Fresh)
        /\ mngr' = (IF idle_cores' = Cardinality(Cores) THEN "release" ELSE "scan")
        /\ idle' = idle /\ ~Release
    BY <1>1 DEF Scan, Release
  <2>2. sent \in SUBSET Cores /\ Fresh \in SUBSET Cores /\ sent \cap Fresh = {}
        /\ sent \union Fresh \subseteq idle
    BY DEF TypeOK, Fresh, CountInv, IdleCount
  <2>3. IsFiniteSet(sent) /\ IsFiniteSet(Fresh) /\ Cardinality(sent) \in Nat /\ Cardinality(Fresh) \in Nat
    <3>1. IsFiniteSet(sent) /\ IsFiniteSet(Fresh)
      BY <2>2, SubsetCount
    <3>2. QED
      BY <3>1, FS_CardinalityType
  <2>4. Cardinality(sent \union Fresh) = Cardinality(sent) + Cardinality(Fresh)
    <3>1. Cardinality(sent \cap Fresh) = 0
      BY <2>2, FS_EmptySet
    <3>2. Cardinality(sent \union Fresh) = Cardinality(sent) + Cardinality(Fresh) - Cardinality(sent \cap Fresh)
      BY <2>3, FS_Union
    <3>3. QED
      BY <2>3, <3>1, <3>2
  <2>5. idle_cores' = Cardinality(sent') /\ sent' \subseteq idle' /\ sent' \in SUBSET Cores
    BY <2>1, <2>2, <2>4 DEF CountInv, IdleCount
  <2>6. idle_cores' \in 0 .. Cardinality(Cores) /\ (idle_cores' = Cardinality(Cores) => sent' = Cores)
    <3>1. Cardinality(sent') \in 0 .. Cardinality(Cores) /\ (Cardinality(sent') = Cardinality(Cores) => sent' = Cores)
      BY <2>5, SubsetCount
    <3>2. QED
      BY <2>5, <3>1
  <2>7. QED
    BY <2>1, <2>5, <2>6 DEF CountInv, IdleCount
<1>2. CASE Release
  BY <1>2, FS_EmptySet, CoreCount DEF Release, Zero, CountInv, IdleCount, TypeOK
<1>3. QED
  BY <1>1, <1>2

LEMMA EdgeKeeps ==
  ASSUME IdleInv, NEW accepted \in SUBSET Cores, NEW woken \in SUBSET Cores, Edge(accepted, woken)
  PROVE  IdleInv'
<1> USE DEF IdleInv
<1>1. CountInv' /\ sent' \in SUBSET Cores /\ idle_cores' \in 0 .. Cardinality(Cores)
      /\ mngr' \in {"scan", "release"} /\ (Release => idle = Cores)
  BY CountKeeps DEF Edge
<1>2. idle' \subseteq idle /\ rounds' \in Nat
  BY DEF Edge, Scan, Release, TypeOK
<1>3. TypeOK'
  BY <1>1, <1>2 DEF Edge, AfterEvents, IdleLine, Answer, TypeOK
<1>4. \A c \in Cores : at'[c] = "run" <=> at[c] = "run"
  BY DEF Edge, Answer, TypeOK, SleepInv
<1>5. RoundInv'
  <2>1. CASE Scan
    BY <1>4, <2>1 DEF Edge, Scan, RoundInv, InSync
  <2>2. CASE Release
    BY <1>1, <1>4, <2>2 DEF Edge, Release, RoundInv, InSync, TypeOK
  <2>3. QED
    BY <2>1, <2>2 DEF Edge
<1>6. LineInv'
  <2>1. \A c \in woken : c \notin idle
    BY DEF Edge, RoundInv, SleepInv, InSync
  <2>2. stop' \union idle' \subseteq line'
    BY <1>2, <2>1 DEF Edge, AfterEvents, IdleLine
  <2>3. QED
    BY <2>2 DEF LineInv
<1>7. SleepInv'
  <2> SUFFICES ASSUME NEW c \in Cores
               PROVE  /\ event'[c] # "none" => op'[c] = "event" /\ at'[c] # "run" /\ waker' = "events"
                      /\ event'[c] = "in" => c \in stop'
                      /\ op'[c] = "event" /\ at'[c] = "wait" => event'[c] \in {"asked", "stop"}
                      /\ event'[c] \in {"asked", "stop"} => at'[c] = "wait"
                      /\ at'[c] = "answered" /\ op'[c] = "event" => c \in stop' \union called'
                      /\ at'[c] # "run" /\ op'[c] = "stop" => c \in stop' \union called'
    BY DEF SleepInv
  <2>1. CASE event[c] = "asked"
    BY <2>1 DEF Edge, AfterEvents, Answer, TypeOK, SleepInv
  <2>2. CASE event[c] = "stop"
    BY <2>2 DEF Edge, AfterEvents, Answer, TypeOK, SleepInv
  <2>3. CASE event[c] = "in"
    BY <2>3 DEF Edge, AfterEvents, Answer, TypeOK, SleepInv
  <2>4. CASE event[c] = "none"
    BY <2>4 DEF Edge, AfterEvents, Answer, TypeOK, SleepInv
  <2>5. QED
    BY <2>1, <2>2, <2>3, <2>4 DEF TypeOK
<1>8. QED
  BY <1>1, <1>3, <1>5, <1>6, <1>7

\* Every step keeps the invariant.
LEMMA IdleNext == ASSUME IdleInv, [Next]_vars PROVE IdleInv'
<1>1. CASE Clock
  BY <1>1, EdgeKeeps DEF Clock
<1>2. ASSUME NEW c \in Cores, StopCore(c) \/ SyncCores(c) \/ NotifyEvent(c) \/ Continue(c)
      PROVE  IdleInv'
  BY <1>2, StopCoreKeeps, SyncCoresKeeps, NotifyEventKeeps, ContinueKeeps
<1>3. ASSUME NEW c \in Cores, WakeUp(c, Cores) \/ \E d \in Cores : WakeUp(c, {d})
      PROVE  IdleInv'
  BY <1>3, WakeUpKeeps
<1>4. CASE UNCHANGED vars
  BY <1>4 DEF vars, syncVars, IdleInv, TypeOK, CountInv, IdleCount, RoundInv, InSync, LineInv, SleepInv
<1>5. QED
  BY <1>1, <1>2, <1>3, <1>4 DEF Next

(* The theorems. *)

\* The invariant holds: cores and threads only take the states of TypeOK.
THEOREM IdleInvariant == Spec => []IdleInv
<1>1. Init => IdleInv
  BY IdleInit
<1>2. IdleInv /\ [Next]_vars => IdleInv'
  BY IdleNext
<1>3. QED
  BY <1>1, <1>2, PTL DEF Spec

\* No core leaves its k-th synchronisation before all have entered theirs,
\* whatever the number of cores.
THEOREM SyncSafe == Spec => []SyncTogether
<1>1. IdleInv => SyncTogether
  <2> SUFFICES ASSUME IdleInv, NEW c \in Cores, NEW d \in Cores PROVE left[c] <= entered[d]
    BY DEF SyncTogether
  <2>1. left[c] \in Nat /\ entered[c] \in Nat /\ entered[d] \in Nat /\ rounds \in Nat
    BY DEF IdleInv, TypeOK
  <2>2. left[c] <= rounds
    BY <2>1 DEF IdleInv, RoundInv
  <2>3. rounds <= entered[d]
    BY <2>1 DEF IdleInv, RoundInv
  <2>4. QED
    BY <2>1, <2>2, <2>3
<1>2. QED
  BY IdleInvariant, <1>1, PTL

\* idle_cores counts the cores seen idle, each once.
THEOREM CountExact == Spec => []IdleCount
<1>1. IdleInv => IdleCount
  BY DEF IdleInv, CountInv
<1>2. QED
  BY IdleInvariant, <1>1, PTL

\* The states of TypeOK: idle_cores passes no limit, as the assert of sync_mngr says.
THEOREM TypeCorrect == Spec => []TypeOK
<1>1. IdleInv => TypeOK
  BY DEF IdleInv
<1>2. QED
  BY IdleInvariant, <1>1, PTL

\* What the run idle_all checks of a synchronisation: all cores together, by a
\* count of the idle cores that is right.
THEOREM SyncIsSound == Spec => []SyncSound
<1>1. TypeOK /\ IdleCount /\ SyncTogether => SyncSound
  BY DEF SyncSound
<1>2. QED
  BY <1>1, TypeCorrect, CountExact, SyncSafe, PTL

\* A core that went to sleep runs again only after it has been woken: its line
\* stays up from the answer to the wake-up.
THEOREM SleepsSafe == Spec => SleepsUntilWoken
<1> DEFINE Step == \A c \in Cores : Asleep(c) /\ ~Asleep(c)' => c \in called
<1>1. IdleInv /\ [Next]_vars => [Step]_vars
  <2> SUFFICES ASSUME IdleInv, Next, NEW c \in Cores, Asleep(c), ~Asleep(c)' PROVE c \in called
    OBVIOUS
  <2> USE DEF IdleInv, Asleep
  <2>1. ASSUME NEW d \in Cores, StopCore(d) \/ SyncCores(d) \/ NotifyEvent(d)
                                 \/ \E S \in SUBSET Cores : WakeUp(d, S)
        PROVE  FALSE
    BY <2>1 DEF StopCore, SyncCores, NotifyEvent, WakeUp, Access, TypeOK
  <2>2. ASSUME NEW accepted \in SUBSET Cores, NEW woken \in SUBSET Cores, Edge(accepted, woken)
        PROVE  FALSE
    BY <2>2 DEF Edge, Answer
  <2>3. ASSUME NEW d \in Cores, Continue(d) PROVE c \in called
    <3>1. d = c
      BY <2>3 DEF Continue, TypeOK
    <3>2. at[c] = "answered" /\ c \notin stop
      BY <2>3, <3>1 DEF Continue, LineInv
    <3>3. QED
      BY <3>2 DEF SleepInv
  <2>4. QED
    BY <2>1, <2>2, <2>3 DEF Next, Clock
<1>2. QED
  BY IdleInvariant, <1>1, PTL DEF Spec, SleepsUntilWoken
=============================================================================
