---------------------------- MODULE GompTeamProofs ----------------------------
(***************************************************************************)
(* Proofs about fork and join, for any number of cores, of regions and of  *)
(* barriers: the pool and the idle count describe the same cores, a core   *)
(* runs the region it was recruited for, a region joins before it ends.    *)
(***************************************************************************)
EXTENDS GompTeam, Integers, FiniteSetTheorems, WellFoundedInduction, TLAPS

(* Loops as functions, and indices that go round. *)

\* A non-empty set of naturals has a least member.
LEMMA LeastNat ==
  ASSUME NEW T \in SUBSET Nat, T # {}
  PROVE  \E x \in T : \A y \in T : x <= y
<1> DEFINE R == {ss \in Nat \X Nat : ss[1] < ss[2]}
<1>1. IsWellFoundedOn(R, Nat)
  BY NatLessThanWellFounded, Zenon DEF OpToRel
<1>2. \E x \in T : \A y \in T : ~ (<<y, x>> \in R)
  <2> HIDE DEF R
  <2> QED BY <1>1, WFMin
<1>3. PICK x \in T : \A y \in T : ~ (<<y, x>> \in R)
  BY <1>2
<1>4. ASSUME NEW y \in T PROVE x <= y
  <2>1. y \in Nat /\ x \in Nat
    OBVIOUS
  <2>2. y < x => <<y, x>> \in R
    BY <2>1
  <2> QED BY <1>3, <2>1, <2>2
<1>5. QED
  BY <1>4

\* A set that holds 0 and, with i, also i + 1, holds all numbers up to n.
LEMMA SetInduction ==
  ASSUME NEW S, 0 \in S, NEW n \in Nat, \A i \in 0 .. n - 1 : i \in S => i + 1 \in S
  PROVE  \A i \in 0 .. n : i \in S
<1> SUFFICES ASSUME {i \in 0 .. n : i \notin S} # {} PROVE FALSE
  OBVIOUS
<1> DEFINE T == {i \in 0 .. n : i \notin S}
<1>1. PICK x \in T : \A y \in T : x <= y
  <2>1. T \in SUBSET Nat
    OBVIOUS
  <2>2. QED
    BY <2>1, LeastNat
<1>2. x # 0 /\ x - 1 \in 0 .. n - 1 /\ x - 1 \notin T
  BY <1>1
<1>3. QED
  BY <1>1, <1>2

\* f: the values, in S, of a loop of n turns that begins with first.
Bodies(S, n) == [S \X (0 .. n - 1) -> S]
IsLoop(f, S, n, first, turn) ==
  /\ f \in [0 .. n -> S]
  /\ f[0] = first /\ \A i \in 1 .. n : f[i] = turn[<<f[i - 1], i - 1>>]

\* The values of a loop of n turns exist.
LEMMA Loop ==
  ASSUME NEW S, NEW n \in Nat, NEW first \in S, NEW turn \in Bodies(S, n)
  PROVE  \E f : IsLoop(f, S, n, first, turn)
<1> USE DEF Bodies
<1> DEFINE Runs(f, m) == f[0] = first /\ \A i \in 1 .. m : f[i] = turn[<<f[i - 1], i - 1>>]
           T == {m \in Nat : \E f \in [0 .. m -> S] : Runs(f, m)}
<1>1. 0 \in T
  <2>1. [i \in 0 .. 0 |-> first] \in [0 .. 0 -> S] /\ Runs([i \in 0 .. 0 |-> first], 0)
    OBVIOUS
  <2>2. QED
    BY <2>1
<1>2. ASSUME NEW m \in 0 .. n - 1, m \in T PROVE m + 1 \in T
  <2>1. PICK f \in [0 .. m -> S] : Runs(f, m)
    BY <1>2
  <2> DEFINE run == [i \in 0 .. m + 1 |-> IF i <= m THEN f[i] ELSE turn[<<f[m], m>>]]
  <2>2. turn[<<f[m], m>>] \in S
    OBVIOUS
  <2>3. run \in [0 .. m + 1 -> S]
    BY <2>2
  <2>4. Runs(run, m + 1)
    <3>1. run[0] = first
      BY <2>1
    <3>2. ASSUME NEW i \in 1 .. m + 1 PROVE run[i] = turn[<<run[i - 1], i - 1>>]
      <4>1. CASE i <= m
        BY <2>1, <4>1
      <4>2. CASE i = m + 1
        <5>1. i - 1 = m /\ run[i] = turn[<<f[m], m>>] /\ run[m] = f[m]
          BY <4>2
        <5>2. QED
          BY <5>1
      <4>3. QED
        BY <4>1, <4>2
    <3>3. QED
      BY <3>1, <3>2
  <2>5. \E h \in [0 .. m + 1 -> S] : Runs(h, m + 1)
    <3> HIDE DEF run, Runs
    <3>1. QED
      BY <2>3, <2>4
  <2>6. QED
    BY <2>5
<1>3. n \in T
  <2> HIDE DEF T
  <2>1. QED
    BY <1>1, <1>2, SetInduction
<1>4. QED
  BY <1>3 DEF IsLoop

\* An index that goes round stays in its range.
LEMMA RoundRange == ASSUME NEW n \in Nat \ {0}, NEW x \in Nat PROVE x % n \in 0 .. n - 1
  OBVIOUS

\* It is where it would be without going round, or less by one round.
LEMMA RoundOnce == ASSUME NEW n \in Nat \ {0}, NEW x \in 0 .. n - 1 PROVE x % n = x /\ (x + n) % n = x
<1>1. x % n = x
  OBVIOUS
<1>2. (x + n) % n = x
  OBVIOUS
<1>3. QED
  BY <1>1, <1>2

-----------------------------------------------------------------------------

(* The flags of the cores, as words of the memory. *)

LEMMA FlagsKept == mem' = mem => slaveFlag' = slaveFlag /\ masterFlag' = masterFlag
  BY DEF slaveFlag, masterFlag

\* The flag words that slaves and masters use.
LEMMA FlagWords ==
  /\ \A c \in Cores : SLAVE_FLAG(c) \in Words
  /\ \A c \in Slaves : MASTER_FLAG(c) \in Words
  /\ \A c, d \in Cores : c # d => SLAVE_FLAG(c) # SLAVE_FLAG(d) /\ MASTER_FLAG(c) # MASTER_FLAG(d)
<1> DEFINE n == DefaultMaxProc \div SIZEOF_WORD
<1>1. n \in Nat
  BY ConstantsAssumption DEF SIZEOF_WORD
<1>2. N \in Nat \ {0} /\ Cores = 0 .. N - 1 /\ Words = 0 .. n + N /\ Slaves \subseteq Cores
  BY ConstantsAssumption DEF Cores, Words, MASTER_FLAG, Slaves
<1>3. \A c : SLAVE_FLAG(c) = c /\ MASTER_FLAG(c) = n + c
  BY DEF SLAVE_FLAG, MASTER_FLAG
<1> HIDE DEF n
<1>4. QED
  BY <1>1, <1>2, <1>3

\* No word is the flag of a slave to its master and of a master to some slave.
LEMMA FlagsApart ==
  ASSUME FlagsDisjoint, NEW c \in Cores, NEW d \in Slaves
  PROVE  SLAVE_FLAG(c) # MASTER_FLAG(d)
<1> DEFINE n == DefaultMaxProc \div SIZEOF_WORD
<1>1. n \in Nat
  BY ConstantsAssumption DEF SIZEOF_WORD
<1>2. N \in Nat \ {0} /\ c \in 0 .. N - 1 /\ d \in 1 .. N - 1 /\ N <= n + 1
  BY ConstantsAssumption DEF Cores, Slaves, MASTER_ID, FlagsDisjoint, MASTER_FLAG
<1>3. SLAVE_FLAG(c) = c /\ MASTER_FLAG(d) = n + d
  BY DEF SLAVE_FLAG, MASTER_FLAG
<1> HIDE DEF n
<1>4. QED
  BY <1>1, <1>2, <1>3

\* What a core reads of its flags.
LEMMA FlagReads ==
  ASSUME TypeOK
  PROVE  /\ slaveFlag \in [Cores -> 0 .. FlagMod - 1] /\ masterFlag \in [Cores -> {0, 1}]
         /\ \A c \in Cores : mem[SLAVE_FLAG(c)] = slaveFlag[c]
         /\ \A c \in Slaves : mem[MASTER_FLAG(c)] = masterFlag[c]
<1>1. mem \in [Words -> 0 .. FlagMod - 1] /\ masterFlag \in [Cores -> {0, 1}]
  BY DEF TypeOK
<1>2. slaveFlag \in [Cores -> 0 .. FlagMod - 1]
  BY <1>1, FlagWords DEF slaveFlag
<1>3. QED
  BY <1>1, <1>2 DEF slaveFlag, masterFlag, Slaves

\* A slave notifies its master, or the master resets the notification.
LEMMA MasterWrite ==
  ASSUME TypeOK, FlagsDisjoint, NEW c \in Slaves, NEW v \in {0, 1}, mem' = [mem EXCEPT ![MASTER_FLAG(c)] = v]
  PROVE  /\ masterFlag' = [masterFlag EXCEPT ![c] = v] /\ slaveFlag' = slaveFlag
         /\ mem' \in [Words -> 0 .. FlagMod - 1] /\ masterFlag' \in [Cores -> {0, 1}]
<1>1. mem \in [Words -> 0 .. FlagMod - 1] /\ masterFlag \in [Cores -> {0, 1}]
  BY DEF TypeOK
<1>2. c \in Cores /\ c # MASTER_ID /\ MASTER_FLAG(c) \in Words /\ v \in 0 .. FlagMod - 1
  BY FlagWords, ConstantsAssumption DEF Slaves
<1>3. mem' \in [Words -> 0 .. FlagMod - 1]
  BY <1>1, <1>2
<1>4. \A d \in Cores : mem'[SLAVE_FLAG(d)] = mem[SLAVE_FLAG(d)]
  BY <1>1, FlagWords, FlagsApart
<1>5. slaveFlag' = slaveFlag
  BY <1>4 DEF slaveFlag
<1>6. \A d \in Cores \ {MASTER_ID} : mem'[MASTER_FLAG(d)] = IF d = c THEN v ELSE mem[MASTER_FLAG(d)]
  BY <1>1, <1>2, FlagWords DEF Slaves
<1>7. masterFlag' = [d \in Cores |-> IF d = c THEN v ELSE masterFlag[d]]
  BY <1>2, <1>6 DEF masterFlag
<1>8. QED
  BY <1>1, <1>2, <1>3, <1>5, <1>7

\* The master releases a slave.
LEMMA SlaveWrite ==
  ASSUME TypeOK, FlagsDisjoint, NEW c \in Cores, NEW v \in 0 .. FlagMod - 1,
         mem' = [mem EXCEPT ![SLAVE_FLAG(c)] = v]
  PROVE  /\ slaveFlag' = [slaveFlag EXCEPT ![c] = v] /\ masterFlag' = masterFlag
         /\ mem' \in [Words -> 0 .. FlagMod - 1] /\ slaveFlag' \in [Cores -> 0 .. FlagMod - 1]
<1>1. mem \in [Words -> 0 .. FlagMod - 1] /\ slaveFlag \in [Cores -> 0 .. FlagMod - 1]
  BY FlagReads DEF TypeOK
<1>2. SLAVE_FLAG(c) \in Words
  BY FlagWords
<1>3. mem' \in [Words -> 0 .. FlagMod - 1]
  BY <1>1, <1>2
<1>4. \A d \in Cores \ {MASTER_ID} : mem'[MASTER_FLAG(d)] = mem[MASTER_FLAG(d)]
  BY <1>1, FlagWords, FlagsApart DEF Slaves
<1>5. masterFlag' = masterFlag
  BY <1>4 DEF masterFlag
<1>6. \A d \in Cores : mem'[SLAVE_FLAG(d)] = IF d = c THEN v ELSE mem[SLAVE_FLAG(d)]
  BY <1>1, <1>2, FlagWords
<1>7. slaveFlag' = [d \in Cores |-> IF d = c THEN v ELSE slaveFlag[d]]
  BY <1>6 DEF slaveFlag
<1>8. QED
  BY <1>1, <1>3, <1>5, <1>7

-----------------------------------------------------------------------------

(* The inductive invariant. *)

Starting == {"recruit", "unlock", "install"}   \* new[c] is not installed yet
Opening == {"lock", "resolve", "take"} \cup Starting
Closing == {"endunlock", "endrestore"}         \* curr[c] is freed and still current
Holding == {"resolve", "take", "recruit", "unlock", "endfree", "endunlock"}

Regions == open \ {ROOT}
Boss(t) == Proc(t, 0)
Size(t) == Len(team[t].procs)
Pending(t) == pc[Boss(t)] \in Starting /\ new[Boss(t)] = t

\* The open regions core c has entered as a thread.
Entered(c) ==
  {t \in open : /\ IF t = ROOT THEN c = MASTER_ID ELSE c \in Range(team[t].procs)
                /\ ~(pc[c] \in Starting /\ t = new[c])}

\* The flags of a core in MSGBarrier_SlaveEnter: on its way, gathered, released.
Arriving(s) == \/ pc[s] = "enter" /\ masterFlag[s] = 0
               \/ pc[s] = "spin" /\ masterFlag[s] = 1 /\ g[s] = slaveFlag[s]
Gathered(s) == pc[s] = "spin" /\ masterFlag[s] = 0 /\ g[s] = slaveFlag[s]
Released(s) == pc[s] = "spin" /\ masterFlag[s] = 0 /\ g[s] # slaveFlag[s]

\* A slave of region t that is docked, or in a barrier, until its master releases it.
Docked(s, t) == curr[s] = t /\ ret[s] = "dock" /\ Gathered(s)
InBarrier(s, t) == curr[s] = t /\ ret[s] = "barrier" /\ Gathered(s)

\* A slave of region t that has been released, up to the point where it arrives at
\* its next barrier, after b of them, or docks after the last one.
Busy(s, t, b) ==
  \/ curr[s] # t /\ masterFlag[s] = 0 /\ bars[s][t] = b
  \/ curr[s] = t /\ pc[s] \in {"run", "dispatch"} \cup Opening /\ masterFlag[s] = 0 /\ bars[s][t] = b
  \/ curr[s] = t /\ ret[s] = "dock" /\ Released(s) /\ bars[s][t] = b
  \/ curr[s] = t /\ ret[s] = "barrier" /\ Released(s) /\ bars[s][t] + 1 = b
  \/ curr[s] = t /\ ret[s] = "barrier" /\ Arriving(s) /\ bars[s][t] = b /\ b < team[t].bars
  \/ curr[s] = t /\ ret[s] = "dock" /\ Arriving(s) /\ bars[s][t] = b /\ b = team[t].bars

\* The master of t is inside the region, or in a nested one; it is at a barrier call.
Inside(t) == ~Pending(t) /\ (curr[Boss(t)] # t \/ pc[Boss(t)] \in {"run"} \cup Opening)
At(t, label, from) == curr[Boss(t)] = t /\ pc[Boss(t)] = label /\ ret[Boss(t)] = from
Ending(t) == curr[Boss(t)] = t /\ pc[Boss(t)] \in {"endlock", "endfree"}

\* What a slave of t does while its master does what it does.
Handshake(t, i) ==
  LET s == Proc(t, i)
      b == bars[Boss(t)][t]
      gathered == i < k[Boss(t)]
  IN
  /\ Pending(t) => Docked(s, t)
  /\ Inside(t) => Busy(s, t, b)
  /\ At(t, "release", "start") => IF gathered THEN Busy(s, t, b) ELSE Docked(s, t) /\ bars[s][t] = b
  /\ At(t, "wait", "barrier") => IF gathered THEN InBarrier(s, t) /\ bars[s][t] = b ELSE Busy(s, t, b)
  /\ At(t, "release", "barrier") => IF gathered THEN Busy(s, t, b + 1) ELSE InBarrier(s, t) /\ bars[s][t] = b
  /\ At(t, "wait", "end") => IF gathered THEN Docked(s, t) /\ bars[s][t] = b ELSE Busy(s, t, b)
  /\ Ending(t) => Docked(s, t) /\ bars[s][t] = b

\* The descriptor of an open region.
ShapeInv(t) ==
  /\ t \in 2 .. nteams
  /\ Size(t) > 0 /\ team[t].mask = Range(team[t].procs)
  /\ \A i, j \in 0 .. Size(t) - 1 : Proc(t, i) = Proc(t, j) => i = j
  /\ \A i \in 1 .. Size(t) - 1 : Proc(t, i) \in Slaves
  /\ pc[Boss(t)] = "recruit" /\ new[Boss(t)] = t => team[t].procs = <<Boss(t)>> /\ team[t].nthreads = nthr[Boss(t)]
  /\ ~(pc[Boss(t)] = "recruit" /\ new[Boss(t)] = t) => Size(t) = team[t].nthreads

\* The parent of a region is the one its master was in.
ParentInv(t) ==
  ~Pending(t) => LET p == team[t].parent IN
    /\ p \in Entered(Boss(t)) /\ p < t
    /\ \A u \in Entered(Boss(t)) : u < t => u <= p

\* Where the master of an installed region can be in it.
BossInv(t) ==
  ~Pending(t) /\ curr[Boss(t)] = t =>
    LET m == Boss(t) IN
    /\ pc[m] \in {"run", "wait", "release", "endlock", "endfree"} \cup Opening
    /\ pc[m] = "wait" => ret[m] \in {"barrier", "end"}
    /\ pc[m] = "release" => ret[m] \in {"start", "barrier"}
    /\ pc[m] \in {"wait", "release"} => nthr[m] = Size(t) /\ k[m] <= Size(t)
    /\ pc[m] \in {"wait", "release"} /\ ret[m] = "barrier" => bars[m][t] < team[t].bars
    /\ (pc[m] = "wait" /\ ret[m] = "end") \/ pc[m] \in {"endlock", "endfree"} => bars[m][t] = team[t].bars

RegionInv(t) == /\ ShapeInv(t) /\ ParentInv(t) /\ BossInv(t) /\ bars[Boss(t)][t] <= team[t].bars
                /\ \A i \in 1 .. Size(t) - 1 : Handshake(t, i)

\* A core is in the region it entered last, and began with the one it is a slave of.
CoreInv(c) ==
  /\ pc[c] \in Closing =>
       LET t == curr[c] IN
       /\ t \in (2 .. nteams) \ open /\ Boss(t) = c
       /\ team[t].parent \in Entered(c) /\ \A u \in Entered(c) : u <= team[t].parent
  /\ Entered(c) # {} /\ pc[c] \notin Closing => curr[c] \in Entered(c) /\ \A u \in Entered(c) : u <= curr[c]
  /\ pc[c] \in Starting => new[c] \in Regions /\ Boss(new[c]) = c /\ \A u \in Entered(c) : u < new[c]
  /\ pc[c] \in Opening \cup {"run"} => Entered(c) # {}
  /\ pc[c] \in {"wait", "release", "endlock", "endfree"} => Entered(c) # {} /\ Boss(curr[c]) = c
  /\ pc[c] \notin {"wait", "release"} => k[c] = 1
  /\ \A t \in Entered(c) \ {ROOT} : c # Boss(t) => \A u \in Entered(c) : t <= u

\* The boot, the root region and the exit of the global master.
Boot == pc[MASTER_ID] = "wait" /\ ret[MASTER_ID] = "boot"
Exit == ret[MASTER_ID] = "exit"
RootInv ==
  LET m == MASTER_ID IN
  /\ pc[m] \notin {"enter", "spin", "dispatch"}
  /\ pc[m] = "initenv" => nteams = 0 /\ open = {} /\ ~Exit
  /\ pc[m] # "initenv" => nteams >= 1 /\ ROOT \in open /\ team[ROOT] = RootTeam
  /\ Boot \/ Exit => open = {ROOT} /\ curr[m] = ROOT
  /\ curr[m] = ROOT /\ pc[m] # "initenv" =>
       /\ pc[m] \in {"run", "wait", "release", "stopped"} \cup Opening
       /\ pc[m] = "wait" => ret[m] = "boot"
       /\ pc[m] \in {"release", "stopped"} <=> Exit
       /\ pc[m] \in {"wait", "release"} => nthr[m] = N

\* A core in no region is docked, except at boot and at exit.
IdleInv(s) ==
  LET m == MASTER_ID IN
  /\ curr[s] = OMP_SLAVE_EXIT <=> Exit
  /\ Entered(s) = {} =>
       IF pc[m] = "initenv" \/ (Boot /\ s >= k[m]) THEN ret[s] = "dock" /\ Arriving(s)
       ELSE IF Exit /\ (s < k[m] \/ pc[m] = "stopped")
       THEN pc[s] \in {"dispatch", "stopped"} \/ (ret[s] = "dock" /\ Released(s))
       ELSE ret[s] = "dock" /\ Gathered(s)

\* The global lock has one holder; the pool and the idle count are those of the open
\* regions, but for the cores a holder has asked for and not yet recruited.
LockInv ==
  /\ \A c, d \in Cores : pc[c] \in Holding /\ pc[d] \in Holding => c = d
  /\ lock = 0 <=> \A c \in Cores : pc[c] \notin Holding
PoolInv ==
  nteams > 0 =>
    /\ pool = {MASTER_ID} \cup UNION {SlavesOf(t) : t \in Regions}
    /\ (\A c \in Cores : pc[c] # "recruit") => idle = N - Cardinality(pool)
    /\ \A c \in Cores : pc[c] = "recruit" => nthr[c] > 0 /\ idle = N - Cardinality(pool) - (nthr[c] - 1)
    /\ \A c \in Cores : pc[c] = "take" => nthr[c] \in 1 .. idle + 1

\* Descriptors never handed out, and the bound on them.
FreshInv ==
  /\ \A t \in TeamIds : t > nteams \/ (t \in Regions /\ Pending(t)) => \A c \in Cores : bars[c][t] = 0
  /\ nteams + Cardinality({d \in Cores : pc[d] \in {"lock", "resolve", "take"}}) <= MaxTeams

TeamInv == /\ TypeOK /\ RootInv /\ LockInv /\ PoolInv /\ FreshInv /\ TeamsDisjoint
           /\ \A t \in Regions : RegionInv(t)
           /\ \A c \in Cores : CoreInv(c)
           /\ \A s \in Slaves : IdleInv(s)

-----------------------------------------------------------------------------
(* What the invariant says of the threads of a region and of a core. *)

\* The descriptor of an open region lists cores; its master comes first.
LEMMA RegionFacts ==
  ASSUME TypeOK, NEW t \in Regions, ShapeInv(t)
  PROVE  /\ t \in TeamIds /\ t # ROOT /\ t \in open /\ team[t] \in Descriptors
         /\ Size(t) \in Nat \ {0} /\ Boss(t) \in Cores
         /\ \A i \in 0 .. Size(t) - 1 : Proc(t, i) \in Cores /\ Proc(t, i) \in Range(team[t].procs)
         /\ \A c \in Range(team[t].procs) : c = Boss(t) \/ \E i \in 1 .. Size(t) - 1 : c = Proc(t, i)
         /\ \A i \in 1 .. Size(t) - 1 : Proc(t, i) # Boss(t) /\ Proc(t, i) \in Slaves /\ Proc(t, i) \in SlavesOf(t)
         /\ \A c \in SlavesOf(t) : \E i \in 1 .. Size(t) - 1 : c = Proc(t, i)
<1>1. t \in TeamIds /\ t # ROOT /\ t \in open /\ team[t] \in Descriptors
  BY DEF TypeOK, Regions
<1>2. team[t].procs \in Seq(Cores) /\ Size(t) \in Nat \ {0} /\ Size(t) = Len(team[t].procs)
  BY <1>1 DEF Descriptors, Size, ShapeInv
<1>3. \A i \in 0 .. Size(t) - 1 : Proc(t, i) \in Cores /\ Proc(t, i) \in Range(team[t].procs)
  BY <1>2 DEF Proc, Range
<1>4. \A c \in Range(team[t].procs) : \E i \in 0 .. Size(t) - 1 : c = Proc(t, i)
  <2> SUFFICES ASSUME NEW c \in Range(team[t].procs) PROVE \E i \in 0 .. Size(t) - 1 : c = Proc(t, i)
    OBVIOUS
  <2>1. PICK x \in 1 .. Size(t) : c = team[t].procs[x]
    BY <1>2 DEF Range
  <2>2. x - 1 \in 0 .. Size(t) - 1 /\ c = Proc(t, x - 1)
    BY <1>2, <2>1 DEF Proc
  <2>3. QED
    BY <2>2
<1>5. \A c \in Range(team[t].procs) : c = Boss(t) \/ \E i \in 1 .. Size(t) - 1 : c = Proc(t, i)
  BY <1>2, <1>4 DEF Boss
<1>6. \A i \in 1 .. Size(t) - 1 : Proc(t, i) # Boss(t) /\ Proc(t, i) \in Slaves /\ Proc(t, i) \in SlavesOf(t)
  BY <1>2 DEF ShapeInv, Boss, SlavesOf, Size
<1>7. \A c \in SlavesOf(t) : \E i \in 1 .. Size(t) - 1 : c = Proc(t, i)
  BY <1>2 DEF SlavesOf
<1>8. Boss(t) \in Cores
  BY <1>2, <1>3 DEF Boss
<1>9. QED
  BY <1>1, <1>2, <1>3, <1>5, <1>6, <1>7, <1>8

\* A region a core has entered: it is the master, or one of the slaves.
LEMMA EnteredFacts ==
  ASSUME TeamInv, NEW c \in Cores, NEW t \in Entered(c)
  PROVE  /\ t \in open /\ t \in Nat
         /\ t = ROOT => c = MASTER_ID
         /\ t # ROOT => /\ t \in Regions
                        /\ c = Boss(t) => ~Pending(t)
                        /\ c = Boss(t) \/ \E i \in 1 .. Size(t) - 1 : c = Proc(t, i)
<1>1. t \in open /\ t \in Nat
  BY DEF Entered, TeamInv, TypeOK, TeamIds
<1>2. t = ROOT => c = MASTER_ID
  BY DEF Entered
<1>3. ASSUME t # ROOT
      PROVE  /\ t \in Regions /\ (c = Boss(t) => ~Pending(t))
             /\ c = Boss(t) \/ \E i \in 1 .. Size(t) - 1 : c = Proc(t, i)
  <2>1. t \in Regions /\ c \in Range(team[t].procs) /\ ~(pc[c] \in Starting /\ t = new[c])
    BY <1>1, <1>3 DEF Entered, Regions
  <2>2. TypeOK /\ ShapeInv(t)
    BY <2>1 DEF TeamInv, RegionInv
  <2>3. QED
    BY <2>1, <2>2, RegionFacts DEF Pending
<1>4. QED
  BY <1>1, <1>2, <1>3

\* A slave that is in a region at all is a slave of one.
LEMMA HomeExists ==
  ASSUME TeamInv, NEW c \in Slaves, Entered(c) # {}
  PROVE  \E h \in Regions : h \in Entered(c) /\ c \in SlavesOf(h)
<1>1. c \in Cores /\ c # MASTER_ID
  BY DEF Slaves
<1>2. Entered(c) \in SUBSET Nat
  BY <1>1, EnteredFacts
<1>3. PICK h \in Entered(c) : \A u \in Entered(c) : h <= u
  BY <1>2, LeastNat
<1>4. h \in Regions /\ h \in Nat
  BY <1>1, <1>3, EnteredFacts
<1>5. c # Boss(h)
  <2> SUFFICES ASSUME c = Boss(h) PROVE FALSE
    OBVIOUS
  <2>1. ~Pending(h) /\ ParentInv(h)
    BY <1>1, <1>3, <1>4, EnteredFacts DEF TeamInv, RegionInv, Regions
  <2>2. team[h].parent \in Entered(c) /\ team[h].parent < h /\ team[h].parent \in Nat
    BY <1>2, <2>1 DEF ParentInv
  <2>3. QED
    BY <1>3, <1>4, <2>2
<1>6. PICK i \in 1 .. Size(h) - 1 : c = Proc(h, i)
  BY <1>1, <1>3, <1>4, <1>5, EnteredFacts DEF Regions
<1>7. QED
  BY <1>3, <1>4, <1>6, RegionFacts DEF TeamInv, RegionInv

\* Cores in a region are marked in the pool.
LEMMA InPool == ASSUME TeamInv, NEW c \in Cores, Entered(c) # {}, nteams > 0 PROVE c \in pool
<1>1. CASE c = MASTER_ID
  BY <1>1 DEF TeamInv, PoolInv
<1>2. CASE c # MASTER_ID
  <2>1. PICK h \in Regions : c \in SlavesOf(h)
    BY <1>2, HomeExists DEF Slaves
  <2>2. QED
    BY <2>1 DEF TeamInv, PoolInv
<1>3. QED
  BY <1>1, <1>2

\* A core in the labels of a slave is a slave, of the region it is in if any.
LEMMA SlaveAt ==
  ASSUME TeamInv, NEW c \in Cores, pc[c] \in {"enter", "spin", "dispatch"}
  PROVE  /\ c \in Slaves
         /\ Entered(c) # {} => /\ curr[c] \in Regions /\ curr[c] \in Entered(c) /\ c # Boss(curr[c])
                               /\ \E i \in 1 .. Size(curr[c]) - 1 : c = Proc(curr[c], i)
<1>1. c \in Slaves
  BY DEF TeamInv, RootInv, Slaves
<1>2. ASSUME Entered(c) # {}
      PROVE  /\ curr[c] \in Regions /\ curr[c] \in Entered(c) /\ c # Boss(curr[c])
             /\ \E i \in 1 .. Size(curr[c]) - 1 : c = Proc(curr[c], i)
  <2>1. curr[c] \in Entered(c)
    BY <1>2 DEF TeamInv, CoreInv, Closing
  <2>2. curr[c] # ROOT
    BY <1>1, <2>1, EnteredFacts DEF Slaves
  <2>3. curr[c] \in Regions /\ (c = Boss(curr[c]) => ~Pending(curr[c]))
        /\ (c = Boss(curr[c]) \/ \E i \in 1 .. Size(curr[c]) - 1 : c = Proc(curr[c], i))
    BY <2>1, <2>2, EnteredFacts
  <2>4. c # Boss(curr[c])
    BY <2>3 DEF TeamInv, RegionInv, BossInv, Opening, Starting
  <2>5. QED
    BY <2>1, <2>3, <2>4
<1>3. QED
  BY <1>1, <1>2

\* A core in the labels of a master is that of its region, which is installed.
LEMMA MasterAt ==
  ASSUME TeamInv, NEW c \in Cores, pc[c] \in {"wait", "release", "endlock", "endfree"}
  PROVE  /\ curr[c] \in Entered(c) /\ Boss(curr[c]) = c
         /\ \A u \in Entered(c) : u <= curr[c]
         /\ \/ /\ c = MASTER_ID /\ curr[c] = ROOT /\ open = {ROOT}
               /\ (pc[c] = "wait" /\ Boot) \/ (pc[c] = "release" /\ Exit)
            \/ curr[c] \in Regions /\ ~Pending(curr[c])
<1>1. curr[c] \in Entered(c) /\ Boss(curr[c]) = c /\ \A u \in Entered(c) : u <= curr[c]
  BY DEF TeamInv, CoreInv, Closing
<1>2. CASE curr[c] = ROOT
  <2>1. c = MASTER_ID
    BY <1>1, <1>2, EnteredFacts
  <2>2. (pc[c] = "wait" /\ Boot) \/ (pc[c] = "release" /\ Exit)
    <3>1. /\ pc[c] \in {"run", "wait", "release", "stopped"} \cup Opening
          /\ pc[c] = "wait" => ret[c] = "boot"
          /\ pc[c] \in {"release", "stopped"} <=> Exit
      BY <1>2, <2>1 DEF TeamInv, RootInv
    <3>2. QED
      BY <2>1, <3>1 DEF Boot, Opening, Starting
  <2>3. open = {ROOT}
    BY <2>2 DEF TeamInv, RootInv
  <2>4. QED
    BY <1>1, <1>2, <2>1, <2>2, <2>3
<1>3. CASE curr[c] # ROOT
  BY <1>1, <1>3, EnteredFacts
<1>4. QED
  BY <1>1, <1>2, <1>3

\* While the global master is in the root region and opens none, there is no other.
LEMMA NoRegion ==
  ASSUME TeamInv, pc[MASTER_ID] = "run", curr[MASTER_ID] = ROOT
  PROVE  Regions = {}
<1> SUFFICES ASSUME Regions # {} PROVE FALSE
  OBVIOUS
<1>1. Regions \in SUBSET Nat
  <2>1. open \subseteq TeamIds /\ TeamIds \subseteq Nat
    BY ConstantsAssumption DEF TeamInv, TypeOK, TeamIds
  <2>2. QED
    BY <2>1 DEF Regions
<1>2. PICK t \in Regions : \A u \in Regions : t <= u
  BY <1>1, LeastNat
<1>3. ShapeInv(t) /\ ParentInv(t) /\ TypeOK /\ t \in Nat /\ t > ROOT
  BY <1>1, <1>2 DEF TeamInv, RegionInv, ShapeInv, ROOT
<1>4. Boss(t) \in Cores /\ Boss(t) \in Range(team[t].procs)
  BY <1>3, RegionFacts DEF Boss
<1>5. ASSUME NEW u \in Entered(Boss(t)), u < t PROVE Boss(t) = MASTER_ID
  <2>1. u \in open /\ u \in Nat /\ (u = ROOT => Boss(t) = MASTER_ID) /\ (u # ROOT => u \in Regions)
    BY <1>4, <1>5, EnteredFacts
  <2>2. QED
    BY <1>2, <1>3, <1>5, <2>1
<1>6. CASE Pending(t)
  <2>1. pc[Boss(t)] \in Starting /\ new[Boss(t)] = t
    BY <1>6 DEF Pending
  <2>2. curr[Boss(t)] \in Entered(Boss(t)) /\ curr[Boss(t)] < t
    BY <1>4, <2>1 DEF TeamInv, CoreInv, Starting, Closing, Opening
  <2>3. QED
    BY <1>5, <2>1, <2>2 DEF Starting
<1>7. CASE ~Pending(t)
  <2>1. Boss(t) = MASTER_ID
    BY <1>3, <1>5, <1>7 DEF ParentInv
  <2>2. t \in Entered(MASTER_ID)
    BY <1>3, <1>4, <2>1, RegionFacts DEF Entered, Starting
  <2>3. t <= ROOT
    BY <1>4, <2>1, <2>2 DEF TeamInv, CoreInv, Closing
  <2>4. QED
    BY <1>3, <2>3 DEF ROOT
<1>8. QED
  BY <1>6, <1>7

\* Without regions every slave is outside.
LEMMA NoneEntered == ASSUME Regions = {}, NEW s \in Slaves PROVE Entered(s) = {}
  BY DEF Regions, Entered, Slaves

-----------------------------------------------------------------------------
(* What a step of one core leaves alone. *)

\* Only core c moves; it stays in its region and neither asks for a descriptor nor
\* installs one.
Alone(c) ==
  /\ UNCHANGED <<curr, team, nteams, new, open>>
  /\ \A d \in Cores \ {c} : /\ pc'[d] = pc[d] /\ ret'[d] = ret[d] /\ nthr'[d] = nthr[d]
                             /\ k'[d] = k[d] /\ g'[d] = g[d] /\ bars'[d] = bars[d]
  /\ pc[c] \in Starting <=> pc'[c] \in Starting
  /\ pc[c] # "recruit" /\ pc'[c] # "recruit"

\* Regions, their threads and the regions of every core stay as they are.
LEMMA AloneFrame ==
  ASSUME TeamInv, NEW c \in Cores, Alone(c)
  PROVE  /\ Regions' = Regions
         /\ \A t : Boss(t)' = Boss(t) /\ Size(t)' = Size(t) /\ SlavesOf(t)' = SlavesOf(t)
         /\ \A t, i : Proc(t, i)' = Proc(t, i)
         /\ \A d \in Cores : Entered(d)' = Entered(d)
         /\ \A t \in Regions : Boss(t) \in Cores /\ (Pending(t)' <=> Pending(t)) /\ ShapeInv(t)' /\ ParentInv(t)'
         /\ TeamsDisjoint'
         /\ \A d \in Cores \ {c} : CoreInv(d)'
<1> USE DEF Alone
<1>1. Regions' = Regions
  BY DEF Regions
<1>2. \A t, i : Proc(t, i)' = Proc(t, i)
  BY DEF Proc
<1>3. \A t : Boss(t)' = Boss(t) /\ Size(t)' = Size(t) /\ SlavesOf(t)' = SlavesOf(t)
  BY DEF Boss, Size, SlavesOf, Proc
<1>4. \A d \in Cores : Entered(d)' = Entered(d)
  <2> SUFFICES ASSUME NEW d \in Cores PROVE Entered(d)' = Entered(d)
    OBVIOUS
  <2>1. (pc'[d] \in Starting) <=> (pc[d] \in Starting)
    OBVIOUS
  <2>2. QED
    BY <2>1 DEF Entered
<1>5. ASSUME NEW t \in Regions
      PROVE  Boss(t) \in Cores /\ (Pending(t)' <=> Pending(t)) /\ ShapeInv(t)' /\ ParentInv(t)'
  <2>1. RegionInv(t) /\ TypeOK
    BY DEF TeamInv
  <2>2. Boss(t) \in Cores
    BY <2>1, RegionFacts DEF RegionInv
  <2>3. Pending(t)' <=> Pending(t)
    BY <1>3, <2>2 DEF Pending
  <2>4. ShapeInv(t)'
    BY <1>2, <1>3, <2>1, <2>2 DEF RegionInv, ShapeInv
  <2>5. ParentInv(t)'
    BY <1>3, <1>4, <2>1, <2>2, <2>3 DEF RegionInv, ParentInv
  <2>6. QED
    BY <2>2, <2>3, <2>4, <2>5
<1>6. TeamsDisjoint'
  BY <1>3 DEF TeamInv, TeamsDisjoint
<1>7. ASSUME NEW d \in Cores \ {c} PROVE CoreInv(d)'
  BY <1>1, <1>3, <1>4 DEF TeamInv, CoreInv
<1>8. QED
  BY <1>1, <1>2, <1>3, <1>4, <1>5, <1>6, <1>7

\* The master of t, and a slave of t, as far as the region is concerned.
SameBoss(m, t) == /\ pc'[m] = pc[m] /\ ret'[m] = ret[m] /\ k'[m] = k[m] /\ nthr'[m] = nthr[m]
                  /\ curr'[m] = curr[m] /\ new'[m] = new[m] /\ bars'[m][t] = bars[m][t]
SameFlags(s) == masterFlag'[s] = masterFlag[s] /\ slaveFlag'[s] = slaveFlag[s]
SameSlave(s, t) == /\ pc'[s] = pc[s] /\ ret'[s] = ret[s] /\ g'[s] = g[s] /\ SameFlags(s)
                   /\ curr'[s] = curr[s] /\ bars'[s][t] = bars[s][t]

\* What is said of a master and of a slave depends on these alone.
LEMMA BossFrame ==
  ASSUME NEW t, BossInv(t), team'[t] = team[t], SameBoss(Boss(t), t)
  PROVE  BossInv(t)'
  BY DEF BossInv, SameBoss, Boss, Size, Proc, Pending

\* The same for a slave.
LEMMA SlaveFrame ==
  ASSUME NEW t, NEW s, team'[t] = team[t], SameSlave(s, t)
  PROVE  /\ Docked(s, t)' <=> Docked(s, t)
         /\ InBarrier(s, t)' <=> InBarrier(s, t)
         /\ \A b : Busy(s, t, b)' <=> Busy(s, t, b)
<1> USE DEF SameSlave, SameFlags
<1>1. (Gathered(s)' <=> Gathered(s)) /\ (Released(s)' <=> Released(s)) /\ (Arriving(s)' <=> Arriving(s))
  BY DEF Gathered, Released, Arriving
<1>2. QED
  BY <1>1 DEF Docked, InBarrier, Busy

\* A slave that is not gathered moves on under its master's eyes.
LEMMA SlaveMoves ==
  ASSUME NEW t, NEW i, Handshake(t, i), team'[t] = team[t], SameBoss(Boss(t), t),
         Gathered(Proc(t, i)) /\ curr[Proc(t, i)] = t => SameSlave(Proc(t, i), t),
         \A b : Busy(Proc(t, i), t, b) => Busy(Proc(t, i), t, b)'
  PROVE  Handshake(t, i)'
<1>1. PICK m, s : m = Boss(t) /\ s = Proc(t, i)
  OBVIOUS
<1>2. Boss(t)' = m /\ Proc(t, i)' = s
  BY <1>1 DEF Boss, Proc
<1>3. /\ pc'[m] = pc[m] /\ ret'[m] = ret[m] /\ k'[m] = k[m] /\ bars'[m][t] = bars[m][t]
      /\ (Pending(t)' <=> Pending(t)) /\ (Inside(t)' <=> Inside(t)) /\ (Ending(t)' <=> Ending(t))
      /\ \A x, y : At(t, x, y)' <=> At(t, x, y)
  BY <1>1, <1>2 DEF SameBoss, Pending, Inside, Ending, At
<1>4. /\ Docked(s, t) => Docked(s, t)' /\ bars'[s][t] = bars[s][t]
      /\ InBarrier(s, t) => InBarrier(s, t)' /\ bars'[s][t] = bars[s][t]
  <2>1. CASE SameSlave(s, t)
    BY <2>1, SlaveFrame DEF SameSlave
  <2>2. CASE ~(Gathered(s) /\ curr[s] = t)
    BY <2>2 DEF Docked, InBarrier
  <2>3. QED
    BY <1>1, <2>1, <2>2
<1>5. \A b : Busy(s, t, b) => Busy(s, t, b)'
  <2> SUFFICES ASSUME NEW b, Busy(s, t, b) PROVE Busy(s, t, b)'
    OBVIOUS
  <2>1. Busy(Proc(t, i), t, b)'
    BY <1>1
  <2>2. QED
    BY <1>1, <1>2, <2>1 DEF Busy, Arriving, Released
<1>6. QED
  BY <1>1, <1>2, <1>3, <1>4, <1>5 DEF Handshake

\* Nothing happens to the master or to this slave.
LEMMA HandshakeFrame ==
  ASSUME NEW t, NEW i, Handshake(t, i), team'[t] = team[t], SameBoss(Boss(t), t), SameSlave(Proc(t, i), t)
  PROVE  Handshake(t, i)'
<1>1. PICK s : s = Proc(t, i)
  OBVIOUS
<1>2. \A b : Busy(s, t, b) => Busy(s, t, b)'
  BY <1>1, SlaveFrame
<1>3. Proc(t, i)' = s
  BY <1>1 DEF Proc
<1>4. \A b : Busy(Proc(t, i), t, b) => Busy(Proc(t, i), t, b)'
  BY <1>1, <1>2, <1>3 DEF Busy, Arriving, Released
<1>5. QED
  BY <1>4, SlaveMoves

\* Neither boot nor exit.
Normal == pc[MASTER_ID] # "initenv" /\ ~Boot /\ ~Exit

\* A core outside every region that nothing happens to.
LEMMA IdleFrame ==
  ASSUME NEW s \in Slaves, IdleInv(s), Entered(s)' = Entered(s), curr'[s] = curr[s],
         Entered(s) = {} => pc'[s] = pc[s] /\ ret'[s] = ret[s] /\ g'[s] = g[s] /\ SameFlags(s),
         \/ Normal /\ Normal'
         \/ /\ pc'[MASTER_ID] = pc[MASTER_ID] /\ ret'[MASTER_ID] = ret[MASTER_ID]
            /\ k'[MASTER_ID] = k[MASTER_ID]
  PROVE  IdleInv(s)'
<1>1. Entered(s) = {} => (Gathered(s)' <=> Gathered(s)) /\ (Released(s)' <=> Released(s)) /\ (Arriving(s)' <=> Arriving(s))
  BY DEF Gathered, Released, Arriving, SameFlags
<1>2. CASE Normal /\ Normal'
  BY <1>1, <1>2 DEF IdleInv, Normal
<1>3. CASE /\ pc'[MASTER_ID] = pc[MASTER_ID] /\ ret'[MASTER_ID] = ret[MASTER_ID]
           /\ k'[MASTER_ID] = k[MASTER_ID]
  BY <1>1, <1>3 DEF IdleInv, Boot, Exit
<1>4. QED
  BY <1>2, <1>3

\* Core c takes no part in gomp_team_start and gomp_team_end.
LEMMA QuietGlobals ==
  ASSUME TeamInv, NEW c \in Cores, Alone(c), UNCHANGED <<lock, idle, pool>>,
         pc[c] \notin Holding \cup {"lock"}, pc'[c] \notin Holding \cup {"lock"},
         \A t \in TeamIds : bars'[c][t] # bars[c][t] => t <= nteams /\ ~(t \in Regions /\ Pending(t))
  PROVE  LockInv' /\ PoolInv' /\ FreshInv'
<1> USE DEF Alone
<1>1. /\ Regions' = Regions /\ \A t : Boss(t)' = Boss(t) /\ SlavesOf(t)' = SlavesOf(t)
      /\ \A t \in Regions : (Pending(t)' <=> Pending(t))
  BY AloneFrame
<1>2. LockInv'
  BY DEF TeamInv, LockInv
<1>3. \A d \in Cores : /\ pc'[d] \in {"recruit", "take"} \/ pc[d] \in {"recruit", "take"} => pc'[d] = pc[d] /\ nthr'[d] = nthr[d]
                       /\ pc'[d] \in {"lock", "resolve", "take"} <=> pc[d] \in {"lock", "resolve", "take"}
  BY DEF Holding
<1>4. PoolInv'
  BY <1>1, <1>3 DEF TeamInv, PoolInv
<1>5. FreshInv'
  <2>1. {d \in Cores : pc'[d] \in {"lock", "resolve", "take"}} = {d \in Cores : pc[d] \in {"lock", "resolve", "take"}}
    BY <1>3
  <2>2. ASSUME NEW t \in TeamIds, t > nteams \/ (t \in Regions /\ Pending(t)), NEW d \in Cores PROVE bars'[d][t] = 0
    <3>1. bars[d][t] = 0
      BY <2>2 DEF TeamInv, FreshInv
    <3>2. CASE d # c
      BY <3>1, <3>2
    <3>3. CASE d = c
      <4>1. t \in Nat /\ nteams \in Nat
        BY ConstantsAssumption DEF TeamInv, TypeOK, TeamIds
      <4>2. QED
        BY <2>2, <3>1, <3>3, <4>1
    <3>4. QED
      BY <3>2, <3>3
  <2>3. QED
    BY <1>1, <2>1, <2>2 DEF TeamInv, FreshInv
<1>6. QED
  BY <1>2, <1>4, <1>5

\* What holds of region t: where its master is, and its slaves with it.
Works(t) == /\ BossInv(t) /\ bars[Boss(t)][t] <= team[t].bars
            /\ \A i \in 1 .. Size(t) - 1 : Handshake(t, i)

\* A step of one core keeps the invariant when it keeps these parts of it.
LEMMA AloneInv ==
  ASSUME TeamInv, NEW c \in Cores, Alone(c), TypeOK', LockInv', PoolInv', FreshInv', RootInv', CoreInv(c)',
         \A t \in Regions : Works(t)', \A s \in Slaves : IdleInv(s)'
  PROVE  TeamInv'
<1>1. /\ Regions' = Regions /\ TeamsDisjoint'
      /\ \A t \in Regions : ShapeInv(t)' /\ ParentInv(t)'
      /\ \A d \in Cores : CoreInv(d)'
  BY AloneFrame
<1>2. \A t \in Regions : RegionInv(t)'
  BY <1>1 DEF Works, RegionInv
<1>3. QED
  BY <1>1, <1>2 DEF TeamInv

\* A slave has entered its region, from the moment it is recruited.
LEMMA SlaveEntered ==
  ASSUME TeamInv, NEW t \in Regions, NEW s \in SlavesOf(t)
  PROVE  t \in Entered(s) /\ s \in Slaves /\ s # Boss(t)
<1>1. TypeOK /\ ShapeInv(t)
  BY DEF TeamInv, RegionInv
<1>2. PICK i \in 1 .. Size(t) - 1 : s = Proc(t, i)
  BY <1>1, RegionFacts
<1>3. s \in Slaves /\ s # Boss(t) /\ s \in Range(team[t].procs) /\ t # ROOT /\ t \in open
  BY <1>1, <1>2, RegionFacts
<1>4. ~(pc[s] \in Starting /\ t = new[s])
  BY <1>3 DEF TeamInv, CoreInv, Slaves
<1>5. QED
  BY <1>3, <1>4 DEF Entered

\* A core is the slave of one region, under one index.
LEMMA OneHome ==
  ASSUME TeamInv, NEW t \in Regions, NEW u \in Regions, NEW i \in 1 .. Size(t) - 1, NEW j \in 1 .. Size(u) - 1,
         Proc(t, i) = Proc(u, j)
  PROVE  t = u /\ i = j
<1>1. TypeOK /\ ShapeInv(t) /\ ShapeInv(u)
  BY DEF TeamInv, RegionInv
<1>2. Proc(t, i) \in SlavesOf(t) /\ Proc(u, j) \in SlavesOf(u)
  BY <1>1, RegionFacts
<1>3. t = u
  BY <1>2 DEF TeamInv, TeamsDisjoint, Regions
<1>4. Size(t) \in Nat
  BY <1>1, RegionFacts
<1>5. QED
  BY <1>1, <1>3, <1>4 DEF ShapeInv

\* The step of a slave, in the region it is a slave of.
LEMMA SlaveStep ==
  ASSUME TeamInv, NEW c \in Cores, Alone(c), curr[c] \in Entered(c), curr[c] \in Regions, c # Boss(curr[c]),
         \A d \in Cores \ {c} : SameFlags(d), pc[c] \notin Starting \cup Closing, ~Gathered(c),
         \A b : Busy(c, curr[c], b) => Busy(c, curr[c], b)'
  PROVE  \A t \in Regions : Works(t)'
<1> SUFFICES ASSUME NEW t \in Regions PROVE Works(t)'
  OBVIOUS
<1>1. TypeOK /\ RegionInv(t) /\ ShapeInv(t) /\ ShapeInv(curr[c])
  BY DEF TeamInv, RegionInv
<1>2. PICK h : h = curr[c]
  OBVIOUS
<1>3. PICK j \in 1 .. Size(h) - 1 : c = Proc(h, j)
  BY <1>2, EnteredFacts DEF Regions
<1>4. Boss(t) # c
  <2> SUFFICES ASSUME Boss(t) = c PROVE FALSE
    OBVIOUS
  <2>1. c \in Range(team[t].procs) /\ t # ROOT /\ t \in open
    BY <1>1, RegionFacts DEF Boss
  <2>2. t \in Entered(c)
    BY <2>1 DEF Entered
  <2>3. t <= h /\ h <= t /\ t \in Nat /\ h \in Nat
    BY <1>2, <2>2, EnteredFacts DEF TeamInv, CoreInv, Regions
  <2>4. QED
    BY <1>2, <2>3
<1>5. Boss(t) \in Cores /\ SameBoss(Boss(t), t) /\ team'[t] = team[t] /\ Boss(t)' = Boss(t) /\ Size(t)' = Size(t)
  BY <1>1, <1>4, RegionFacts, AloneFrame DEF Alone, SameBoss
<1>6. BossInv(t)'
  BY <1>1, <1>5, BossFrame DEF RegionInv
<1>7. (bars[Boss(t)][t] <= team[t].bars)'
  BY <1>1, <1>5 DEF RegionInv, SameBoss
<1>8. ASSUME NEW i \in 1 .. Size(t) - 1 PROVE Handshake(t, i)'
  <2>1. Handshake(t, i) /\ Proc(t, i) \in Cores
    BY <1>1, RegionFacts DEF RegionInv
  <2>2. CASE Proc(t, i) # c
    <3>1. SameSlave(Proc(t, i), t)
      BY <2>1, <2>2 DEF Alone, SameSlave
    <3>2. QED
      BY <1>5, <2>1, <3>1, HandshakeFrame
  <2>3. CASE Proc(t, i) = c
    <3>1. t = h
      BY <1>2, <1>3, <2>3, OneHome
    <3>2. Proc(t, i)' = Proc(t, i)
      BY AloneFrame
    <3>3. \A b : Busy(Proc(t, i), t, b) => Busy(Proc(t, i), t, b)'
      <4> SUFFICES ASSUME NEW b, Busy(Proc(t, i), t, b) PROVE Busy(Proc(t, i), t, b)'
        OBVIOUS
      <4>1. Busy(c, curr[c], b)'
        BY <1>2, <2>3, <3>1
      <4>2. curr[c]' = t
        BY <1>2, <3>1 DEF Alone
      <4>3. QED
        BY <2>3, <3>2, <4>1, <4>2 DEF Busy, Arriving, Released
    <3>4. QED
      BY <1>5, <2>1, <2>3, <3>3, SlaveMoves
  <2>4. QED
    BY <2>2, <2>3
<1>9. QED
  BY <1>5, <1>6, <1>7, <1>8 DEF Works

\* The step of a master, in the region it is the master of.
LEMMA MasterStep ==
  ASSUME TeamInv, NEW c \in Cores, Alone(c), curr[c] \in Regions, c = Boss(curr[c]), pc[c] \notin Starting,
         \A d \in Cores \ SlavesOf(curr[c]) : SameFlags(d), g'[c] = g[c],
         \A u \in Regions \ {curr[c]} : bars'[c][u] = bars[c][u],
         Works(curr[c])'
  PROVE  \A u \in Regions : Works(u)'
<1>1. PICK t : t = curr[c]
  OBVIOUS
<1> SUFFICES ASSUME NEW u \in Regions, u # t PROVE Works(u)'
  <2>1. curr'[c] = curr[c]
    BY DEF Alone
  <2>2. \A u \in Regions : u = t => Works(u)'
    BY <1>1, <2>1
  <2>3. QED
    BY <2>2
<1>2. TypeOK /\ RegionInv(t) /\ RegionInv(u) /\ ShapeInv(t) /\ ShapeInv(u)
  BY <1>1 DEF TeamInv, RegionInv
<1>3. /\ Boss(u) \in Cores /\ team'[u] = team[u] /\ Boss(u)' = Boss(u) /\ Size(u)' = Size(u)
      /\ (Pending(u)' <=> Pending(u)) /\ curr' = curr
  BY AloneFrame DEF Alone
<1>4. ASSUME NEW i \in 1 .. Size(u) - 1
      PROVE  /\ Proc(u, i) \in Cores /\ SameFlags(Proc(u, i)) /\ Proc(u, i)' = Proc(u, i)
             /\ Proc(u, i) # c => SameSlave(Proc(u, i), u)
             /\ Handshake(u, i)
  <2>1. Proc(u, i) \in Cores /\ Proc(u, i) \in SlavesOf(u) /\ Handshake(u, i)
    BY <1>2, RegionFacts DEF RegionInv
  <2>2. Proc(u, i) \notin SlavesOf(t)
    BY <1>1, <2>1 DEF TeamInv, TeamsDisjoint, Regions
  <2>3. SameFlags(Proc(u, i)) /\ Proc(u, i)' = Proc(u, i)
    BY <1>1, <2>1, <2>2, AloneFrame
  <2>4. QED
    BY <2>1, <2>3 DEF Alone, SameSlave
<1>5. CASE Boss(u) = c
  <2>1. ~Pending(u) /\ curr[c] # u
    BY <1>1, <1>5 DEF Pending
  <2>2. BossInv(u)'
    BY <1>3, <1>5, <2>1 DEF BossInv
  <2>3. (bars[Boss(u)][u] <= team[u].bars)'
    BY <1>1, <1>2, <1>3, <1>5 DEF RegionInv
  <2>4. ASSUME NEW i \in 1 .. Size(u) - 1 PROVE Handshake(u, i)'
    <3>1. PICK s : s = Proc(u, i)
      OBVIOUS
    <3>2. s # c
      BY <1>2, <1>5, <3>1, RegionFacts
    <3>3. Busy(s, u, bars[c][u])
      BY <1>4, <1>5, <2>1, <3>1 DEF Handshake, Inside
    <3>4. Busy(s, u, bars[c][u])'
      <4>1. SameSlave(s, u) /\ bars'[c][u] = bars[c][u]
        BY <1>1, <1>4, <3>1, <3>2
      <4>2. PICK b : b = bars[c][u]
        OBVIOUS
      <4>3. Busy(s, u, b)'
        BY <1>3, <3>3, <4>1, <4>2, SlaveFrame
      <4>4. QED
        BY <4>1, <4>2, <4>3 DEF Busy
    <3>5. Proc(u, i)' = s /\ Boss(u)' = c /\ ~Pending(u)' /\ curr'[c] # u
      BY <1>3, <1>4, <1>5, <2>1, <3>1
    <3>6. QED
      BY <3>4, <3>5 DEF Handshake, At, Ending
  <2>5. QED
    BY <1>3, <2>2, <2>3, <2>4 DEF Works
<1>6. CASE Boss(u) # c
  <2>1. SameBoss(Boss(u), u)
    BY <1>3, <1>6 DEF Alone, SameBoss
  <2>2. BossInv(u)'
    BY <1>2, <1>3, <2>1, BossFrame DEF RegionInv
  <2>3. (bars[Boss(u)][u] <= team[u].bars)'
    BY <1>2, <1>3, <2>1 DEF RegionInv, SameBoss
  <2>4. ASSUME NEW i \in 1 .. Size(u) - 1 PROVE Handshake(u, i)'
    <3>1. CASE Proc(u, i) # c
      BY <1>3, <1>4, <2>1, <3>1, HandshakeFrame
    <3>2. CASE Proc(u, i) = c
      <4>1. curr[Proc(u, i)] # u /\ curr'[Proc(u, i)] # u /\ bars'[c][u] = bars[c][u]
        BY <1>1, <1>3, <3>2
      <4>2. \A b : Busy(Proc(u, i), u, b) => Busy(Proc(u, i), u, b)'
        BY <1>3, <1>4, <3>2, <4>1 DEF Busy, SameFlags
      <4>3. QED
        BY <1>3, <1>4, <2>1, <4>1, <4>2, SlaveMoves
    <3>3. QED
      BY <3>1, <3>2
  <2>5. QED
    BY <1>3, <2>2, <2>3, <2>4 DEF Works
<1>7. QED
  BY <1>5, <1>6

-----------------------------------------------------------------------------
(* The steps of the slaves. *)

\* A slave that is not gathered is busy, after as many barriers as its master allows.
LEMMA BusySlave ==
  ASSUME TeamInv, NEW t \in Regions, NEW i \in 1 .. Size(t) - 1, ~Gathered(Proc(t, i))
  PROVE  ~Pending(t) /\ \E b \in 0 .. team[t].bars : Busy(Proc(t, i), t, b)
<1>1. TypeOK /\ ShapeInv(t) /\ BossInv(t) /\ bars[Boss(t)][t] <= team[t].bars /\ Handshake(t, i)
  BY DEF TeamInv, RegionInv
<1>2. PICK m : m = Boss(t)
  OBVIOUS
<1>3. m \in Cores /\ t \in TeamIds /\ team[t].bars \in 0 .. MaxBars /\ bars[m][t] \in 0 .. MaxBars
  <2>1. m \in Cores /\ t \in TeamIds /\ team[t] \in Descriptors
    BY <1>1, <1>2, RegionFacts
  <2>2. QED
    BY <1>1, <2>1 DEF TypeOK, Descriptors
<1>4. ~Docked(Proc(t, i), t) /\ ~InBarrier(Proc(t, i), t)
  BY DEF Docked, InBarrier
<1>5. ~Pending(t)
  BY <1>1, <1>4 DEF Handshake
<1>6. CASE Inside(t)
  BY <1>1, <1>2, <1>3, <1>5, <1>6, ConstantsAssumption DEF Handshake
<1>7. CASE ~Inside(t)
  <2>1. /\ curr[m] = t /\ pc[m] \in {"wait", "release", "endlock", "endfree"}
        /\ pc[m] = "wait" => ret[m] \in {"barrier", "end"}
        /\ pc[m] = "release" => ret[m] \in {"start", "barrier"}
        /\ pc[m] \in {"wait", "release"} /\ ret[m] = "barrier" => bars[m][t] < team[t].bars
    BY <1>1, <1>2, <1>5, <1>7 DEF Inside, BossInv
  <2>2. ~Ending(t)
    BY <1>1, <1>4 DEF Handshake
  <2>3. \/ At(t, "wait", "barrier") \/ At(t, "wait", "end") \/ At(t, "release", "start")
        \/ At(t, "release", "barrier") /\ bars[m][t] < team[t].bars
    BY <1>2, <2>1, <2>2 DEF At, Ending
  <2>4. Busy(Proc(t, i), t, bars[m][t]) \/ (Busy(Proc(t, i), t, bars[m][t] + 1) /\ bars[m][t] < team[t].bars)
    BY <1>1, <1>2, <1>4, <2>3 DEF Handshake
  <2>5. QED
    BY <1>1, <1>2, <1>3, <1>5, <2>4, ConstantsAssumption
<1>8. QED
  BY <1>6, <1>7

\* The root region does not depend on the slaves.
LEMMA RootFrame ==
  ASSUME TeamInv, NEW c \in Slaves, Alone(c)
  PROVE  RootInv' /\ pc'[MASTER_ID] = pc[MASTER_ID] /\ ret'[MASTER_ID] = ret[MASTER_ID] /\ k'[MASTER_ID] = k[MASTER_ID]
<1>1. MASTER_ID \in Cores \ {c}
  BY ConstantsAssumption DEF Slaves, Cores, MASTER_ID
<1>2. /\ pc'[MASTER_ID] = pc[MASTER_ID] /\ ret'[MASTER_ID] = ret[MASTER_ID] /\ k'[MASTER_ID] = k[MASTER_ID]
      /\ nthr'[MASTER_ID] = nthr[MASTER_ID]
  BY <1>1 DEF Alone
<1>3. UNCHANGED <<curr, team, nteams, new, open>>
  BY DEF Alone
<1>4. QED
  BY <1>2, <1>3 DEF TeamInv, RootInv, Boot, Exit

\* Where a slave can be in its region, but for the regions it opens.
AtWork == {"enter", "spin", "run", "dispatch"}

\* A slave works in its region, calls a barrier or docks.
LEMMA SlaveInRegion ==
  ASSUME TeamInv, NEW c \in Cores, Alone(c), TypeOK', UNCHANGED <<lock, idle, pool>>, k'[c] = k[c],
         curr[c] \in Entered(c), curr[c] \in Regions, c # Boss(curr[c]),
         pc[c] \in AtWork, pc'[c] \in AtWork, ~Gathered(c), \A d \in Cores \ {c} : SameFlags(d),
         \A t \in TeamIds : bars'[c][t] # bars[c][t] => t = curr[c],
         \A b : Busy(c, curr[c], b) => Busy(c, curr[c], b)'
  PROVE  TeamInv'
<1>1. PICK i \in 1 .. Size(curr[c]) - 1 : c = Proc(curr[c], i)
  BY EnteredFacts DEF Regions
<1>2. ShapeInv(curr[c]) /\ TypeOK
  BY DEF TeamInv, RegionInv
<1>3. c \in Slaves /\ curr[c] <= nteams
  BY <1>1, <1>2, RegionFacts DEF ShapeInv
<1>4. ~Pending(curr[c])
  BY <1>1, BusySlave
<1>5. LockInv' /\ PoolInv' /\ FreshInv'
  <2>1. pc[c] \notin Holding \cup {"lock"} /\ pc'[c] \notin Holding \cup {"lock"}
    BY DEF AtWork, Holding
  <2>2. \A t \in TeamIds : bars'[c][t] # bars[c][t] => t <= nteams /\ ~(t \in Regions /\ Pending(t))
    BY <1>3, <1>4
  <2>3. QED
    BY <2>1, <2>2, QuietGlobals
<1>6. /\ RootInv'
      /\ pc'[MASTER_ID] = pc[MASTER_ID] /\ ret'[MASTER_ID] = ret[MASTER_ID] /\ k'[MASTER_ID] = k[MASTER_ID]
  BY <1>3, RootFrame
<1>7. Entered(c)' = Entered(c) /\ curr' = curr /\ \A d \in Cores : Entered(d)' = Entered(d)
  BY AloneFrame DEF Alone
<1>8. CoreInv(c)'
  <2>1. CoreInv(c)
    BY DEF TeamInv
  <2>2. (\A t : Boss(t)' = Boss(t)) /\ Regions' = Regions
    BY AloneFrame
  <2>3. QED
    BY <1>7, <2>1, <2>2 DEF CoreInv, AtWork, Opening, Starting, Closing
<1>9. \A t \in Regions : Works(t)'
  <2>1. pc[c] \notin Starting \cup Closing
    BY DEF AtWork, Starting, Closing
  <2>2. QED
    BY <2>1, SlaveStep
<1>10. ASSUME NEW s \in Slaves PROVE IdleInv(s)'
  <2>1. IdleInv(s) /\ s \in Cores
    BY DEF TeamInv, Slaves
  <2>2. Entered(s) = {} => s # c
    OBVIOUS
  <2>3. Entered(s) = {} => pc'[s] = pc[s] /\ ret'[s] = ret[s] /\ g'[s] = g[s] /\ SameFlags(s)
    BY <2>1, <2>2 DEF Alone
  <2>4. QED
    BY <1>6, <1>7, <2>1, <2>3, IdleFrame
<1>11. QED
  BY <1>5, <1>6, <1>8, <1>9, <1>10, AloneInv

\* A slave arrives at boot, or leaves at exit, when there is no region.
LEMMA SlaveOutside ==
  ASSUME TeamInv, NEW c \in Slaves, Alone(c), TypeOK', UNCHANGED <<lock, idle, pool, bars>>, k'[c] = k[c],
         Entered(c) = {}, Regions = {}, \A d \in Cores \ {c} : SameFlags(d),
         pc[c] \in AtWork \ {"run"}, pc'[c] \in (AtWork \ {"run"}) \cup {"stopped"},
         IdleInv(c)'
  PROVE  TeamInv'
<1>1. c \in Cores
  BY DEF Slaves
<1>2. LockInv' /\ PoolInv' /\ FreshInv'
  <2>1. pc[c] \notin Holding \cup {"lock"} /\ pc'[c] \notin Holding \cup {"lock"}
    BY DEF AtWork, Holding
  <2>2. QED
    BY <1>1, <2>1, QuietGlobals
<1>3. /\ RootInv'
      /\ pc'[MASTER_ID] = pc[MASTER_ID] /\ ret'[MASTER_ID] = ret[MASTER_ID] /\ k'[MASTER_ID] = k[MASTER_ID]
  BY RootFrame
<1>4. curr' = curr /\ \A d \in Cores : Entered(d)' = Entered(d)
  BY <1>1, AloneFrame DEF Alone
<1>5. CoreInv(c)'
  BY <1>1, <1>4 DEF TeamInv, CoreInv, AtWork, Opening, Starting, Closing
<1>6. ASSUME NEW s \in Slaves, s # c PROVE IdleInv(s)'
  <2>1. IdleInv(s) /\ s \in Cores
    BY DEF TeamInv, Slaves
  <2>2. pc'[s] = pc[s] /\ ret'[s] = ret[s] /\ g'[s] = g[s] /\ SameFlags(s)
    BY <1>6, <2>1 DEF Alone
  <2>3. QED
    BY <1>3, <1>4, <2>1, <2>2, IdleFrame
<1>7. QED
  BY <1>1, <1>2, <1>3, <1>5, <1>6, AloneInv

\* MSGBarrier_SlaveEnter: the slave arrives.
LEMMA SlaveEnterInv == ASSUME TeamInv, FlagsDisjoint, NEW c \in Cores, SlaveEnter(c) PROVE TeamInv'
<1> USE DEF SlaveEnter, globals, locals, Goto
<1>0. TypeOK /\ c \in Slaves
  BY SlaveAt DEF TeamInv
<1>1. /\ pc \in [Cores -> Labels] /\ g \in [Cores -> 0 .. FlagMod - 1]
      /\ masterFlag \in [Cores -> {0, 1}] /\ slaveFlag \in [Cores -> 0 .. FlagMod - 1]
      /\ g' = [g EXCEPT ![c] = slaveFlag[c]] /\ masterFlag' = [masterFlag EXCEPT ![c] = 1] /\ slaveFlag' = slaveFlag
      /\ mem' \in [Words -> 0 .. FlagMod - 1] /\ masterFlag' \in [Cores -> {0, 1}]
  BY <1>0, FlagReads, MasterWrite DEF TypeOK
<1>2. /\ pc'[c] = "spin" /\ g'[c] = slaveFlag[c] /\ masterFlag'[c] = 1 /\ slaveFlag'[c] = slaveFlag[c]
      /\ pc[c] = "enter" /\ ret'[c] = ret[c] /\ k'[c] = k[c] /\ curr'[c] = curr[c]
      /\ \A d \in Cores \ {c} : pc'[d] = pc[d] /\ g'[d] = g[d] /\ SameFlags(d)
  BY <1>1 DEF SameFlags
<1>3. Alone(c)
  BY <1>2 DEF Alone, Starting
<1>4. TypeOK'
  BY <1>1 DEF TeamInv, TypeOK, Labels
<1>5. Arriving(c)'
  BY <1>2 DEF Arriving
<1>6. c \in Slaves /\ UNCHANGED <<lock, idle, pool, bars>> /\ pc[c] \in AtWork \ {"run"} /\ pc'[c] \in AtWork \ {"run"}
  BY <1>2, SlaveAt DEF AtWork
<1>7. CASE Entered(c) # {}
  <2>1. curr[c] \in Regions /\ curr[c] \in Entered(c) /\ c # Boss(curr[c])
    BY <1>2, <1>7, SlaveAt
  <2>2. ~Gathered(c)
    BY <1>2 DEF Gathered
  <2>3. ASSUME NEW b, Busy(c, curr[c], b) PROVE Busy(c, curr[c], b)'
    BY <1>2, <1>5, <2>3 DEF Busy, Released, Opening, Starting
  <2>4. QED
    BY <1>2, <1>3, <1>4, <1>6, <2>1, <2>2, <2>3, SlaveInRegion
<1>8. CASE Entered(c) = {}
  <2>1. IdleInv(c)
    BY <1>6 DEF TeamInv
  <2>2. (pc[MASTER_ID] = "initenv" \/ (Boot /\ c >= k[MASTER_ID])) /\ ret[c] = "dock"
    BY <1>2, <1>8, <2>1 DEF IdleInv, Gathered, Released
  <2>3. Regions = {}
    BY <2>2 DEF TeamInv, RootInv, Regions
  <2>4. IdleInv(c)'
    <3>1. pc'[MASTER_ID] = pc[MASTER_ID] /\ ret'[MASTER_ID] = ret[MASTER_ID] /\ k'[MASTER_ID] = k[MASTER_ID]
      BY <1>3, <1>6, RootFrame
    <3>2. QED
      BY <1>2, <1>5, <2>1, <2>2, <3>1 DEF IdleInv, Boot, Exit
  <2>5. QED
    BY <1>2, <1>3, <1>4, <1>6, <1>8, <2>3, <2>4, SlaveOutside
<1>9. QED
  BY <1>7, <1>8

\* A slave sees its exit count change.
LEMMA SlaveExitInv == ASSUME TeamInv, NEW c \in Cores, SlaveExit(c) PROVE TeamInv'
<1> USE FlagsKept DEF SlaveExit, globals, locals, Goto
<1>0. mem[SLAVE_FLAG(c)] = slaveFlag[c]
  BY FlagReads DEF TeamInv
<1> USE <1>0
<1>1. pc \in [Cores -> Labels] /\ bars \in [Cores -> [TeamIds -> 0 .. MaxBars]] /\ curr \in [Cores -> 0 .. MaxTeams + 1]
  BY DEF TeamInv, TypeOK
<1>2. /\ pc[c] = "spin" /\ g[c] # slaveFlag[c] /\ ~Gathered(c)
      /\ ret'[c] = ret[c] /\ k'[c] = k[c] /\ curr'[c] = curr[c] /\ g' = g
      /\ \A d \in Cores : SameFlags(d)
      /\ \A d \in Cores \ {c} : pc'[d] = pc[d] /\ bars'[d] = bars[d]
      /\ \/ ret[c] = "dock" /\ pc'[c] = "dispatch" /\ bars' = bars
         \/ ret[c] = "barrier" /\ pc'[c] = "run" /\ PassBarrier(c)
  BY <1>1 DEF SameFlags, PassBarrier, Gathered
<1>3. Alone(c)
  BY <1>2 DEF Alone, Starting
<1>4. c \in Slaves /\ UNCHANGED <<lock, idle, pool>> /\ pc[c] \in AtWork \ {"run"} /\ pc'[c] \in AtWork
  BY <1>2, SlaveAt DEF AtWork
<1>5. CASE Entered(c) # {}
  <2>1. PICK t : t = curr[c]
    OBVIOUS
  <2>2. t \in Regions /\ t \in Entered(c) /\ c # Boss(t) /\ \E i \in 1 .. Size(t) - 1 : c = Proc(t, i)
    BY <1>2, <1>5, <2>1, SlaveAt
  <2>3. PICK b \in 0 .. team[t].bars : Busy(c, t, b)
    BY <1>2, <2>2, BusySlave
  <2>4. t \in TeamIds /\ team[t].bars \in 0 .. MaxBars
    BY <2>2 DEF Regions, TeamInv, TypeOK, Descriptors
  <2>5. bars[c] \in [TeamIds -> 0 .. MaxBars] /\ bars[c][t] \in 0 .. MaxBars
    BY <1>1, <2>4
  <2>6. ret[c] = "barrier" => /\ bars[c][t] + 1 = b /\ bars'[c][t] = bars[c][t] + 1
                              /\ bars' = [bars EXCEPT ![c] = [bars[c] EXCEPT ![t] = bars[c][t] + 1]]
    <3>1. ret[c] = "barrier" => bars[c][t] + 1 = b
      BY <1>2, <2>1, <2>3 DEF Busy, Arriving, Opening, Starting
    <3>2. ret[c] = "barrier" => bars' = [bars EXCEPT ![c] = [bars[c] EXCEPT ![t] = bars[c][t] + 1]]
      BY <1>2, <2>1 DEF PassBarrier
    <3>3. QED
      BY <1>1, <2>4, <2>5, <3>1, <3>2
  <2>7. bars' \in [Cores -> [TeamIds -> 0 .. MaxBars]]
    <3>1. ret[c] = "barrier" => bars[c][t] + 1 \in 0 .. MaxBars
      BY <2>3, <2>4, <2>5, <2>6, ConstantsAssumption
    <3>2. CASE ret[c] = "dock"
      BY <1>1, <1>2, <3>2
    <3>3. CASE ret[c] = "barrier"
      <4>1. [bars[c] EXCEPT ![t] = bars[c][t] + 1] \in [TeamIds -> 0 .. MaxBars]
        BY <2>4, <2>5, <3>1, <3>3
      <4>2. QED
        BY <1>1, <2>6, <3>3, <4>1
    <3>4. QED
      BY <1>2, <3>2, <3>3
  <2>8. TypeOK'
    <3>1. pc' \in [Cores -> Labels]
      BY <1>1 DEF Labels
    <3>2. QED
      BY <2>7, <3>1 DEF TeamInv, TypeOK
  <2>9. \A u \in TeamIds : bars'[c][u] # bars[c][u] => u = t
    BY <1>1, <1>2, <2>4, <2>5, <2>6
  <2>10. ASSUME NEW x, Busy(c, t, x) PROVE Busy(c, t, x)'
    <3>1. /\ masterFlag'[c] = masterFlag[c] /\ curr'[c] = t /\ masterFlag[c] = 0
          /\ (ret[c] = "dock" /\ bars[c][t] = x) \/ (ret[c] = "barrier" /\ bars[c][t] + 1 = x)
      BY <1>2, <2>1, <2>10 DEF Busy, Arriving, Released, Opening, Starting, SameFlags
    <3>2. bars'[c][t] = x
      BY <1>2, <2>6, <3>1
    <3>3. QED
      BY <1>2, <3>1, <3>2 DEF Busy
  <2>11. \A x : Busy(c, curr[c], x) => Busy(c, curr[c], x)'
    <3> SUFFICES ASSUME NEW x, Busy(c, curr[c], x) PROVE Busy(c, curr[c], x)'
      OBVIOUS
    <3>1. Busy(c, t, x)'
      BY <2>1, <2>10
    <3>2. QED
      BY <1>2, <2>1, <3>1 DEF Busy
  <2>12. QED
    BY <1>2, <1>3, <1>4, <2>1, <2>2, <2>8, <2>9, <2>11, SlaveInRegion
<1>6. CASE Entered(c) = {}
  <2>1. IdleInv(c)
    BY <1>4 DEF TeamInv
  <2>2. Exit /\ (c < k[MASTER_ID] \/ pc[MASTER_ID] = "stopped") /\ ret[c] = "dock" /\ ~Boot /\ pc[MASTER_ID] # "initenv"
    BY <1>2, <1>6, <2>1 DEF IdleInv, Arriving, Boot, Exit, TeamInv, RootInv
  <2>3. Regions = {}
    BY <2>2 DEF TeamInv, RootInv, Regions
  <2>4. pc'[c] = "dispatch" /\ bars' = bars
    BY <1>2, <2>2
  <2>5. IdleInv(c)'
    <3>1. pc'[MASTER_ID] = pc[MASTER_ID] /\ ret'[MASTER_ID] = ret[MASTER_ID] /\ k'[MASTER_ID] = k[MASTER_ID]
      BY <1>3, <1>4, RootFrame
    <3>2. QED
      BY <1>2, <2>1, <2>2, <2>4, <3>1 DEF IdleInv, Boot, Exit
  <2>6. TypeOK'
    BY <1>1, <2>4 DEF TeamInv, TypeOK, Labels
  <2>7. QED
    BY <1>2, <1>3, <1>4, <1>6, <2>3, <2>4, <2>5, <2>6, SlaveOutside DEF AtWork
<1>7. QED
  BY <1>5, <1>6

\* A released slave runs its function, or leaves the loop of omp_SPMD_worker.
LEMMA DispatchInv == ASSUME TeamInv, NEW c \in Cores, Dispatch(c) PROVE TeamInv'
<1> USE FlagsKept DEF Dispatch, globals, locals, Goto
<1>1. pc \in [Cores -> Labels]
  BY DEF TeamInv, TypeOK
<1>2. /\ pc[c] = "dispatch" /\ pc'[c] = (IF curr[c] = OMP_SLAVE_EXIT THEN "stopped" ELSE "run") /\ ~Gathered(c)
      /\ ret'[c] = ret[c] /\ k'[c] = k[c] /\ curr'[c] = curr[c] /\ bars' = bars
      /\ \A d \in Cores : SameFlags(d)
      /\ \A d \in Cores \ {c} : pc'[d] = pc[d]
  BY <1>1 DEF SameFlags, Gathered
<1>3. Alone(c)
  BY <1>2 DEF Alone, Starting
<1>4. c \in Slaves /\ UNCHANGED <<lock, idle, pool>> /\ pc[c] \in AtWork \ {"run"}
  BY <1>2, SlaveAt DEF AtWork
<1>5. TypeOK'
  BY <1>1 DEF TeamInv, TypeOK, Labels
<1>6. CASE Entered(c) # {}
  <2>1. curr[c] \in Regions /\ curr[c] \in Entered(c) /\ c # Boss(curr[c])
    BY <1>2, <1>6, SlaveAt
  <2>2. curr[c] # OMP_SLAVE_EXIT
    BY <2>1, ConstantsAssumption DEF Regions, TeamInv, TypeOK, TeamIds, OMP_SLAVE_EXIT
  <2>3. pc'[c] = "run" /\ pc'[c] \in AtWork
    BY <1>2, <2>2 DEF AtWork
  <2>4. ASSUME NEW b, Busy(c, curr[c], b) PROVE Busy(c, curr[c], b)'
    <3>1. masterFlag[c] = 0 /\ bars[c][curr[c]] = b
      BY <1>2, <2>4 DEF Busy, Arriving, Released
    <3>2. QED
      BY <1>2, <2>3, <3>1 DEF Busy, SameFlags
  <2>5. QED
    BY <1>2, <1>3, <1>4, <1>5, <2>1, <2>3, <2>4, SlaveInRegion
<1>7. CASE Entered(c) = {}
  <2>1. IdleInv(c)
    BY <1>4 DEF TeamInv
  <2>2. Exit /\ (c < k[MASTER_ID] \/ pc[MASTER_ID] = "stopped") /\ ~Boot /\ pc[MASTER_ID] # "initenv"
    BY <1>2, <1>7, <2>1 DEF IdleInv, Arriving, Gathered, Boot, Exit, TeamInv, RootInv
  <2>3. Regions = {} /\ curr[c] = OMP_SLAVE_EXIT
    BY <2>1, <2>2 DEF TeamInv, RootInv, Regions, IdleInv
  <2>4. pc'[c] = "stopped"
    BY <1>2, <2>3
  <2>5. IdleInv(c)'
    <3>1. pc'[MASTER_ID] = pc[MASTER_ID] /\ ret'[MASTER_ID] = ret[MASTER_ID] /\ k'[MASTER_ID] = k[MASTER_ID]
      BY <1>3, <1>4, RootFrame
    <3>2. QED
      BY <1>2, <2>1, <2>2, <2>4, <3>1 DEF IdleInv, Boot, Exit
  <2>6. QED
    BY <1>2, <1>3, <1>4, <1>5, <1>7, <2>3, <2>4, <2>5, SlaveOutside
<1>8. QED
  BY <1>6, <1>7

\* A core that runs is in the root region, as its master, or in a region it entered.
LEMMA RunAt ==
  ASSUME TeamInv, NEW c \in Cores, pc[c] \in {"run"} \cup Opening
  PROVE  /\ curr[c] \in Entered(c) /\ \A u \in Entered(c) : u <= curr[c]
         /\ \/ curr[c] = ROOT /\ c = MASTER_ID /\ team[ROOT] = RootTeam /\ IsMaster(c) /\ ROOT \in open
            \/ curr[c] \in Regions
         /\ pc[MASTER_ID] # "initenv"
<1>1. curr[c] \in Entered(c) /\ \A u \in Entered(c) : u <= curr[c]
  BY DEF TeamInv, CoreInv, Closing, Opening, Starting
<1>2. curr[c] \in open /\ (curr[c] = ROOT => c = MASTER_ID) /\ (curr[c] # ROOT => curr[c] \in Regions)
  BY <1>1, EnteredFacts
<1>3. pc[MASTER_ID] # "initenv" /\ team[ROOT] = RootTeam /\ ROOT \in open
  BY <1>2 DEF TeamInv, RootInv
<1>4. curr[c] = ROOT => IsMaster(c)
  <2>1. Proc(ROOT, 0) = MASTER_ID
    BY <1>3, ConstantsAssumption DEF Proc, RootTeam, MASTER_ID
  <2>2. QED
    BY <1>2, <2>1 DEF IsMaster
<1>5. QED
  BY <1>1, <1>2, <1>3, <1>4

\* A slave that runs its function is between two barriers.
LEMMA SlaveCalls ==
  ASSUME TeamInv, NEW c \in Cores, pc[c] = "run", ~IsMaster(c), UNCHANGED <<globals, mem, k, g, bars, new>>,
         Goto(c, "enter"), NEW from \in {"barrier", "dock"}, ret' = [ret EXCEPT ![c] = from],
         nthr' \in [Cores -> 0 .. N], \A d \in Cores \ {c} : nthr'[d] = nthr[d],
         IF from = "barrier" THEN bars[c][curr[c]] < Mine(c).bars ELSE bars[c][curr[c]] = Mine(c).bars
  PROVE  TeamInv'
<1> USE FlagsKept DEF globals, locals, Goto
<1>1. pc \in [Cores -> Labels] /\ ret \in [Cores -> {"dock", "barrier", "boot", "end", "start", "exit"}]
  BY DEF TeamInv, TypeOK
<1>2. /\ pc'[c] = "enter" /\ ret'[c] = from /\ k'[c] = k[c] /\ curr'[c] = curr[c] /\ ~Gathered(c)
      /\ \A d \in Cores : SameFlags(d)
      /\ \A d \in Cores \ {c} : pc'[d] = pc[d] /\ ret'[d] = ret[d]
  BY <1>1 DEF SameFlags, Gathered
<1>3. Alone(c)
  BY <1>2 DEF Alone, Starting
<1>4. TypeOK'
  <2>1. pc' \in [Cores -> Labels] /\ ret' \in [Cores -> {"dock", "barrier", "boot", "end", "start", "exit"}]
    BY <1>1 DEF Labels
  <2>2. QED
    BY <2>1 DEF TeamInv, TypeOK
<1>5. curr[c] \in Regions /\ curr[c] \in Entered(c) /\ c # Boss(curr[c])
  BY RunAt DEF IsMaster, Boss
<1>6. ASSUME NEW b, Busy(c, curr[c], b) PROVE Busy(c, curr[c], b)'
  <2>1. masterFlag[c] = 0 /\ bars[c][curr[c]] = b
    BY <1>2, <1>6 DEF Busy, Arriving, Released
  <2>2. Arriving(c)'
    BY <1>2, <2>1 DEF Arriving, SameFlags
  <2>3. QED
    BY <1>2, <2>1, <2>2 DEF Busy, Mine
<1>7. pc[c] \in AtWork /\ pc'[c] \in AtWork
  BY <1>2 DEF AtWork
<1>8. QED
  BY <1>2, <1>3, <1>4, <1>5, <1>6, <1>7, SlaveInRegion

\* The parallel function returns.
LEMMA TaskReturnInv == ASSUME TeamInv, NEW c \in Cores, TaskReturn(c) PROVE TeamInv'
  BY SlaveCalls DEF TaskReturn, TeamInv, TypeOK

-----------------------------------------------------------------------------
(* The steps of gomp_team_start and gomp_team_end that leave the teams alone. *)

\* Core c stays between team start and team end, or inside one of them.
LEMMA StillMove ==
  ASSUME TeamInv, NEW c \in Cores, Alone(c), UNCHANGED <<mem, ret, k, g, bars>>,
         \/ pc[c] \in {"run"} \cup Opening /\ pc'[c] \in {"run"} \cup Opening
         \/ pc[c] \in Closing /\ pc'[c] \in Closing
  PROVE  RootInv' /\ CoreInv(c)' /\ (\A t \in Regions : Works(t)') /\ (\A s \in Slaves : IdleInv(s)')
<1> USE FlagsKept
<1>0. CoreInv(c) /\ RootInv /\ TypeOK
  BY DEF TeamInv
<1>1. /\ \A d \in Cores : Entered(d)' = Entered(d) /\ SameFlags(d)
      /\ \A d \in Cores \ {c} : pc'[d] = pc[d] /\ nthr'[d] = nthr[d]
      /\ curr' = curr /\ new' = new /\ team' = team /\ open' = open /\ nteams' = nteams /\ Regions' = Regions
      /\ \A t : Boss(t)' = Boss(t) /\ Size(t)' = Size(t)
      /\ \A t, i : Proc(t, i)' = Proc(t, i)
      /\ \A t \in Regions : Pending(t)' <=> Pending(t)
  BY AloneFrame DEF Alone, SameFlags
<1>2. curr[c] \in open => pc[c] \in {"run"} \cup Opening /\ pc'[c] \in {"run"} \cup Opening
  BY <1>0 DEF CoreInv
<1>3. CoreInv(c)'
  <2>1. pc[c] \in Starting <=> pc'[c] \in Starting
    BY DEF Alone
  <2>2. QED
    BY <1>0, <1>1, <2>1 DEF CoreInv, Opening, Starting, Closing
<1>4. RootInv'
  <2>1. CASE c # MASTER_ID
    BY <2>1, RootFrame DEF Slaves
  <2>2. CASE c = MASTER_ID
    <3>1. pc[c] # "initenv" /\ pc'[c] \notin {"initenv", "enter", "spin", "dispatch", "wait", "release", "stopped"}
      BY DEF Opening, Starting, Closing
    <3>2. ROOT \in open
      BY <1>0, <2>2, <3>1 DEF RootInv
    <3>3. pc[c] \notin {"release", "stopped", "wait"}
      BY DEF Opening, Starting, Closing
    <3>4. QED
      BY <1>0, <1>1, <1>2, <2>2, <3>1, <3>2, <3>3 DEF RootInv, Boot, Exit
  <2>3. QED
    BY <2>1, <2>2
<1>5. ASSUME NEW t \in Regions PROVE Works(t)'
  <2>1. ShapeInv(t) /\ BossInv(t) /\ bars[Boss(t)][t] <= team[t].bars /\ \A i \in 1 .. Size(t) - 1 : Handshake(t, i)
    BY DEF TeamInv, RegionInv
  <2>2. PICK m \in Cores : m = Boss(t)
    BY <1>0, <2>1, RegionFacts
  <2>3. t \in open
    BY DEF Regions
  <2>4. m = c /\ curr[c] = t => pc[c] \in {"run"} \cup Opening /\ pc'[c] \in {"run"} \cup Opening
    BY <1>2, <2>3
  <2>5. BossInv(t)'
    <3>1. CASE m = c
      BY <1>1, <2>1, <2>2, <2>4, <3>1 DEF BossInv, Opening, Starting
    <3>2. CASE m # c
      BY <1>1, <2>1, <2>2, <3>2, BossFrame DEF SameBoss
    <3>3. QED
      BY <3>1, <3>2
  <2>6. (bars[Boss(t)][t] <= team[t].bars)'
    BY <1>1, <2>1
  <2>7. ASSUME NEW i \in 1 .. Size(t) - 1 PROVE Handshake(t, i)'
    <3>1. PICK s \in Cores : s = Proc(t, i)
      BY <1>0, <2>1, RegionFacts
    <3>2. Handshake(t, i)
      BY <2>1
    <3>3. s = c /\ curr[s] = t => pc[s] \in {"run"} \cup Opening /\ pc'[s] \in {"run"} \cup Opening
      BY <1>2, <2>3
    <3>4. /\ Docked(s, t)' <=> Docked(s, t)
          /\ InBarrier(s, t)' <=> InBarrier(s, t)
          /\ \A b : Busy(s, t, b)' <=> Busy(s, t, b)
      <4>1. CASE s # c
        BY <1>1, <4>1, SlaveFrame DEF SameSlave
      <4>2. CASE s = c
        <5>1. pc[s] \notin {"enter", "spin"} /\ pc'[s] \notin {"enter", "spin"}
          BY <4>2 DEF Opening, Starting, Closing
        <5>2. ~Arriving(s) /\ ~Gathered(s) /\ ~Released(s) /\ ~Arriving(s)' /\ ~Gathered(s)' /\ ~Released(s)'
          BY <5>1 DEF Arriving, Gathered, Released
        <5>3. QED
          BY <1>1, <3>3, <4>2, <5>2 DEF Docked, InBarrier, Busy, SameFlags
      <4>3. QED
        BY <4>1, <4>2
    <3>5. /\ Pending(t)' <=> Pending(t)
          /\ Inside(t)' <=> Inside(t)
          /\ Ending(t)' <=> Ending(t)
          /\ At(t, "release", "start")' <=> At(t, "release", "start")
          /\ At(t, "wait", "barrier")' <=> At(t, "wait", "barrier")
          /\ At(t, "release", "barrier")' <=> At(t, "release", "barrier")
          /\ At(t, "wait", "end")' <=> At(t, "wait", "end")
      <4>1. CASE m = c
        <5>1. pc[c] \notin {"wait", "release", "endlock", "endfree"} /\ pc'[c] \notin {"wait", "release", "endlock", "endfree"}
          BY DEF Opening, Starting, Closing
        <5>2. QED
          BY <1>1, <2>2, <2>4, <4>1, <5>1 DEF Inside, Ending, At
      <4>2. CASE m # c
        BY <1>1, <2>2, <4>2 DEF Inside, Ending, At
      <4>3. QED
        BY <4>1, <4>2
    <3>6. Proc(t, i)' = s /\ Boss(t)' = m /\ bars' = bars /\ k' = k
      BY <1>1, <2>2, <3>1
    <3>7. QED
      BY <2>2, <3>1, <3>2, <3>4, <3>5, <3>6 DEF Handshake
  <2>8. QED
    BY <1>1, <2>5, <2>6, <2>7 DEF Works
<1>6. ASSUME NEW s \in Slaves PROVE IdleInv(s)'
  <2>1. IdleInv(s) /\ s \in Cores
    BY DEF TeamInv, Slaves
  <2>2. CoreInv(s)
    BY <2>1 DEF TeamInv
  <2>3. pc[c] \in Closing => Entered(c) # {}
    BY <1>0 DEF CoreInv
  <2>4. Entered(c) # {}
    BY <1>0, <2>3 DEF CoreInv
  <2>5. Entered(s) = {} => pc'[s] = pc[s] /\ ret'[s] = ret[s] /\ g'[s] = g[s] /\ SameFlags(s)
    BY <1>1, <2>1, <2>4
  <2>6. \/ Normal /\ Normal'
        \/ pc'[MASTER_ID] = pc[MASTER_ID] /\ ret'[MASTER_ID] = ret[MASTER_ID] /\ k'[MASTER_ID] = k[MASTER_ID]
    <3>1. CASE c # MASTER_ID
      BY <3>1, RootFrame DEF Slaves
    <3>2. CASE c = MASTER_ID
      <4>1. pc[c] \notin {"initenv", "wait", "release", "stopped"} /\ pc'[c] \notin {"initenv", "wait"}
        BY DEF Opening, Starting, Closing
      <4>2. ~Exit
        BY <1>0, <3>2, <4>1 DEF RootInv
      <4>3. QED
        BY <3>2, <4>1, <4>2 DEF Normal, Boot, Exit
    <3>3. QED
      BY <3>1, <3>2
  <2>7. QED
    BY <1>1, <2>1, <2>5, <2>6, IdleFrame
<1>7. QED
  BY <1>3, <1>4, <1>5, <1>6

\* The cores that have asked for a descriptor and not got it yet.
Asking == {d \in Cores : pc[d] \in {"lock", "resolve", "take"}}

\* They are finitely many.
LEMMA AskingFinite == IsFiniteSet(Cores) /\ IsFiniteSet(Asking) /\ Cardinality(Asking) \in Nat /\ IsFiniteSet(Asking')
<1>1. IsFiniteSet(Cores)
  BY FS_Interval, ConstantsAssumption DEF Cores
<1>2. Asking \subseteq Cores /\ Asking' \subseteq Cores
  BY DEF Asking
<1>3. QED
  BY <1>1, <1>2, FS_Subset, FS_CardinalityType

\* The descriptors keep their bound and stay fresh while no barrier is passed.
LEMMA FreshFrame ==
  ASSUME TeamInv, NEW c \in Cores, Alone(c), bars' = bars, nteams + Cardinality(Asking') <= MaxTeams
  PROVE  FreshInv'
<1>1. nteams' = nteams /\ Regions' = Regions /\ \A t \in Regions : Pending(t)' <=> Pending(t)
  BY AloneFrame DEF Alone
<1>2. QED
  BY <1>1 DEF TeamInv, FreshInv, Asking

\* GOMP_parallel_start: core c asks for a region.
LEMMA ParallelStartInv == ASSUME TeamInv, NEW c \in Cores, GOMP_parallel_start(c) PROVE TeamInv'
<1> USE FlagsKept DEF GOMP_parallel_start, globals, locals, Goto
<1>1. pc \in [Cores -> Labels] /\ nthr \in [Cores -> 0 .. N]
  BY DEF TeamInv, TypeOK
<1>2. pc[c] = "run" /\ pc'[c] = "lock" /\ \A d \in Cores \ {c} : pc'[d] = pc[d] /\ nthr'[d] = nthr[d]
  BY <1>1
<1>3. Alone(c)
  BY <1>2 DEF Alone, Starting
<1>4. TypeOK'
  <2>1. pc' \in [Cores -> Labels] /\ nthr' \in [Cores -> 0 .. N]
    BY <1>1 DEF Labels
  <2>2. QED
    BY <2>1 DEF TeamInv, TypeOK
<1>5. RootInv' /\ CoreInv(c)' /\ (\A t \in Regions : Works(t)') /\ (\A s \in Slaves : IdleInv(s)')
  BY <1>2, <1>3, StillMove DEF Opening
<1>6. LockInv'
  <2>1. \A d \in Cores : pc'[d] \in Holding <=> pc[d] \in Holding
    BY <1>2 DEF Holding
  <2>2. QED
    BY <2>1, Zenon DEF TeamInv, LockInv
<1>7. PoolInv'
  <2>1. Regions' = Regions /\ \A t : SlavesOf(t)' = SlavesOf(t)
    BY <1>3, AloneFrame
  <2>2. \A d \in Cores : pc'[d] \in {"recruit", "take"} \/ pc[d] \in {"recruit", "take"} => pc'[d] = pc[d] /\ nthr'[d] = nthr[d]
    BY <1>2
  <2>3. QED
    BY <2>1, <2>2 DEF TeamInv, PoolInv
<1>8. FreshInv'
  <2>1. Asking' = Asking \cup {c} /\ c \notin Asking
    BY <1>2 DEF Asking
  <2>2. Cardinality(Asking') = Cardinality(Asking) + 1
    BY <2>1, AskingFinite, FS_AddElement
  <2>3. nteams + Cardinality(Asking) < MaxTeams /\ nteams \in Nat
    BY DEF Asking, TeamInv, TypeOK
  <2>4. nteams + Cardinality(Asking') <= MaxTeams
    BY <2>2, <2>3, AskingFinite, ConstantsAssumption
  <2>5. QED
    BY <1>3, <2>4, FreshFrame
<1>9. QED
  BY <1>3, <1>4, <1>5, <1>6, <1>7, <1>8, AloneInv

\* The global lock is taken.
LEMMA LockTaken ==
  ASSUME TeamInv, NEW c \in Cores, NEW from, NEW to \in Holding, GLOBAL_INFOS_WAIT(c, from, to),
         to # "recruit", to # "take"
  PROVE  LockInv' /\ PoolInv'
<1> USE FlagsKept DEF GLOBAL_INFOS_WAIT, globals, locals, Goto
<1>1. pc \in [Cores -> Labels] /\ lock = 0 /\ lock' = 1
  BY DEF TeamInv, TypeOK
<1>2. pc'[c] = to /\ \A d \in Cores \ {c} : pc'[d] = pc[d]
  BY <1>1
<1>3. \A d \in Cores : pc[d] \notin Holding
  BY <1>1 DEF TeamInv, LockInv
<1>4. LockInv'
  BY <1>1, <1>2, <1>3 DEF LockInv
<1>5. PoolInv'
  <2>1. \A d \in Cores : pc[d] \notin {"recruit", "take"} /\ pc'[d] \notin {"recruit", "take"}
    BY <1>2, <1>3 DEF Holding
  <2>2. \A t : SlavesOf(t)' = SlavesOf(t)
    BY DEF SlavesOf, Proc
  <2>3. Regions' = Regions
    BY DEF Regions
  <2>4. QED
    BY <2>1, <2>2, <2>3 DEF TeamInv, PoolInv
<1>6. QED
  BY <1>4, <1>5

\* The global lock is released.
LEMMA LockReleased ==
  ASSUME TeamInv, NEW c \in Cores, NEW from \in Holding, NEW to, GLOBAL_INFOS_SIGNAL(c, from, to),
         to \notin Holding, from # "recruit"
  PROVE  LockInv' /\ PoolInv'
<1> USE FlagsKept DEF GLOBAL_INFOS_SIGNAL, globals, locals, Goto
<1>1. pc \in [Cores -> Labels] /\ lock' = 0
  BY DEF TeamInv, TypeOK
<1>2. pc[c] = from /\ pc'[c] = to /\ \A d \in Cores \ {c} : pc'[d] = pc[d]
  BY <1>1
<1>3. \A d \in Cores \ {c} : pc[d] \notin Holding
  BY <1>2 DEF TeamInv, LockInv
<1>4. LockInv'
  BY <1>1, <1>2, <1>3 DEF LockInv
<1>5. PoolInv'
  <2>1. \A d \in Cores : pc[d] # "recruit" /\ pc'[d] \notin {"recruit", "take"}
    BY <1>2, <1>3 DEF Holding
  <2>2. \A t : SlavesOf(t)' = SlavesOf(t)
    BY DEF SlavesOf, Proc
  <2>3. Regions' = Regions
    BY DEF Regions
  <2>4. QED
    BY <2>1, <2>2, <2>3 DEF TeamInv, PoolInv
<1>6. QED
  BY <1>4, <1>5

\* Team start takes the lock.
LEMMA StartLockInv == ASSUME TeamInv, NEW c \in Cores, GLOBAL_INFOS_WAIT(c, "lock", "resolve") PROVE TeamInv'
<1> USE FlagsKept DEF GLOBAL_INFOS_WAIT, globals, locals, Goto
<1>1. pc \in [Cores -> Labels]
  BY DEF TeamInv, TypeOK
<1>2. pc[c] = "lock" /\ pc'[c] = "resolve" /\ \A d \in Cores \ {c} : pc'[d] = pc[d]
  BY <1>1
<1>3. Alone(c)
  BY <1>2 DEF Alone, Starting
<1>4. TypeOK'
  BY <1>1 DEF TeamInv, TypeOK, Labels
<1>5. RootInv' /\ CoreInv(c)' /\ (\A t \in Regions : Works(t)') /\ (\A s \in Slaves : IdleInv(s)')
  BY <1>2, <1>3, StillMove DEF Opening
<1>6. LockInv' /\ PoolInv'
  BY LockTaken DEF Holding
<1>7. FreshInv'
  <2>1. Asking' = Asking
    BY <1>2 DEF Asking
  <2>2. QED
    BY <1>3, <2>1, FreshFrame DEF TeamInv, FreshInv, Asking
<1>8. QED
  BY <1>3, <1>4, <1>5, <1>6, <1>7, AloneInv

\* Team start and team end release it.
LEMMA UnlockInv ==
  ASSUME TeamInv, NEW c \in Cores,
         GLOBAL_INFOS_SIGNAL(c, "unlock", "install") \/ GLOBAL_INFOS_SIGNAL(c, "endunlock", "endrestore")
  PROVE  TeamInv'
<1> USE FlagsKept DEF GLOBAL_INFOS_SIGNAL, globals, locals, Goto
<1>1. pc \in [Cores -> Labels]
  BY DEF TeamInv, TypeOK
<1>2. /\ (pc[c] = "unlock" /\ pc'[c] = "install") \/ (pc[c] = "endunlock" /\ pc'[c] = "endrestore")
      /\ \A d \in Cores \ {c} : pc'[d] = pc[d]
  BY <1>1
<1>3. Alone(c)
  BY <1>2 DEF Alone, Starting
<1>4. TypeOK'
  BY <1>1 DEF TeamInv, TypeOK, Labels
<1>5. RootInv' /\ CoreInv(c)' /\ (\A t \in Regions : Works(t)') /\ (\A s \in Slaves : IdleInv(s)')
  BY <1>2, <1>3, StillMove DEF Opening, Starting, Closing
<1>6. LockInv' /\ PoolInv'
  BY LockReleased DEF Holding
<1>7. FreshInv'
  <2>1. Asking' = Asking
    BY <1>2 DEF Asking
  <2>2. QED
    BY <1>3, <2>1, FreshFrame DEF TeamInv, FreshInv, Asking
<1>8. QED
  BY <1>3, <1>4, <1>5, <1>6, <1>7, AloneInv

\* gomp_resolve_num_threads: no more threads than there are idle cores, and the master.
LEMMA ResolveReadInv == ASSUME TeamInv, NEW c \in Cores, ResolveRead(c) PROVE TeamInv'
<1> USE FlagsKept DEF ResolveRead, globals, locals, Goto
<1>1. pc \in [Cores -> Labels] /\ nthr \in [Cores -> 0 .. N] /\ idle \in 0 .. N - 1
  BY DEF TeamInv, TypeOK
<1>2. /\ pc[c] = "resolve" /\ pc'[c] = "take" /\ \A d \in Cores \ {c} : pc'[d] = pc[d] /\ nthr'[d] = nthr[d]
      /\ nthr'[c] \in 1 .. idle + 1
  BY <1>1, ConstantsAssumption
<1>3. Alone(c)
  BY <1>2 DEF Alone, Starting
<1>4. TypeOK'
  <2>1. nthr' \in [Cores -> 0 .. N] /\ pc' \in [Cores -> Labels]
    BY <1>1, <1>2, ConstantsAssumption DEF Labels
  <2>2. QED
    BY <2>1 DEF TeamInv, TypeOK
<1>5. RootInv' /\ CoreInv(c)' /\ (\A t \in Regions : Works(t)') /\ (\A s \in Slaves : IdleInv(s)')
  BY <1>2, <1>3, StillMove DEF Opening
<1>6. LockInv'
  <2>1. \A d \in Cores : pc'[d] \in Holding <=> pc[d] \in Holding
    BY <1>2 DEF Holding
  <2>2. QED
    BY <2>1, Zenon DEF TeamInv, LockInv
<1>7. PoolInv'
  <2>1. Regions' = Regions /\ \A t : SlavesOf(t)' = SlavesOf(t)
    BY <1>3, AloneFrame
  <2>2. \A d \in Cores \ {c} : pc[d] \notin Holding
    BY <1>2 DEF TeamInv, LockInv, Holding
  <2>3. \A d \in Cores : pc[d] # "recruit" /\ pc'[d] # "recruit" /\ (pc'[d] = "take" => d = c)
    BY <1>2, <2>2 DEF Holding
  <2>4. QED
    BY <1>2, <2>1, <2>3 DEF TeamInv, PoolInv
<1>8. FreshInv'
  <2>1. Asking' = Asking
    BY <1>2 DEF Asking
  <2>2. QED
    BY <1>3, <2>1, FreshFrame DEF TeamInv, FreshInv, Asking
<1>9. QED
  BY <1>3, <1>4, <1>5, <1>6, <1>7, <1>8, AloneInv

-----------------------------------------------------------------------------
(* The steps of the masters. *)

\* The master of a region at its barrier calls.
LEMMA MasterInRegion ==
  ASSUME TeamInv, NEW c \in Cores, Alone(c), TypeOK', LockInv', PoolInv', FreshInv',
         curr[c] \in Entered(c), curr[c] \in Regions, c = Boss(curr[c]),
         pc[c] \in {"run", "wait", "release", "endlock"}, pc'[c] \in {"run", "wait", "release", "endlock", "endfree"},
         pc'[c] \notin {"wait", "release"} => k'[c] = 1,
         ~(pc'[c] = "wait" /\ ret'[c] = "boot"), c = MASTER_ID => ret'[c] # "exit",
         \A d \in Cores \ SlavesOf(curr[c]) : SameFlags(d), g'[c] = g[c],
         \A u \in Regions \ {curr[c]} : bars'[c][u] = bars[c][u],
         Works(curr[c])'
  PROVE  TeamInv'
<1>1. CoreInv(c) /\ RootInv /\ TypeOK /\ curr[c] # ROOT
  BY DEF TeamInv, Regions
<1>2. curr' = curr /\ team' = team /\ open' = open /\ nteams' = nteams /\ Regions' = Regions /\ (\A t : Boss(t)' = Boss(t))
      /\ \A d \in Cores : Entered(d)' = Entered(d)
  BY AloneFrame DEF Alone
<1>3. CoreInv(c)'
  BY <1>1, <1>2 DEF CoreInv, Opening, Starting, Closing
<1>4. pc[c] \notin Starting
  BY DEF Starting
<1>5. \A u \in Regions : Works(u)'
  BY <1>4, MasterStep
<1>6. c = MASTER_ID => Normal /\ Normal' /\ RootInv'
  <2> SUFFICES ASSUME c = MASTER_ID PROVE Normal /\ Normal' /\ RootInv'
    OBVIOUS
  <2>1. Normal
    BY <1>1 DEF Normal, RootInv
  <2>2. ~Boot' /\ ~Exit' /\ pc'[MASTER_ID] # "initenv"
    BY DEF Boot, Exit
  <2>3. QED
    BY <1>1, <1>2, <2>1, <2>2 DEF Normal, RootInv
<1>7. RootInv'
  <2>1. CASE c # MASTER_ID
    BY <2>1, RootFrame DEF Slaves
  <2>2. QED
    BY <1>6, <2>1
<1>8. ASSUME NEW s \in Slaves PROVE IdleInv(s)'
  <2>1. IdleInv(s) /\ s \in Cores
    BY DEF TeamInv, Slaves
  <2>2. Entered(s) = {} => s # c /\ s \notin SlavesOf(curr[c])
    BY SlaveEntered
  <2>3. Entered(s) = {} => pc'[s] = pc[s] /\ ret'[s] = ret[s] /\ g'[s] = g[s] /\ SameFlags(s)
    BY <2>1, <2>2 DEF Alone
  <2>4. \/ Normal /\ Normal'
        \/ pc'[MASTER_ID] = pc[MASTER_ID] /\ ret'[MASTER_ID] = ret[MASTER_ID] /\ k'[MASTER_ID] = k[MASTER_ID]
    <3>1. CASE c # MASTER_ID
      BY <3>1, RootFrame DEF Slaves
    <3>2. QED
      BY <1>6, <3>1
  <2>5. QED
    BY <1>2, <2>1, <2>3, <2>4, IdleFrame
<1>9. QED
  BY <1>3, <1>5, <1>7, <1>8, AloneInv

\* A master that does not hold the lock, nor asks for it.
LEMMA MasterQuiet ==
  ASSUME TeamInv, NEW c \in Cores, Alone(c), UNCHANGED <<lock, idle, pool>>,
         curr[c] \in Entered(c), curr[c] \in Regions, c = Boss(curr[c]),
         pc[c] \in {"run", "wait", "release", "endlock"}, pc'[c] \in {"run", "wait", "release", "endlock"},
         \A t \in TeamIds : bars'[c][t] # bars[c][t] => t = curr[c]
  PROVE  LockInv' /\ PoolInv' /\ FreshInv'
<1>1. pc[c] \notin Holding \cup {"lock"} /\ pc'[c] \notin Holding \cup {"lock"}
  BY DEF Holding
<1>2. curr[c] <= nteams
  BY DEF TeamInv, RegionInv, ShapeInv
<1>3. ~Pending(curr[c])
  BY EnteredFacts DEF Regions
<1>4. QED
  BY <1>1, <1>2, <1>3, QuietGlobals

\* The slaves of a master that leaves their flags alone.
LEMMA OwnSlaves ==
  ASSUME TeamInv, NEW c \in Cores, Alone(c), NEW t \in Regions, c = Boss(t), NEW i \in 1 .. Size(t) - 1,
         SameFlags(Proc(t, i))
  PROVE  /\ Docked(Proc(t, i), t)' <=> Docked(Proc(t, i), t)
         /\ InBarrier(Proc(t, i), t)' <=> InBarrier(Proc(t, i), t)
         /\ \A b : Busy(Proc(t, i), t, b)' <=> Busy(Proc(t, i), t, b)
         /\ bars'[Proc(t, i)][t] = bars[Proc(t, i)][t]
<1>1. PICK s : s = Proc(t, i)
  OBVIOUS
<1>2. TypeOK /\ ShapeInv(t)
  BY DEF TeamInv, RegionInv
<1>3. s \in Cores /\ s # c
  BY <1>1, <1>2, RegionFacts
<1>4. SameSlave(s, t) /\ team' = team
  BY <1>1, <1>3 DEF Alone, SameSlave
<1>5. /\ Docked(s, t)' <=> Docked(s, t)
      /\ InBarrier(s, t)' <=> InBarrier(s, t)
      /\ \A b : Busy(s, t, b)' <=> Busy(s, t, b)
      /\ bars'[s][t] = bars[s][t]
  BY <1>4, SlaveFrame DEF SameSlave
<1>6. Proc(t, i)' = s
  BY <1>1, AloneFrame
<1>7. QED
  BY <1>1, <1>5, <1>6 DEF Docked, InBarrier, Busy, Gathered, Released, Arriving

\* The master of a region begins a barrier, or the join at its end.
LEMMA MasterCalls ==
  ASSUME TeamInv, NEW c \in Cores, pc[c] = "run", IsMaster(c), curr[c] \in Regions,
         UNCHANGED <<globals, mem, k, g, bars, new>>, Goto(c, "wait"),
         NEW from \in {"barrier", "end"}, ret' = [ret EXCEPT ![c] = from],
         nthr' = [nthr EXCEPT ![c] = Mine(c).nthreads],
         IF from = "barrier" THEN bars[c][curr[c]] < Mine(c).bars ELSE bars[c][curr[c]] = Mine(c).bars
  PROVE  TeamInv'
<1> USE FlagsKept DEF globals, locals, Goto
<1>1. /\ pc \in [Cores -> Labels] /\ ret \in [Cores -> {"dock", "barrier", "boot", "end", "start", "exit"}]
      /\ nthr \in [Cores -> 0 .. N]
  BY DEF TeamInv, TypeOK
<1>2. PICK t : t = curr[c]
  OBVIOUS
<1>3. /\ TypeOK /\ ShapeInv(t) /\ BossInv(t) /\ bars[c][t] <= team[t].bars /\ c = Boss(t)
      /\ t \in Regions /\ t \in Entered(c) /\ \A i \in 1 .. Size(t) - 1 : Handshake(t, i)
  BY <1>2, RunAt DEF TeamInv, RegionInv, IsMaster, Boss
<1>4. /\ pc'[c] = "wait" /\ ret'[c] = from /\ nthr'[c] = team[t].nthreads
      /\ \A d \in Cores \ {c} : pc'[d] = pc[d] /\ ret'[d] = ret[d] /\ nthr'[d] = nthr[d]
      /\ \A d \in Cores : SameFlags(d)
  BY <1>1, <1>2 DEF SameFlags, Mine
<1>5. Alone(c)
  BY <1>4 DEF Alone, Starting
<1>6. Size(t) = team[t].nthreads /\ Size(t) \in Nat \ {0} /\ team[t] \in Descriptors
  BY <1>3, RegionFacts DEF ShapeInv
<1>7. TypeOK'
  <2>1. team[t].nthreads \in 0 .. N
    BY <1>6 DEF Descriptors
  <2>2. /\ pc' \in [Cores -> Labels] /\ ret' \in [Cores -> {"dock", "barrier", "boot", "end", "start", "exit"}]
        /\ nthr' \in [Cores -> 0 .. N]
    BY <1>1, <1>2, <2>1 DEF Labels, Mine
  <2>3. QED
    BY <2>2 DEF TeamInv, TypeOK
<1>8. k[c] = 1 /\ k'[c] = 1
  BY DEF TeamInv, CoreInv
<1>9. ~Pending(t) /\ ~Pending(t)' /\ Boss(t)' = c /\ Size(t)' = Size(t) /\ Inside(t)
  <2>1. ~Pending(t)
    BY <1>3, EnteredFacts DEF Regions
  <2>2. (Pending(t)' <=> Pending(t)) /\ Boss(t)' = Boss(t) /\ Size(t)' = Size(t)
    BY <1>3, <1>5, AloneFrame
  <2>3. Inside(t)
    BY <1>2, <1>3, <2>1 DEF Inside
  <2>4. QED
    BY <1>3, <2>1, <2>2, <2>3
<1>10. Works(t)'
  <2>1. curr'[c] = t /\ team' = team /\ bars' = bars
    BY <1>2
  <2>2. BossInv(t)'
    BY <1>2, <1>4, <1>6, <1>8, <1>9, <2>1 DEF BossInv, Mine
  <2>3. ASSUME NEW i \in 1 .. Size(t) - 1 PROVE Handshake(t, i)'
    <3>1. PICK s : s = Proc(t, i)
      OBVIOUS
    <3>2. Busy(s, t, bars[c][t])
      BY <1>3, <1>9, <3>1 DEF Handshake
    <3>3. s \in Cores /\ Proc(t, i)' = s
      BY <1>3, <1>5, <3>1, RegionFacts, AloneFrame
    <3>4. \A b : Busy(Proc(t, i), t, b)' <=> Busy(Proc(t, i), t, b)
      BY <1>3, <1>4, <1>5, <3>1, <3>3, OwnSlaves
    <3>5. PICK b : b = bars[c][t]
      OBVIOUS
    <3>6. Busy(Proc(t, i), t, b)'
      BY <3>1, <3>2, <3>4, <3>5
    <3>7. Busy(s, t, bars[c][t])'
      BY <2>1, <3>3, <3>5, <3>6 DEF Busy, Arriving, Released
    <3>8. ~Inside(t)' /\ ~Ending(t)' /\ ~At(t, "release", "start")' /\ ~At(t, "release", "barrier")' /\ ~(i < k'[c])
      BY <1>4, <1>8, <1>9, <2>1 DEF Inside, Ending, At, Opening, Starting
    <3>9. QED
      BY <1>9, <3>3, <3>7, <3>8 DEF Handshake
  <2>4. QED
    BY <1>3, <1>9, <2>1, <2>2, <2>3 DEF Works
<1>11. LockInv' /\ PoolInv' /\ FreshInv'
  BY <1>2, <1>3, <1>4, <1>5, MasterQuiet
<1>12. Works(curr[c])'
  BY <1>2, <1>10
<1>13. QED
  BY <1>2, <1>3, <1>4, <1>5, <1>7, <1>8, <1>11, <1>12, MasterInRegion

\* GOMP_barrier, called by a master or by a slave; the root region has no barrier.
LEMMA GOMP_barrierInv == ASSUME TeamInv, NEW c \in Cores, GOMP_barrier(c) PROVE TeamInv'
<1> USE DEF GOMP_barrier
<1>1. CASE IsMaster(c)
  <2>1. curr[c] # ROOT
    <3>1. bars[c][ROOT] \in Nat
      BY ConstantsAssumption DEF TeamInv, TypeOK, TeamIds, ROOT
    <3>2. curr[c] = ROOT => Mine(c).bars = 0
      <4>1. curr[c] = ROOT => team[ROOT] = RootTeam
        BY RunAt DEF Regions
      <4>2. RootTeam.bars = 0
        BY DEF RootTeam
      <4>3. QED
        BY <4>1, <4>2 DEF Mine
    <3>3. QED
      BY <3>1, <3>2
  <2>2. curr[c] \in Regions
    BY <2>1, RunAt
  <2>3. QED
    BY <1>1, <2>2, MasterCalls
<1>2. CASE ~IsMaster(c)
  <2>1. Mine(c).nthreads \in 0 .. N /\ nthr \in [Cores -> 0 .. N]
    <3>1. curr[c] \in Regions
      BY <1>2, RunAt
    <3>2. QED
      BY <3>1 DEF Regions, TeamInv, TypeOK, Descriptors, Mine
  <2>2. nthr' \in [Cores -> 0 .. N] /\ \A d \in Cores \ {c} : nthr'[d] = nthr[d]
    BY <2>1
  <2>3. QED
    BY <1>2, <2>2, SlaveCalls
<1>3. QED
  BY <1>1, <1>2

\* GOMP_parallel_end: the master begins to join.
LEMMA ParallelEndInv == ASSUME TeamInv, NEW c \in Cores, GOMP_parallel_end(c) PROVE TeamInv'
<1> USE DEF GOMP_parallel_end
<1>1. curr[c] \in Regions
  BY RunAt
<1>2. QED
  BY <1>1, MasterCalls

\* Where a master at a barrier call is, with its slaves.
LEMMA AtCall ==
  ASSUME TeamInv, NEW c \in Cores, pc[c] \in {"wait", "release"}, NEW t, t = curr[c], t # ROOT
  PROVE  /\ t \in Regions /\ t \in TeamIds /\ t \in Entered(c) /\ c = Boss(t) /\ ~Pending(t)
         /\ ShapeInv(t) /\ Size(t) \in Nat \ {0} /\ nthr[c] = Size(t) /\ k[c] \in 1 .. Size(t)
         /\ bars[c][t] \in 0 .. MaxBars /\ team[t].bars \in 0 .. MaxBars
         /\ pc[c] = "wait" => ret[c] \in {"barrier", "end"}
         /\ pc[c] = "release" => ret[c] \in {"start", "barrier"}
         /\ ret[c] = "barrier" => bars[c][t] < team[t].bars
         /\ pc[c] = "wait" /\ ret[c] = "end" => bars[c][t] = team[t].bars
         /\ bars[c][t] <= team[t].bars
         /\ \A i \in 1 .. Size(t) - 1 : Handshake(t, i)
<1>1. t \in Regions /\ t \in Entered(c) /\ c = Boss(t) /\ ~Pending(t)
  BY MasterAt
<1>2. TypeOK /\ ShapeInv(t) /\ BossInv(t) /\ bars[c][t] <= team[t].bars /\ \A i \in 1 .. Size(t) - 1 : Handshake(t, i)
  BY <1>1 DEF TeamInv, RegionInv
<1>3. t \in TeamIds /\ team[t] \in Descriptors /\ Size(t) \in Nat \ {0}
  BY <1>1, <1>2, RegionFacts
<1>4. bars[c][t] \in 0 .. MaxBars /\ team[t].bars \in 0 .. MaxBars /\ k[c] \in 1 .. N
  BY <1>2, <1>3 DEF TypeOK, Descriptors
<1>5. /\ nthr[c] = Size(t) /\ k[c] <= Size(t)
      /\ pc[c] = "wait" => ret[c] \in {"barrier", "end"}
      /\ pc[c] = "release" => ret[c] \in {"start", "barrier"}
      /\ ret[c] = "barrier" => bars[c][t] < team[t].bars
      /\ pc[c] = "wait" /\ ret[c] = "end" => bars[c][t] = team[t].bars
  BY <1>1, <1>2 DEF BossInv
<1>6. k[c] \in 1 .. Size(t)
  BY <1>3, <1>4, <1>5, ConstantsAssumption
<1>7. QED
  BY <1>1, <1>2, <1>3, <1>4, <1>5, <1>6

\* The thread at index k of a region: its flag is the one the master looks at.
LEMMA Others ==
  ASSUME TeamInv, NEW t \in Regions, NEW j \in 1 .. Size(t) - 1
  PROVE  /\ Proc(t, j) \in SlavesOf(t) /\ Proc(t, j) \in Slaves /\ Proc(t, j) \in Cores /\ Proc(t, j) # Boss(t)
         /\ \A i \in 1 .. Size(t) - 1 : i # j => Proc(t, i) # Proc(t, j) /\ Proc(t, i) \in Cores
<1>1. TypeOK /\ ShapeInv(t)
  BY DEF TeamInv, RegionInv
<1>2. Size(t) \in Nat
  BY <1>1, RegionFacts
<1>3. QED
  BY <1>1, <1>2, RegionFacts DEF ShapeInv, Slaves

\* MSGBarrier_Wait gathers a slave of a region.
LEMMA WaitOneRegion == ASSUME TeamInv, FlagsDisjoint, NEW c \in Cores, WaitOne(c), curr[c] # ROOT PROVE TeamInv'
<1> USE DEF WaitOne, globals, locals
<1>1. masterFlag \in [Cores -> {0, 1}] /\ k \in [Cores -> 1 .. N] /\ TypeOK
  BY DEF TeamInv, TypeOK
<1>2. PICK t : t = curr[c]
  OBVIOUS
<1>3. PICK j : j = k[c]
  OBVIOUS
<1>4. /\ t \in Regions /\ t \in Entered(c) /\ c = Boss(t) /\ ~Pending(t) /\ Size(t) \in Nat \ {0} /\ nthr[c] = Size(t)
      /\ j \in 1 .. Size(t) - 1 /\ bars[c][t] <= team[t].bars
      /\ ret[c] \in {"barrier", "end"}
      /\ ret[c] = "barrier" => bars[c][t] < team[t].bars
      /\ ret[c] = "end" => bars[c][t] = team[t].bars
      /\ \A i \in 1 .. Size(t) - 1 : Handshake(t, i)
  BY <1>2, <1>3, AtCall
<1>5. PICK p : p = Proc(t, j)
  OBVIOUS
<1>6. p \in SlavesOf(t) /\ p \in Cores /\ p # c /\ \A i \in 1 .. Size(t) - 1 : i # j => Proc(t, i) # p /\ Proc(t, i) \in Cores
  BY <1>4, <1>5, Others
<1>0. /\ masterFlag[p] # 0 /\ masterFlag' = [masterFlag EXCEPT ![p] = 0] /\ slaveFlag' = slaveFlag
      /\ mem' \in [Words -> 0 .. FlagMod - 1] /\ masterFlag' \in [Cores -> {0, 1}]
  <2>1. p \in Slaves
    BY <1>4, <1>5, Others
  <2>2. mem[MASTER_FLAG(p)] # 0 /\ mem' = [mem EXCEPT ![MASTER_FLAG(p)] = 0]
    BY <1>2, <1>3, <1>5
  <2>3. QED
    BY <1>1, <2>1, <2>2, FlagReads, MasterWrite
<1>7. /\ masterFlag[p] = 1 /\ masterFlag'[p] = 0 /\ \A d \in Cores \ {p} : SameFlags(d)
      /\ k'[c] = j + 1 /\ \A d \in Cores \ {c} : k'[d] = k[d]
      /\ slaveFlag'[p] = slaveFlag[p]
  BY <1>0, <1>1, <1>2, <1>3, <1>5, <1>6 DEF SameFlags
<1>8. Alone(c)
  BY <1>7 DEF Alone, Starting
<1>9. TypeOK'
  <2>1. k[c] + 1 \in 1 .. N
    BY <1>1, ConstantsAssumption DEF TeamInv, TypeOK
  <2>2. k' \in [Cores -> 1 .. N]
    BY <1>1, <2>1
  <2>3. QED
    BY <1>0, <2>2 DEF TeamInv, TypeOK
<1>10. ~Pending(t)' /\ Boss(t)' = c /\ Size(t)' = Size(t) /\ (\A i : Proc(t, i)' = Proc(t, i))
  BY <1>4, <1>8, AloneFrame
<1>11. pc' = pc /\ ret' = ret /\ nthr' = nthr /\ curr'[c] = t /\ team' = team /\ bars' = bars
  BY <1>2
<1>12. Works(t)'
  <2>1. BossInv(t)'
    <3>1. BossInv(t) /\ j + 1 <= Size(t)
      BY <1>4 DEF TeamInv, RegionInv
    <3>2. QED
      BY <1>2, <1>4, <1>7, <1>10, <1>11, <3>1 DEF BossInv
  <2>2. ASSUME NEW i \in 1 .. Size(t) - 1 PROVE Handshake(t, i)'
    <3>1. PICK s, b : s = Proc(t, i) /\ b = bars[c][t]
      OBVIOUS
    <3>2. Handshake(t, i)
      BY <1>4
    <3>3. ~Inside(t)' /\ ~Ending(t)' /\ ~At(t, "release", "start")' /\ ~At(t, "release", "barrier")'
      BY <1>10, <1>11 DEF Inside, Ending, At, Opening, Starting
    <3>4. /\ At(t, "wait", "barrier") <=> ret[c] = "barrier"
          /\ At(t, "wait", "end") <=> ret[c] = "end"
          /\ At(t, "wait", "barrier")' <=> ret[c] = "barrier"
          /\ At(t, "wait", "end")' <=> ret[c] = "end"
      BY <1>2, <1>4, <1>10, <1>11 DEF At
    <3>5. CASE i = j
      <4>1. s = p /\ ~(i < k[c]) /\ i < k'[c] /\ i \in Nat
        BY <1>3, <1>5, <1>7, <3>1, <3>5
      <4>2. Busy(p, t, b)
        BY <1>4, <3>1, <3>2, <3>4, <4>1 DEF Handshake
      <4>3. /\ curr[p] = t /\ pc[p] = "spin" /\ g[p] = slaveFlag[p] /\ bars[p][t] = b
            /\ \/ ret[p] = "barrier" /\ b < team[t].bars
               \/ ret[p] = "dock" /\ b = team[t].bars
        BY <1>7, <4>2 DEF Busy, Arriving, Released
      <4>4. Gathered(p)' /\ curr'[p] = t /\ ret'[p] = ret[p] /\ bars'[p][t] = b
        BY <1>7, <4>3 DEF Gathered
      <4>5. bars[c][t] \in Int /\ team[t].bars \in Int
        BY <1>2, AtCall
      <4>6. /\ ret[c] = "barrier" => InBarrier(p, t)' /\ bars'[p][t] = b
            /\ ret[c] = "end" => Docked(p, t)' /\ bars'[p][t] = b
        BY <1>4, <3>1, <4>3, <4>4, <4>5 DEF InBarrier, Docked
      <4>7. Proc(t, i)' = p /\ b = bars'[c][t]
        BY <1>10, <1>11, <3>1, <4>1
      <4>8. QED
        BY <1>10, <3>3, <3>4, <4>1, <4>6, <4>7 DEF Handshake
    <3>6. CASE i # j
      <4>1. (i < k'[c] <=> i < k[c])
        BY <1>3, <1>4, <1>7, <3>6
      <4>2. SameFlags(Proc(t, i))
        BY <1>6, <1>7, <3>6
      <4>3. /\ Docked(Proc(t, i), t)' <=> Docked(Proc(t, i), t)
            /\ InBarrier(Proc(t, i), t)' <=> InBarrier(Proc(t, i), t)
            /\ \A x : Busy(Proc(t, i), t, x)' <=> Busy(Proc(t, i), t, x)
        BY <1>4, <1>8, <4>2, OwnSlaves
      <4>4. /\ Docked(s, t)' <=> Docked(s, t)
            /\ InBarrier(s, t)' <=> InBarrier(s, t)
            /\ Busy(s, t, b)' <=> Busy(s, t, b)
        BY <1>10, <3>1, <4>3 DEF Docked, InBarrier, Busy, Gathered, Released, Arriving
      <4>5. /\ ret[c] = "barrier" => IF i < k[c] THEN InBarrier(s, t) /\ bars[s][t] = b ELSE Busy(s, t, b)
            /\ ret[c] = "end" => IF i < k[c] THEN Docked(s, t) /\ bars[s][t] = b ELSE Busy(s, t, b)
        BY <1>4, <3>1, <3>2, <3>4 DEF Handshake
      <4>6. Proc(t, i)' = s /\ b = bars'[c][t] /\ bars'[s][t] = bars[s][t]
        BY <1>10, <1>11, <3>1
      <4>7. QED
        BY <1>10, <3>3, <3>4, <4>1, <4>4, <4>5, <4>6 DEF Handshake
    <3>7. QED
      BY <3>5, <3>6
  <2>3. QED
    BY <1>4, <1>10, <1>11, <2>1, <2>2 DEF Works
<1>13. LockInv' /\ PoolInv' /\ FreshInv'
  BY <1>2, <1>4, <1>8, <1>11, MasterQuiet
<1>14. Works(curr[c])' /\ \A d \in Cores \ SlavesOf(t) : SameFlags(d)
  BY <1>2, <1>6, <1>7, <1>12
<1>15. c = MASTER_ID => ret'[c] # "exit"
  BY <1>4
<1>16. QED
  BY <1>2, <1>4, <1>8, <1>9, <1>13, <1>14, <1>15, MasterInRegion

\* The exit count always changes, going round or not.
LEMMA FlagMoves ==
  ASSUME NEW x \in 0 .. FlagMod - 1
  PROVE  (x + 1) % FlagMod \in 0 .. FlagMod - 1 /\ (x + 1) % FlagMod # x
<1>1. FlagMod \in Nat \ {0} /\ FlagMod >= 2 /\ x + 1 \in Nat
  BY ConstantsAssumption
<1>2. (x + 1) % FlagMod \in 0 .. FlagMod - 1
  BY <1>1, RoundRange
<1>3. CASE x + 1 < FlagMod
  <2>1. x + 1 \in 0 .. FlagMod - 1
    BY <1>1, <1>3
  <2>2. (x + 1) % FlagMod = x + 1
    BY <1>1, <2>1, RoundOnce
  <2>3. QED
    BY <1>2, <2>2
<1>4. CASE x + 1 = FlagMod
  <2>1. 0 \in 0 .. FlagMod - 1
    BY <1>1
  <2>2. (0 + FlagMod) % FlagMod = 0
    BY <1>1, <2>1, RoundOnce
  <2>3. x + 1 = 0 + FlagMod /\ x # 0
    BY <1>1, <1>4
  <2>4. QED
    BY <1>2, <2>2, <2>3
<1>5. QED
  BY <1>1, <1>3, <1>4

\* MSGBarrier_Release releases a slave of a region.
LEMMA ReleaseOneRegion == ASSUME TeamInv, FlagsDisjoint, NEW c \in Cores, ReleaseOne(c), curr[c] # ROOT PROVE TeamInv'
<1> USE DEF ReleaseOne, globals, locals
<1>1. slaveFlag \in [Cores -> 0 .. FlagMod - 1] /\ k \in [Cores -> 1 .. N] /\ TypeOK
  BY FlagReads DEF TeamInv, TypeOK
<1>2. PICK t : t = curr[c]
  OBVIOUS
<1>3. PICK j : j = k[c]
  OBVIOUS
<1>4. /\ t \in Regions /\ t \in Entered(c) /\ c = Boss(t) /\ ~Pending(t) /\ Size(t) \in Nat \ {0} /\ nthr[c] = Size(t)
      /\ j \in 1 .. Size(t) - 1 /\ bars[c][t] <= team[t].bars
      /\ ret[c] \in {"start", "barrier"}
      /\ \A i \in 1 .. Size(t) - 1 : Handshake(t, i)
  BY <1>2, <1>3, AtCall
<1>5. PICK p : p = Proc(t, j)
  OBVIOUS
<1>6. p \in SlavesOf(t) /\ p \in Cores /\ p # c /\ \A i \in 1 .. Size(t) - 1 : i # j => Proc(t, i) # p /\ Proc(t, i) \in Cores
  BY <1>4, <1>5, Others
<1>7. (slaveFlag[p] + 1) % FlagMod \in 0 .. FlagMod - 1 /\ (slaveFlag[p] + 1) % FlagMod # slaveFlag[p]
  BY <1>1, <1>6, FlagMoves
<1>0. /\ slaveFlag' = [slaveFlag EXCEPT ![p] = (slaveFlag[p] + 1) % FlagMod] /\ masterFlag' = masterFlag
      /\ mem' \in [Words -> 0 .. FlagMod - 1] /\ slaveFlag' \in [Cores -> 0 .. FlagMod - 1]
  <2>1. PICK x \in 0 .. FlagMod - 1 : x = (slaveFlag[p] + 1) % FlagMod
    BY <1>7
  <2>2. mem' = [mem EXCEPT ![SLAVE_FLAG(p)] = x]
    <3>1. mem[SLAVE_FLAG(p)] = slaveFlag[p]
      BY <1>1, <1>6, FlagReads
    <3>2. QED
      BY <1>2, <1>3, <1>5, <2>1, <3>1
  <2>3. QED
    BY <1>1, <1>6, <2>1, <2>2, SlaveWrite
<1>8. /\ slaveFlag'[p] # slaveFlag[p] /\ \A d \in Cores \ {p} : SameFlags(d)
      /\ k'[c] = j + 1 /\ \A d \in Cores \ {c} : k'[d] = k[d]
      /\ masterFlag' = masterFlag
  BY <1>0, <1>1, <1>2, <1>3, <1>5, <1>6, <1>7 DEF SameFlags
<1>9. Alone(c)
  BY <1>8 DEF Alone, Starting
<1>10. TypeOK'
  <2>1. k[c] + 1 \in 1 .. N
    BY <1>1, ConstantsAssumption DEF TeamInv, TypeOK
  <2>2. k' \in [Cores -> 1 .. N]
    BY <1>1, <2>1
  <2>3. QED
    BY <1>0, <2>2 DEF TeamInv, TypeOK
<1>11. ~Pending(t)' /\ Boss(t)' = c /\ Size(t)' = Size(t) /\ (\A i : Proc(t, i)' = Proc(t, i))
  BY <1>4, <1>9, AloneFrame
<1>12. pc' = pc /\ ret' = ret /\ nthr' = nthr /\ curr'[c] = t /\ team' = team /\ bars' = bars
  BY <1>2
<1>13. Works(t)'
  <2>1. BossInv(t)'
    <3>1. BossInv(t) /\ j + 1 <= Size(t)
      BY <1>4 DEF TeamInv, RegionInv
    <3>2. QED
      BY <1>2, <1>4, <1>8, <1>11, <1>12, <3>1 DEF BossInv
  <2>2. ASSUME NEW i \in 1 .. Size(t) - 1 PROVE Handshake(t, i)'
    <3>1. PICK s, b : s = Proc(t, i) /\ b = bars[c][t]
      OBVIOUS
    <3>2. Handshake(t, i)
      BY <1>4
    <3>3. ~Inside(t)' /\ ~Ending(t)' /\ ~At(t, "wait", "end")' /\ ~At(t, "wait", "barrier")'
      BY <1>11, <1>12 DEF Inside, Ending, At, Opening, Starting
    <3>4. /\ At(t, "release", "barrier") <=> ret[c] = "barrier"
          /\ At(t, "release", "start") <=> ret[c] = "start"
          /\ At(t, "release", "barrier")' <=> ret[c] = "barrier"
          /\ At(t, "release", "start")' <=> ret[c] = "start"
      BY <1>2, <1>4, <1>11, <1>12 DEF At
    <3>5. /\ ret[c] = "barrier" => IF i < k[c] THEN Busy(s, t, b + 1) ELSE InBarrier(s, t) /\ bars[s][t] = b
          /\ ret[c] = "start" => IF i < k[c] THEN Busy(s, t, b) ELSE Docked(s, t) /\ bars[s][t] = b
      BY <1>4, <3>1, <3>2, <3>4 DEF Handshake
    <3>6. CASE i = j
      <4>1. s = p /\ ~(i < k[c]) /\ i < k'[c]
        BY <1>3, <1>5, <1>8, <3>1, <3>6
      <4>2. /\ curr[p] = t /\ Gathered(p) /\ bars[p][t] = b
            /\ ret[c] = "barrier" => ret[p] = "barrier"
            /\ ret[c] = "start" => ret[p] = "dock"
        BY <1>4, <3>5, <4>1 DEF InBarrier, Docked
      <4>3. Released(p)' /\ curr'[p] = t /\ ret'[p] = ret[p] /\ bars'[p][t] = b
        BY <1>8, <4>2 DEF Gathered, Released
      <4>4. /\ ret[c] = "barrier" => Busy(p, t, b + 1)'
            /\ ret[c] = "start" => Busy(p, t, b)'
        BY <4>2, <4>3 DEF Busy
      <4>5. Proc(t, i)' = p /\ b = bars'[c][t]
        BY <1>11, <1>12, <3>1, <4>1
      <4>6. QED
        BY <1>11, <3>3, <3>4, <4>1, <4>4, <4>5 DEF Handshake
    <3>7. CASE i # j
      <4>1. (i < k'[c] <=> i < k[c])
        BY <1>3, <1>4, <1>8, <3>7
      <4>2. SameFlags(Proc(t, i))
        BY <1>6, <1>8, <3>7
      <4>3. /\ Docked(Proc(t, i), t)' <=> Docked(Proc(t, i), t)
            /\ InBarrier(Proc(t, i), t)' <=> InBarrier(Proc(t, i), t)
            /\ \A x : Busy(Proc(t, i), t, x)' <=> Busy(Proc(t, i), t, x)
        BY <1>4, <1>9, <4>2, OwnSlaves
      <4>4. /\ Docked(s, t)' <=> Docked(s, t)
            /\ InBarrier(s, t)' <=> InBarrier(s, t)
            /\ \A x : Busy(s, t, x)' <=> Busy(s, t, x)
        BY <1>11, <3>1, <4>3 DEF Docked, InBarrier, Busy, Gathered, Released, Arriving
      <4>5. Proc(t, i)' = s /\ b = bars'[c][t] /\ bars'[s][t] = bars[s][t]
        BY <1>11, <1>12, <3>1
      <4>6. QED
        BY <1>11, <3>3, <3>4, <3>5, <4>1, <4>4, <4>5 DEF Handshake
    <3>8. QED
      BY <3>6, <3>7
  <2>3. QED
    BY <1>4, <1>11, <1>12, <2>1, <2>2 DEF Works
<1>14. LockInv' /\ PoolInv' /\ FreshInv'
  BY <1>2, <1>4, <1>9, <1>12, MasterQuiet
<1>15. Works(curr[c])' /\ \A d \in Cores \ SlavesOf(t) : SameFlags(d)
  BY <1>2, <1>6, <1>8, <1>13
<1>16. c = MASTER_ID => ret'[c] # "exit"
  BY <1>4
<1>17. QED
  BY <1>2, <1>4, <1>9, <1>10, <1>14, <1>15, <1>16, MasterInRegion

\* Every slave of a region has been gathered.
LEMMA WaitDoneRegion == ASSUME TeamInv, NEW c \in Cores, WaitDone(c), curr[c] # ROOT PROVE TeamInv'
<1> USE FlagsKept DEF WaitDone, globals, locals, Goto
<1>1. pc \in [Cores -> Labels] /\ k \in [Cores -> 1 .. N]
  BY DEF TeamInv, TypeOK
<1>2. PICK t : t = curr[c]
  OBVIOUS
<1>3. /\ t \in Regions /\ t \in Entered(c) /\ c = Boss(t) /\ ~Pending(t) /\ Size(t) \in Nat \ {0} /\ nthr[c] = Size(t)
      /\ k[c] \in 1 .. Size(t) /\ bars[c][t] <= team[t].bars
      /\ ret[c] \in {"barrier", "end"}
      /\ ret[c] = "barrier" => bars[c][t] < team[t].bars
      /\ ret[c] = "end" => bars[c][t] = team[t].bars
      /\ \A i \in 1 .. Size(t) - 1 : Handshake(t, i)
  BY <1>2, AtCall
<1>4. k[c] = Size(t)
  BY <1>3
<1>5. /\ k'[c] = 1 /\ (ret[c] = "barrier" => pc'[c] = "release") /\ (ret[c] = "end" => pc'[c] = "endlock")
      /\ \A d \in Cores \ {c} : k'[d] = k[d] /\ pc'[d] = pc[d]
      /\ \A d \in Cores : SameFlags(d)
  BY <1>1 DEF SameFlags
<1>6. Alone(c)
  BY <1>3, <1>5 DEF Alone, Starting
<1>7. TypeOK'
  <2>1. k' \in [Cores -> 1 .. N]
    BY <1>1, ConstantsAssumption
  <2>2. pc' = [pc EXCEPT ![c] = "release"] \/ pc' = [pc EXCEPT ![c] = "endlock"]
    BY <1>3
  <2>3. pc' \in [Cores -> Labels]
    BY <1>1, <2>2 DEF Labels
  <2>4. QED
    BY <2>1, <2>3 DEF TeamInv, TypeOK
<1>8. ~Pending(t)' /\ Boss(t)' = c /\ Size(t)' = Size(t) /\ (\A i : Proc(t, i)' = Proc(t, i))
  BY <1>3, <1>6, AloneFrame
<1>9. ret' = ret /\ nthr' = nthr /\ curr'[c] = t /\ team' = team /\ bars' = bars
  BY <1>2
<1>10. Works(t)'
  <2>1. BossInv(t)'
    BY <1>3, <1>5, <1>8, <1>9 DEF BossInv
  <2>2. ASSUME NEW i \in 1 .. Size(t) - 1 PROVE Handshake(t, i)'
    <3>1. PICK s, b : s = Proc(t, i) /\ b = bars[c][t]
      OBVIOUS
    <3>2. Handshake(t, i) /\ i < k[c] /\ ~(i < k'[c])
      BY <1>3, <1>4, <1>5
    <3>3. ~Inside(t)' /\ ~At(t, "wait", "end")' /\ ~At(t, "wait", "barrier")' /\ ~At(t, "release", "start")'
      BY <1>3, <1>5, <1>8, <1>9 DEF Inside, At, Opening, Starting
    <3>4. /\ At(t, "wait", "barrier") <=> ret[c] = "barrier"
          /\ At(t, "wait", "end") <=> ret[c] = "end"
          /\ At(t, "release", "barrier")' <=> ret[c] = "barrier"
          /\ Ending(t)' <=> ret[c] = "end"
      BY <1>2, <1>3, <1>5, <1>8, <1>9 DEF At, Ending
    <3>5. /\ ret[c] = "barrier" => InBarrier(s, t) /\ bars[s][t] = b
          /\ ret[c] = "end" => Docked(s, t) /\ bars[s][t] = b
      BY <1>3, <3>1, <3>2, <3>4 DEF Handshake
    <3>6. s \in Cores /\ Proc(t, i)' = s /\ b = bars'[c][t] /\ bars'[s][t] = bars[s][t]
      BY <1>3, <1>8, <1>9, <3>1, Others
    <3>7. /\ Docked(Proc(t, i), t)' <=> Docked(Proc(t, i), t)
          /\ InBarrier(Proc(t, i), t)' <=> InBarrier(Proc(t, i), t)
      BY <1>3, <1>5, <1>6, <3>1, <3>6, OwnSlaves
    <3>8. /\ Docked(s, t)' <=> Docked(s, t)
          /\ InBarrier(s, t)' <=> InBarrier(s, t)
      BY <3>1, <3>6, <3>7 DEF Docked, InBarrier, Gathered
    <3>9. QED
      BY <1>8, <3>2, <3>3, <3>4, <3>5, <3>6, <3>8 DEF Handshake
  <2>3. QED
    BY <1>3, <1>8, <1>9, <2>1, <2>2 DEF Works
<1>11. LockInv' /\ PoolInv' /\ FreshInv'
  BY <1>2, <1>3, <1>5, <1>6, <1>9, MasterQuiet
<1>12. Works(curr[c])'
  BY <1>2, <1>10
<1>13. QED
  BY <1>2, <1>3, <1>5, <1>6, <1>7, <1>11, <1>12, MasterInRegion

\* Every slave of a region has been released: the master runs, one barrier further.
LEMMA ReleaseDoneRegion == ASSUME TeamInv, NEW c \in Cores, ReleaseDone(c), curr[c] # ROOT PROVE TeamInv'
<1> USE FlagsKept DEF ReleaseDone, globals, locals, Goto
<1>1. pc \in [Cores -> Labels] /\ k \in [Cores -> 1 .. N] /\ bars \in [Cores -> [TeamIds -> 0 .. MaxBars]]
  BY DEF TeamInv, TypeOK
<1>2. PICK t : t = curr[c]
  OBVIOUS
<1>3. /\ t \in Regions /\ t \in TeamIds /\ t \in Entered(c) /\ c = Boss(t) /\ ~Pending(t)
      /\ Size(t) \in Nat \ {0} /\ nthr[c] = Size(t)
      /\ k[c] \in 1 .. Size(t) /\ bars[c][t] <= team[t].bars /\ bars[c][t] \in 0 .. MaxBars /\ team[t].bars \in 0 .. MaxBars
      /\ ret[c] \in {"start", "barrier"}
      /\ ret[c] = "barrier" => bars[c][t] < team[t].bars
      /\ \A i \in 1 .. Size(t) - 1 : Handshake(t, i)
  BY <1>2, AtCall
<1>4. k[c] = Size(t)
  BY <1>3
<1>5. PICK n : n = IF ret[c] = "barrier" THEN bars[c][t] + 1 ELSE bars[c][t]
  OBVIOUS
<1>6. n \in 0 .. MaxBars /\ n <= team[t].bars
  BY <1>3, <1>5, ConstantsAssumption
<1>7. bars' = [bars EXCEPT ![c] = [bars[c] EXCEPT ![t] = n]]
  BY <1>1, <1>2, <1>3, <1>5 DEF PassBarrier
<1>8. /\ bars' \in [Cores -> [TeamIds -> 0 .. MaxBars]] /\ bars'[c][t] = n
      /\ \A u \in TeamIds \ {t} : bars'[c][u] = bars[c][u]
      /\ \A d \in Cores \ {c} : bars'[d] = bars[d]
  <2>1. [bars[c] EXCEPT ![t] = n] \in [TeamIds -> 0 .. MaxBars]
    BY <1>1, <1>6
  <2>2. QED
    BY <1>1, <1>3, <1>7, <2>1
<1>9. /\ k'[c] = 1 /\ pc'[c] = "run" /\ \A d \in Cores \ {c} : k'[d] = k[d] /\ pc'[d] = pc[d]
      /\ \A d \in Cores : SameFlags(d)
  BY <1>1, <1>3 DEF SameFlags
<1>10. Alone(c)
  BY <1>8, <1>9 DEF Alone, Starting
<1>11. TypeOK'
  <2>1. k' \in [Cores -> 1 .. N]
    BY <1>1, ConstantsAssumption
  <2>2. pc' \in [Cores -> Labels]
    BY <1>1 DEF Labels
  <2>3. QED
    BY <1>8, <2>1, <2>2 DEF TeamInv, TypeOK
<1>12. ~Pending(t)' /\ Boss(t)' = c /\ Size(t)' = Size(t) /\ (\A i : Proc(t, i)' = Proc(t, i))
  BY <1>3, <1>10, AloneFrame
<1>13. ret' = ret /\ nthr' = nthr /\ curr'[c] = t /\ team' = team
  BY <1>2
<1>14. Works(t)'
  <2>1. BossInv(t)'
    BY <1>9, <1>12, <1>13 DEF BossInv
  <2>2. (bars[Boss(t)][t] <= team[t].bars)'
    BY <1>6, <1>8, <1>12, <1>13
  <2>3. ASSUME NEW i \in 1 .. Size(t) - 1 PROVE Handshake(t, i)'
    <3>1. PICK s : s = Proc(t, i)
      OBVIOUS
    <3>2. Handshake(t, i) /\ i < k[c]
      BY <1>3, <1>4
    <3>3. /\ At(t, "release", "barrier") <=> ret[c] = "barrier"
          /\ At(t, "release", "start") <=> ret[c] = "start"
      BY <1>2, <1>3 DEF At
    <3>4. Busy(s, t, n)
      BY <1>3, <1>5, <3>1, <3>2, <3>3 DEF Handshake
    <3>5. s \in Cores /\ Proc(t, i)' = s
      BY <1>3, <1>12, <3>1, Others
    <3>6. \A x : Busy(Proc(t, i), t, x)' <=> Busy(Proc(t, i), t, x)
      BY <1>3, <1>9, <1>10, <3>1, <3>5, OwnSlaves
    <3>7. Busy(s, t, n)'
      BY <3>1, <3>4, <3>5, <3>6 DEF Busy, Released, Arriving
    <3>8. ~Ending(t)' /\ \A y : ~At(t, "wait", y)' /\ ~At(t, "release", y)'
      BY <1>9, <1>12 DEF At, Ending
    <3>9. QED
      BY <1>8, <1>12, <3>5, <3>7, <3>8 DEF Handshake
  <2>4. QED
    BY <1>12, <2>1, <2>2, <2>3 DEF Works
<1>15. LockInv' /\ PoolInv' /\ FreshInv'
  BY <1>2, <1>3, <1>8, <1>9, <1>10, MasterQuiet
<1>16. Works(curr[c])'
  BY <1>2, <1>14
<1>17. \A u \in Regions \ {t} : bars'[c][u] = bars[c][u]
  <2>1. Regions \subseteq TeamIds
    BY DEF Regions, TeamInv, TypeOK
  <2>2. QED
    BY <1>8, <2>1
<1>18. QED
  BY <1>2, <1>3, <1>9, <1>10, <1>11, <1>15, <1>16, <1>17, MasterInRegion

\* The global master gathers the slaves at boot and releases them at exit.
LEMMA RootCall ==
  ASSUME TeamInv, NEW c \in Cores, pc[c] \in {"wait", "release"}, curr[c] = ROOT
  PROVE  /\ c = MASTER_ID /\ Regions = {} /\ nthr[c] = N /\ k[c] \in 1 .. N
         /\ \A i \in Cores : Proc(ROOT, i) = i
         /\ pc[c] = "wait" => Boot /\ ret[c] = "boot" /\ ~Exit
         /\ pc[c] = "release" => Exit /\ ret[c] = "exit" /\ ~Boot
         /\ \A s \in Slaves : s \in Cores /\ s # c /\ Entered(s) = {} /\ IdleInv(s)
<1>1. /\ c = MASTER_ID /\ open = {ROOT} /\ curr[c] \in Entered(c)
      /\ (pc[c] = "wait" /\ Boot) \/ (pc[c] = "release" /\ Exit)
  BY MasterAt DEF Regions
<1>2. Regions = {}
  BY <1>1 DEF Regions
<1>3. nthr[c] = N /\ team[ROOT] = RootTeam
  BY <1>1 DEF TeamInv, RootInv
<1>4. \A i \in Cores : Proc(ROOT, i) = i
  BY <1>3, ConstantsAssumption DEF Proc, RootTeam, Cores
<1>5. k[c] \in 1 .. N
  BY DEF TeamInv, TypeOK
<1>6. \A s \in Slaves : s \in Cores /\ s # c /\ Entered(s) = {} /\ IdleInv(s)
  BY <1>1, <1>2, NoneEntered DEF Slaves, TeamInv
<1>7. QED
  BY <1>1, <1>2, <1>3, <1>4, <1>5, <1>6 DEF Boot, Exit

\* Such a step keeps the invariant when it keeps that of the slaves.
LEMMA RootStep ==
  ASSUME TeamInv, NEW c \in Cores, Alone(c), pc[c] \in {"wait", "release"}, curr[c] = ROOT,
         TypeOK', UNCHANGED <<lock, idle, pool, ret, nthr, bars>>,
         pc'[c] = pc[c] \/ (k'[c] = 1 /\ pc'[c] = IF pc[c] = "wait" THEN "run" ELSE "stopped"),
         \A s \in Slaves : IdleInv(s)'
  PROVE  TeamInv'
<1>1. /\ c = MASTER_ID /\ Regions = {} /\ nthr[c] = N
      /\ pc[c] = "wait" => Boot /\ ret[c] = "boot" /\ ~Exit
      /\ pc[c] = "release" => Exit /\ ret[c] = "exit" /\ ~Boot
  BY RootCall
<1>2. LockInv' /\ PoolInv' /\ FreshInv'
  <2>1. pc[c] \notin Holding \cup {"lock"} /\ pc'[c] \notin Holding \cup {"lock"}
    BY DEF Holding
  <2>2. QED
    BY <2>1, QuietGlobals
<1>3. /\ curr' = curr /\ team' = team /\ open' = open /\ nteams' = nteams /\ Regions' = Regions
      /\ \A t : Boss(t)' = Boss(t)
      /\ \A d \in Cores : Entered(d)' = Entered(d)
  BY AloneFrame DEF Alone
<1>4. CoreInv(c)'
  BY <1>3 DEF TeamInv, CoreInv, Opening, Starting, Closing
<1>5. RootInv'
  <2>1. RootInv /\ (Exit' <=> Exit)
    BY DEF TeamInv, Exit
  <2>2. CASE pc[c] = "wait"
    BY <1>1, <1>3, <2>1, <2>2 DEF RootInv, Boot
  <2>3. CASE pc[c] = "release"
    BY <1>1, <1>3, <2>1, <2>3 DEF RootInv, Boot
  <2>4. QED
    BY <2>2, <2>3
<1>6. QED
  BY <1>1, <1>2, <1>4, <1>5, AloneInv

\* The global master gathers a slave at boot.
LEMMA WaitOneRoot == ASSUME TeamInv, FlagsDisjoint, NEW c \in Cores, WaitOne(c), curr[c] = ROOT PROVE TeamInv'
<1> USE DEF WaitOne, globals, locals
<1>1. masterFlag \in [Cores -> {0, 1}] /\ k \in [Cores -> 1 .. N] /\ TypeOK
  BY DEF TeamInv, TypeOK
<1>2. PICK p : p = k[c]
  OBVIOUS
<1>3. /\ c = MASTER_ID /\ nthr[c] = N /\ k[c] \in 1 .. N /\ Boot /\ ret[c] = "boot" /\ ~Exit
      /\ \A i \in Cores : Proc(ROOT, i) = i
      /\ \A s \in Slaves : s \in Cores /\ s # c /\ Entered(s) = {} /\ IdleInv(s)
  BY RootCall
<1>4. p \in Slaves /\ p \in Cores /\ Proc(curr[c], k[c]) = p /\ p + 1 \in 1 .. N /\ p \in Nat
  BY <1>2, <1>3, ConstantsAssumption DEF Slaves, Cores, MASTER_ID
<1>5. /\ masterFlag[p] # 0 /\ masterFlag' = [masterFlag EXCEPT ![p] = 0] /\ k' = [k EXCEPT ![c] = p + 1]
      /\ pc' = pc /\ ret' = ret /\ g' = g /\ slaveFlag' = slaveFlag /\ curr' = curr
      /\ mem' \in [Words -> 0 .. FlagMod - 1] /\ masterFlag' \in [Cores -> {0, 1}]
  <2>1. mem[MASTER_FLAG(p)] # 0 /\ mem' = [mem EXCEPT ![MASTER_FLAG(p)] = 0]
    BY <1>4
  <2>2. QED
    BY <1>1, <1>2, <1>4, <2>1, FlagReads, MasterWrite
<1>6. /\ masterFlag'[p] = 0 /\ k'[c] = p + 1 /\ \A d \in Cores \ {p} : masterFlag'[d] = masterFlag[d]
      /\ \A d \in Cores \ {c} : k'[d] = k[d]
  BY <1>1, <1>4, <1>5
<1>7. Alone(c)
  BY <1>5, <1>6 DEF Alone, Starting
<1>8. TypeOK'
  <2>1. k' \in [Cores -> 1 .. N]
    BY <1>1, <1>4, <1>5
  <2>2. QED
    BY <1>5, <2>1 DEF TeamInv, TypeOK
<1>9. ASSUME NEW s \in Slaves PROVE IdleInv(s)'
  <2>1. Boot' /\ ~Exit' /\ pc'[MASTER_ID] = "wait" /\ k'[MASTER_ID] = p + 1 /\ k[MASTER_ID] = p /\ pc[MASTER_ID] = "wait"
    BY <1>2, <1>3, <1>5, <1>6 DEF Boot, Exit
  <2>2. s \in Cores /\ Entered(s) = {} /\ IdleInv(s) /\ s \in Nat
    BY <1>3 DEF Cores
  <2>3. curr[s] # OMP_SLAVE_EXIT
    BY <1>3, <2>2 DEF IdleInv
  <2>4. CASE s = p
    <3>1. ret[s] = "dock" /\ Arriving(s)
      BY <1>3, <2>1, <2>2, <2>4 DEF IdleInv
    <3>2. ret'[s] = "dock" /\ Gathered(s)'
      BY <1>5, <1>6, <2>2, <2>4, <3>1 DEF Arriving, Gathered
    <3>3. ~(s >= k'[MASTER_ID])
      BY <1>4, <2>1, <2>4
    <3>4. QED
      BY <1>5, <2>1, <2>3, <3>2, <3>3 DEF IdleInv
  <2>5. CASE s # p
    <3>1. s >= k'[MASTER_ID] <=> s >= k[MASTER_ID]
      BY <1>4, <2>1, <2>2, <2>5
    <3>2. IF s >= k[MASTER_ID] THEN ret[s] = "dock" /\ Arriving(s) ELSE ret[s] = "dock" /\ Gathered(s)
      BY <1>3, <2>1, <2>2 DEF IdleInv
    <3>3. (Arriving(s) => Arriving(s)') /\ (Gathered(s) => Gathered(s)') /\ ret'[s] = ret[s] /\ curr'[s] = curr[s]
      BY <1>5, <1>6, <2>2, <2>5 DEF Arriving, Gathered
    <3>4. QED
      BY <2>1, <2>3, <3>1, <3>2, <3>3 DEF IdleInv
  <2>6. QED
    BY <2>4, <2>5
<1>10. QED
  BY <1>5, <1>7, <1>8, <1>9, RootStep

\* The global master releases a slave at exit.
LEMMA ReleaseOneRoot == ASSUME TeamInv, FlagsDisjoint, NEW c \in Cores, ReleaseOne(c), curr[c] = ROOT PROVE TeamInv'
<1> USE DEF ReleaseOne, globals, locals
<1>1. slaveFlag \in [Cores -> 0 .. FlagMod - 1] /\ k \in [Cores -> 1 .. N] /\ TypeOK
  BY FlagReads DEF TeamInv, TypeOK
<1>2. PICK p : p = k[c]
  OBVIOUS
<1>3. /\ c = MASTER_ID /\ nthr[c] = N /\ k[c] \in 1 .. N /\ Exit /\ ret[c] = "exit" /\ ~Boot
      /\ \A i \in Cores : Proc(ROOT, i) = i
      /\ \A s \in Slaves : s \in Cores /\ s # c /\ Entered(s) = {} /\ IdleInv(s)
  BY RootCall
<1>4. p \in Slaves /\ p \in Cores /\ Proc(curr[c], k[c]) = p /\ p + 1 \in 1 .. N /\ p \in Nat
  BY <1>2, <1>3, ConstantsAssumption DEF Slaves, Cores, MASTER_ID
<1>5. PICK x : x = (slaveFlag[p] + 1) % FlagMod
  OBVIOUS
<1>6. x \in 0 .. FlagMod - 1 /\ x # slaveFlag[p]
  BY <1>1, <1>4, <1>5, FlagMoves
<1>7. /\ slaveFlag' = [slaveFlag EXCEPT ![p] = x] /\ k' = [k EXCEPT ![c] = p + 1]
      /\ pc' = pc /\ ret' = ret /\ g' = g /\ masterFlag' = masterFlag /\ curr' = curr
      /\ mem' \in [Words -> 0 .. FlagMod - 1]
  <2>1. mem[SLAVE_FLAG(p)] = slaveFlag[p]
    BY <1>1, <1>4, FlagReads
  <2>2. mem' = [mem EXCEPT ![SLAVE_FLAG(p)] = x]
    BY <1>4, <1>5, <2>1
  <2>3. QED
    BY <1>1, <1>2, <1>4, <1>6, <2>2, SlaveWrite
<1>8. /\ slaveFlag'[p] = x /\ k'[c] = p + 1 /\ \A d \in Cores \ {p} : slaveFlag'[d] = slaveFlag[d]
      /\ \A d \in Cores \ {c} : k'[d] = k[d]
  BY <1>1, <1>4, <1>7
<1>9. Alone(c)
  BY <1>7, <1>8 DEF Alone, Starting
<1>10. TypeOK'
  <2>1. k' \in [Cores -> 1 .. N]
    BY <1>1, <1>4, <1>7
  <2>2. QED
    BY <1>7, <2>1 DEF TeamInv, TypeOK
<1>11. ASSUME NEW s \in Slaves PROVE IdleInv(s)'
  <2>1. Exit' /\ ~Boot' /\ pc'[MASTER_ID] = "release" /\ k'[MASTER_ID] = p + 1 /\ k[MASTER_ID] = p /\ pc[MASTER_ID] = "release"
    BY <1>2, <1>3, <1>7, <1>8 DEF Boot, Exit
  <2>2. s \in Cores /\ Entered(s) = {} /\ IdleInv(s) /\ s \in Nat
    BY <1>3 DEF Cores
  <2>3. curr[s] = OMP_SLAVE_EXIT
    BY <1>3, <2>2 DEF IdleInv
  <2>4. CASE s = p
    <3>1. ret[s] = "dock" /\ Gathered(s)
      BY <1>3, <1>4, <2>1, <2>2, <2>4 DEF IdleInv
    <3>2. ret'[s] = "dock" /\ Released(s)'
      BY <1>6, <1>7, <1>8, <2>4, <3>1 DEF Gathered, Released
    <3>3. s < k'[MASTER_ID]
      BY <1>4, <2>1, <2>4
    <3>4. QED
      BY <1>7, <2>1, <2>3, <3>2, <3>3 DEF IdleInv
  <2>5. CASE s # p
    <3>1. s < k'[MASTER_ID] <=> s < k[MASTER_ID]
      BY <1>4, <2>1, <2>2, <2>5
    <3>2. IF s < k[MASTER_ID] THEN pc[s] \in {"dispatch", "stopped"} \/ (ret[s] = "dock" /\ Released(s))
          ELSE ret[s] = "dock" /\ Gathered(s)
      BY <1>3, <2>1, <2>2 DEF IdleInv
    <3>3. (Released(s) => Released(s)') /\ (Gathered(s) => Gathered(s)') /\ ret'[s] = ret[s] /\ curr'[s] = curr[s] /\ pc'[s] = pc[s]
      BY <1>7, <1>8, <2>2, <2>5 DEF Released, Gathered
    <3>4. QED
      BY <2>1, <2>3, <3>1, <3>2, <3>3 DEF IdleInv
  <2>6. QED
    BY <2>4, <2>5
<1>12. QED
  BY <1>7, <1>9, <1>10, <1>11, RootStep

\* The global master has gathered, or released, every slave.
LEMMA RootDone == ASSUME TeamInv, NEW c \in Cores, WaitDone(c) \/ ReleaseDone(c), curr[c] = ROOT PROVE TeamInv'
<1> USE FlagsKept DEF WaitDone, ReleaseDone, globals, locals, Goto
<1>1. pc \in [Cores -> Labels] /\ k \in [Cores -> 1 .. N]
  BY DEF TeamInv, TypeOK
<1>2. /\ c = MASTER_ID /\ nthr[c] = N /\ k[c] \in 1 .. N /\ pc[c] \in {"wait", "release"}
      /\ pc[c] = "wait" => Boot /\ ret[c] = "boot" /\ ~Exit
      /\ pc[c] = "release" => Exit /\ ret[c] = "exit" /\ ~Boot
      /\ \A s \in Slaves : s \in Cores /\ s # c /\ Entered(s) = {} /\ IdleInv(s)
  BY RootCall
<1>3. PICK label : label = IF pc[c] = "wait" THEN "run" ELSE "stopped"
  OBVIOUS
<1>4. pc' = [pc EXCEPT ![c] = label] /\ k' = [k EXCEPT ![c] = 1] /\ k[c] = N
  BY <1>2, <1>3, ConstantsAssumption
<1>5. /\ ret' = ret /\ g' = g /\ bars' = bars /\ slaveFlag' = slaveFlag /\ masterFlag' = masterFlag
      /\ curr' = curr /\ nthr' = nthr
  BY <1>2
<1>6. pc'[c] = label /\ k'[c] = 1 /\ \A d \in Cores \ {c} : k'[d] = k[d] /\ pc'[d] = pc[d]
  BY <1>1, <1>4
<1>7. Alone(c)
  BY <1>2, <1>3, <1>5, <1>6 DEF Alone, Starting
<1>8. TypeOK'
  <2>1. pc' \in [Cores -> Labels] /\ k' \in [Cores -> 1 .. N]
    BY <1>1, <1>3, <1>4, ConstantsAssumption DEF Labels
  <2>2. QED
    BY <1>5, <2>1 DEF TeamInv, TypeOK
<1>9. ASSUME NEW s \in Slaves PROVE IdleInv(s)'
  <2>1. ~Boot' /\ (Exit' <=> Exit) /\ pc'[MASTER_ID] = label
    BY <1>2, <1>3, <1>5, <1>6 DEF Boot, Exit
  <2>2. s \in Cores /\ s # c /\ Entered(s) = {} /\ IdleInv(s) /\ s < k[MASTER_ID] /\ ~(s >= k[MASTER_ID])
    BY <1>2, <1>4, ConstantsAssumption DEF Cores
  <2>3. pc'[s] = pc[s] /\ (Released(s) => Released(s)') /\ (Gathered(s) => Gathered(s)') /\ ret'[s] = ret[s]
    BY <1>5, <1>6, <2>2 DEF Released, Gathered
  <2>4. CASE pc[c] = "wait"
    <3>1. ret[s] = "dock" /\ Gathered(s) /\ curr[s] # OMP_SLAVE_EXIT
      BY <1>2, <2>2, <2>4 DEF IdleInv
    <3>2. QED
      BY <1>2, <1>3, <1>5, <2>1, <2>3, <2>4, <3>1 DEF IdleInv
  <2>5. CASE pc[c] = "release"
    <3>1. (pc[s] \in {"dispatch", "stopped"} \/ (ret[s] = "dock" /\ Released(s))) /\ curr[s] = OMP_SLAVE_EXIT
      BY <1>2, <2>2, <2>5 DEF IdleInv
    <3>2. QED
      BY <1>2, <1>3, <1>5, <2>1, <2>3, <2>5, <3>1 DEF IdleInv
  <2>6. QED
    BY <1>2, <2>4, <2>5
<1>10. QED
  BY <1>2, <1>3, <1>5, <1>6, <1>7, <1>8, <1>9, RootStep

\* Team end takes the lock.
LEMMA EndLockInv == ASSUME TeamInv, NEW c \in Cores, GLOBAL_INFOS_WAIT(c, "endlock", "endfree") PROVE TeamInv'
<1> USE FlagsKept DEF GLOBAL_INFOS_WAIT, globals, locals, Goto
<1>1. pc \in [Cores -> Labels]
  BY DEF TeamInv, TypeOK
<1>2. PICK t : t = curr[c]
  OBVIOUS
<1>3. pc[c] = "endlock" /\ pc'[c] = "endfree" /\ (\A d \in Cores \ {c} : pc'[d] = pc[d]) /\ \A d \in Cores : SameFlags(d)
  BY <1>1 DEF SameFlags
<1>4. Alone(c)
  BY <1>3 DEF Alone, Starting
<1>5. TypeOK'
  BY <1>1 DEF TeamInv, TypeOK, Labels
<1>6. t \in Entered(c) /\ t \in Regions /\ Boss(t) = c /\ ~Pending(t) /\ k[c] = 1
  <2>1. k[c] = 1
    BY <1>3 DEF TeamInv, CoreInv
  <2>2. QED
    BY <1>2, <1>3, <2>1, MasterAt
<1>7. LockInv' /\ PoolInv'
  BY LockTaken DEF Holding
<1>8. FreshInv'
  <2>1. Asking' = Asking
    BY <1>3 DEF Asking
  <2>2. QED
    BY <1>4, <2>1, FreshFrame DEF TeamInv, FreshInv, Asking
<1>9. ~Pending(t)' /\ Boss(t)' = c /\ Size(t)' = Size(t) /\ (\A i : Proc(t, i)' = Proc(t, i))
  BY <1>4, <1>6, AloneFrame
<1>10. Works(t)'
  <2>1. BossInv(t) /\ bars[c][t] <= team[t].bars /\ \A i \in 1 .. Size(t) - 1 : Handshake(t, i)
    BY <1>6 DEF TeamInv, RegionInv
  <2>2. BossInv(t)'
    BY <1>2, <1>3, <1>6, <1>9, <2>1 DEF BossInv
  <2>3. ASSUME NEW i \in 1 .. Size(t) - 1 PROVE Handshake(t, i)'
    <3>1. PICK s : s = Proc(t, i)
      OBVIOUS
    <3>2. Docked(s, t) /\ bars[s][t] = bars[c][t]
      BY <1>2, <1>3, <1>6, <2>1, <3>1 DEF Handshake, Ending
    <3>3. s \in Cores /\ Proc(t, i)' = s
      BY <1>6, <1>9, <3>1, Others
    <3>4. Docked(Proc(t, i), t)' <=> Docked(Proc(t, i), t)
      BY <1>3, <1>4, <1>6, <3>1, <3>3, OwnSlaves
    <3>5. Docked(s, t)' /\ bars'[s][t] = bars'[c][t]
      BY <3>1, <3>2, <3>3, <3>4 DEF Docked, Gathered
    <3>6. ~Inside(t)' /\ \A y : ~At(t, "wait", y)' /\ ~At(t, "release", y)'
      BY <1>2, <1>3, <1>9 DEF Inside, At, Opening, Starting
    <3>7. QED
      BY <1>9, <3>3, <3>5, <3>6 DEF Handshake
  <2>4. QED
    BY <1>9, <2>1, <2>2, <2>3 DEF Works
<1>11. Works(curr[c])'
  BY <1>2, <1>10
<1>12. c = MASTER_ID => ret'[c] # "exit"
  BY <1>2, <1>6 DEF TeamInv, RootInv, Exit, Regions
<1>13. QED
  BY <1>2, <1>3, <1>4, <1>5, <1>6, <1>7, <1>8, <1>11, <1>12, MasterInRegion

-----------------------------------------------------------------------------
(* The steps that open, install, free and leave a team. *)

\* Core d is not at a call of region u; nothing happens to it as far as u is concerned.
Away(d, u) == curr[d] # u \/ pc[d] \in {"run"} \cup Opening
Steady(d, u) ==
  /\ SameFlags(d) /\ bars'[d][u] = bars[d][u]
  /\ \/ Away(d, u) /\ Away(d, u)'
     \/ pc'[d] = pc[d] /\ ret'[d] = ret[d] /\ nthr'[d] = nthr[d] /\ k'[d] = k[d] /\ g'[d] = g[d] /\ curr'[d] = curr[d]

\* A slave that is away is busy, and nothing else.
LEMMA AwaySlave ==
  ASSUME NEW s, NEW u, Away(s, u)
  PROVE  ~Docked(s, u) /\ ~InBarrier(s, u) /\ \A b : Busy(s, u, b) <=> masterFlag[s] = 0 /\ bars[s][u] = b
<1>1. curr[s] = u => ~Arriving(s) /\ ~Gathered(s) /\ ~Released(s)
  BY DEF Away, Arriving, Gathered, Released, Opening, Starting
<1>2. QED
  BY <1>1 DEF Away, Docked, InBarrier, Busy

\* A region whose threads are steady works as before.
LEMMA WorksFrame ==
  ASSUME TypeOK, NEW u \in Regions, ShapeInv(u), Works(u), team'[u] = team[u], Pending(u)' <=> Pending(u),
         \A d \in Range(team[u].procs) : Steady(d, u)
  PROVE  Works(u)'
<1>1. PICK m : m = Boss(u)
  OBVIOUS
<1>2. Boss(u)' = m /\ Size(u)' = Size(u) /\ \A i : Proc(u, i)' = Proc(u, i)
  BY <1>1 DEF Boss, Size, Proc
<1>3. Steady(m, u)
  BY <1>1, RegionFacts DEF Boss
<1>4. BossInv(u)'
  <2>1. CASE Away(m, u) /\ Away(m, u)'
    BY <1>2, <2>1 DEF BossInv, Away, Opening, Starting
  <2>2. CASE ~(Away(m, u) /\ Away(m, u)')
    BY <1>1, <1>2, <1>3, <2>2 DEF Works, BossInv, Steady
  <2>3. QED
    BY <2>1, <2>2
<1>5. (bars[Boss(u)][u] <= team[u].bars)'
  BY <1>1, <1>2, <1>3 DEF Works, Steady
<1>6. ASSUME NEW i \in 1 .. Size(u) - 1 PROVE Handshake(u, i)'
  <2>1. PICK s : s = Proc(u, i)
    OBVIOUS
  <2>2. Handshake(u, i) /\ Steady(s, u) /\ Proc(u, i)' = s
    BY <1>2, <2>1, RegionFacts DEF Works
  <2>3. /\ Docked(s, u)' <=> Docked(s, u)
        /\ InBarrier(s, u)' <=> InBarrier(s, u)
        /\ \A b : Busy(s, u, b)' <=> Busy(s, u, b)
    <3>1. CASE Away(s, u) /\ Away(s, u)'
      <4>1. ~Docked(s, u) /\ ~InBarrier(s, u) /\ \A b : Busy(s, u, b) <=> masterFlag[s] = 0 /\ bars[s][u] = b
        BY <3>1, AwaySlave
      <4>2. curr'[s] = u => ~Arriving(s)' /\ ~Gathered(s)' /\ ~Released(s)'
        BY <3>1 DEF Away, Arriving, Gathered, Released, Opening, Starting
      <4>3. ~Docked(s, u)' /\ ~InBarrier(s, u)' /\ \A b : Busy(s, u, b)' <=> masterFlag'[s] = 0 /\ bars'[s][u] = b
        BY <3>1, <4>2 DEF Away, Docked, InBarrier, Busy
      <4>4. QED
        BY <2>2, <4>1, <4>3 DEF Steady, SameFlags
    <3>2. CASE ~(Away(s, u) /\ Away(s, u)')
      BY <2>2, <3>2, SlaveFrame DEF Steady, SameSlave
    <3>3. QED
      BY <3>1, <3>2
  <2>4. CASE Pending(u)
    <3>1. ~Inside(u)' /\ ~Ending(u)' /\ \A y : ~At(u, "wait", y)' /\ ~At(u, "release", y)'
      BY <1>2, <2>4 DEF Inside, At, Ending, Pending, Starting
    <3>2. QED
      BY <1>2, <2>1, <2>2, <2>3, <2>4, <3>1 DEF Handshake
  <2>5. CASE ~Pending(u) /\ Away(m, u) /\ Away(m, u)'
    <3>1. Inside(u) /\ Inside(u)' /\ ~Ending(u)' /\ \A y : ~At(u, "wait", y)' /\ ~At(u, "release", y)'
      BY <1>1, <1>2, <2>5 DEF Inside, Away, Ending, At, Opening, Starting
    <3>2. bars'[m][u] = bars[m][u]
      BY <1>3 DEF Steady
    <3>3. QED
      BY <1>1, <1>2, <2>1, <2>2, <2>3, <2>5, <3>1, <3>2 DEF Handshake
  <2>6. CASE ~Pending(u) /\ ~(Away(m, u) /\ Away(m, u)')
    <3>1. pc'[m] = pc[m] /\ ret'[m] = ret[m] /\ k'[m] = k[m] /\ curr'[m] = curr[m] /\ bars'[m][u] = bars[m][u]
      BY <1>3, <2>6 DEF Steady
    <3>2. /\ Inside(u)' <=> Inside(u)
          /\ Ending(u)' <=> Ending(u)
          /\ \A x, y : At(u, x, y)' <=> At(u, x, y)
      BY <1>1, <1>2, <3>1 DEF Inside, Ending, At
    <3>3. bars'[s][u] = bars[s][u]
      BY <2>2 DEF Steady
    <3>4. QED
      BY <1>1, <1>2, <2>1, <2>2, <2>3, <2>6, <3>1, <3>2, <3>3 DEF Handshake
  <2>7. QED
    BY <2>4, <2>5, <2>6
<1>7. QED
  BY <1>2, <1>4, <1>5, <1>6 DEF Works

\* A region that another one's start or end does not touch.
LEMMA RegionFrame ==
  ASSUME TypeOK, NEW u \in Regions, RegionInv(u), team'[u] = team[u], nteams' \in Nat, nteams' >= nteams,
         Pending(u)' <=> Pending(u),
         (pc'[Boss(u)] = "recruit" /\ new'[Boss(u)] = u) <=> (pc[Boss(u)] = "recruit" /\ new[Boss(u)] = u),
         pc[Boss(u)] = "recruit" /\ new[Boss(u)] = u => nthr'[Boss(u)] = nthr[Boss(u)],
         \A v : v < u => (v \in Entered(Boss(u))' <=> v \in Entered(Boss(u))),
         \A d \in Range(team[u].procs) : Steady(d, u)
  PROVE  RegionInv(u)'
<1>1. PICK m : m = Boss(u)
  OBVIOUS
<1>2. Boss(u)' = m /\ Size(u)' = Size(u) /\ \A i : Proc(u, i)' = Proc(u, i)
  BY <1>1 DEF Boss, Size, Proc
<1>3. ShapeInv(u) /\ ParentInv(u) /\ Works(u) /\ nteams \in Nat
  BY DEF RegionInv, Works, TypeOK
<1>4. ShapeInv(u)'
  BY <1>1, <1>2, <1>3 DEF ShapeInv
<1>5. ParentInv(u)'
  <2>1. Entered(m)' = Entered(Boss(u))'
    BY <1>2 DEF Entered
  <2>2. \A v : v < u => (v \in Entered(m)' <=> v \in Entered(m))
    BY <1>1, <2>1
  <2>3. QED
    BY <1>1, <1>2, <1>3, <2>2 DEF ParentInv
<1>6. Works(u)'
  BY <1>3, WorksFrame
<1>7. QED
  BY <1>4, <1>5, <1>6 DEF RegionInv, Works

\* Regions are opened and closed neither at boot nor at exit.
LEMMA BusyNormal ==
  ASSUME TeamInv, NEW c \in Cores, pc[c] \in {"run", "endlock", "endfree"} \cup Opening \cup Closing
  PROVE  Normal /\ nteams >= 1 /\ ROOT \in open /\ team[ROOT] = RootTeam /\ Entered(c) # {}
<1>1. CoreInv(c) /\ RootInv
  BY DEF TeamInv
<1>2. Entered(c) # {}
  <2>1. CASE pc[c] \in Closing
    BY <1>1, <2>1 DEF CoreInv
  <2>2. CASE pc[c] \notin Closing
    BY <1>1, <2>2 DEF CoreInv
  <2>3. QED
    BY <2>1, <2>2
<1>3. pc[MASTER_ID] # "initenv"
  BY <1>1, <1>2 DEF RootInv, Entered
<1>4. CASE c = MASTER_ID
  <2>1. pc[c] \notin {"wait", "release", "stopped"}
    BY DEF Opening, Starting, Closing
  <2>2. QED
    BY <1>1, <1>2, <1>3, <1>4, <2>1 DEF RootInv, Boot, Normal
<1>5. CASE c # MASTER_ID
  <2>1. Regions # {}
    BY <1>2, <1>5, HomeExists DEF Slaves
  <2>2. QED
    BY <1>1, <1>2, <1>3, <2>1 DEF RootInv, Normal, Regions
<1>6. QED
  BY <1>4, <1>5

\* A core outside every region, between boot and exit.
LEMMA IdleNormal ==
  ASSUME NEW s \in Slaves, Normal, IdleInv(s)
  PROVE  curr[s] # OMP_SLAVE_EXIT /\ (Entered(s) = {} => ret[s] = "dock" /\ Gathered(s))
  BY DEF Normal, IdleInv

\* The invariant of such a core, and of the root region, after a step.
LEMMA NormalStep ==
  ASSUME Normal', pc'[MASTER_ID] \notin {"enter", "spin", "dispatch"}, nteams' >= 1, ROOT \in open', team'[ROOT] = RootTeam,
         curr'[MASTER_ID] = ROOT => pc'[MASTER_ID] \in {"run"} \cup Opening
  PROVE  /\ RootInv'
         /\ \A s \in Slaves : curr'[s] # OMP_SLAVE_EXIT /\ (Entered(s)' = {} => ret'[s] = "dock" /\ Gathered(s)') => IdleInv(s)'
<1>1. RootInv'
  BY DEF Normal, RootInv, Opening, Starting
<1>2. QED
  BY <1>1 DEF Normal, IdleInv

\* The threads of a team are cores.
LEMMA ThreadsAreCores == ASSUME TypeOK, NEW u \in TeamIds PROVE Range(team[u].procs) \subseteq Cores
<1>1. team[u].procs \in Seq(Cores)
  BY DEF TypeOK, Descriptors
<1>2. QED
  BY <1>1 DEF Range

\* gomp_team_end: the master is back in the parent region.
LEMMA TeamEndRestoreInv == ASSUME TeamInv, NEW c \in Cores, TeamEndRestore(c) PROVE TeamInv'
<1> USE FlagsKept DEF TeamEndRestore, globals, locals, Goto
<1>1. pc \in [Cores -> Labels] /\ curr \in [Cores -> 0 .. MaxTeams + 1] /\ TypeOK
  BY DEF TeamInv, TypeOK
<1>2. PICK t, p : t = curr[c] /\ p = team[t].parent
  OBVIOUS
<1>3. /\ t \notin open /\ p \in Entered(c) /\ \A u \in Entered(c) : u <= p
      /\ p \in open /\ k[c] = 1
  <2>1. CoreInv(c) /\ pc[c] = "endrestore"
    BY DEF TeamInv
  <2>2. QED
    BY <1>2, <2>1, EnteredFacts DEF CoreInv, Closing
<1>4. /\ curr' = [curr EXCEPT ![c] = p] /\ pc' = [pc EXCEPT ![c] = "run"]
      /\ curr'[c] = p /\ pc'[c] = "run" /\ \A d \in Cores \ {c} : curr'[d] = curr[d] /\ pc'[d] = pc[d]
  BY <1>1, <1>2 DEF Mine
<1>5. TypeOK'
  <2>1. p \in 0 .. MaxTeams + 1
    <3>1. p \in TeamIds
      BY <1>1, <1>3 DEF TypeOK
    <3>2. QED
      BY <3>1, ConstantsAssumption DEF TeamIds
  <2>2. curr' \in [Cores -> 0 .. MaxTeams + 1] /\ pc' \in [Cores -> Labels]
    BY <1>1, <1>4, <2>1 DEF Labels
  <2>3. QED
    BY <2>2 DEF TeamInv, TypeOK
<1>6. /\ pc[c] = "endrestore"
      /\ \A d \in Cores :
           /\ pc'[d] \in Starting <=> pc[d] \in Starting
           /\ pc'[d] \in Holding <=> pc[d] \in Holding
           /\ pc'[d] \in {"recruit", "take"} \/ pc[d] \in {"recruit", "take"} => pc'[d] = pc[d]
           /\ pc'[d] \in {"lock", "resolve", "take"} <=> pc[d] \in {"lock", "resolve", "take"}
  BY <1>4 DEF Starting, Holding
<1>7. Regions' = Regions /\ \A u : Boss(u)' = Boss(u) /\ SlavesOf(u)' = SlavesOf(u) /\ Size(u)' = Size(u)
  BY DEF Regions, Boss, SlavesOf, Proc, Size
<1>8. \A d \in Cores : Entered(d)' = Entered(d)
  BY <1>6 DEF Entered
<1>9. ASSUME NEW u \in Regions PROVE RegionInv(u)' /\ (Pending(u)' <=> Pending(u))
  <2>1. RegionInv(u) /\ ShapeInv(u) /\ Boss(u) \in Cores /\ u \in open
    BY <1>1, RegionFacts DEF TeamInv, RegionInv, Regions
  <2>2. Pending(u)' <=> Pending(u)
    BY <1>6, <1>7, <2>1 DEF Pending
  <2>3. ASSUME NEW d \in Range(team[u].procs) PROVE Steady(d, u)
    <3>1. d \in Cores
      BY <1>1, <2>1, <2>3, ThreadsAreCores DEF TypeOK
    <3>2. SameFlags(d) /\ bars'[d][u] = bars[d][u]
      BY DEF SameFlags
    <3>3. d = c => Away(d, u) /\ Away(d, u)'
      BY <1>2, <1>3, <1>4, <2>1 DEF Away
    <3>4. QED
      BY <1>4, <3>1, <3>2, <3>3 DEF Steady
  <2>4. Entered(Boss(u))' = Entered(Boss(u))
    <3>1. PICK m \in Cores : m = Boss(u)
      BY <2>1
    <3>2. Entered(Boss(u))' = Entered(m)'
      BY <1>7, <3>1 DEF Entered
    <3>3. QED
      BY <1>8, <3>1, <3>2
  <2>5. nteams' \in Nat /\ nteams' >= nteams
    BY <1>1 DEF TypeOK
  <2>6. /\ (pc'[Boss(u)] = "recruit" /\ new'[Boss(u)] = u) <=> (pc[Boss(u)] = "recruit" /\ new[Boss(u)] = u)
        /\ nthr'[Boss(u)] = nthr[Boss(u)]
    BY <1>6, <2>1
  <2>7. QED
    BY <1>1, <2>1, <2>2, <2>3, <2>4, <2>5, <2>6, RegionFrame
<1>10. CoreInv(c)'
  BY <1>3, <1>4, <1>7, <1>8 DEF TeamInv, CoreInv, Opening, Starting, Closing
<1>11. ASSUME NEW d \in Cores, d # c PROVE CoreInv(d)'
  BY <1>4, <1>7, <1>8, <1>11 DEF TeamInv, CoreInv
<1>12. LockInv' /\ PoolInv' /\ FreshInv' /\ TeamsDisjoint'
  <2>1. LockInv'
    BY <1>6, Zenon DEF TeamInv, LockInv
  <2>2. PoolInv'
    BY <1>6, <1>7 DEF TeamInv, PoolInv
  <2>3. Asking' = Asking
    BY <1>6 DEF Asking
  <2>4. FreshInv'
    BY <1>7, <1>9, <2>3 DEF TeamInv, FreshInv, Asking
  <2>5. TeamsDisjoint'
    BY <1>7 DEF TeamInv, TeamsDisjoint
  <2>6. QED
    BY <2>1, <2>2, <2>4, <2>5
<1>13. /\ Normal /\ Normal' /\ nteams' >= 1 /\ ROOT \in open' /\ team'[ROOT] = RootTeam
       /\ pc'[MASTER_ID] \notin {"enter", "spin", "dispatch"}
       /\ curr'[MASTER_ID] = ROOT => pc'[MASTER_ID] \in {"run"} \cup Opening
  <2>1. Normal /\ nteams >= 1 /\ ROOT \in open /\ team[ROOT] = RootTeam
    BY <1>6, BusyNormal DEF Closing
  <2>2. MASTER_ID \in Cores
    BY ConstantsAssumption DEF MASTER_ID, Cores
  <2>3. CASE c = MASTER_ID
    BY <1>4, <2>1, <2>3 DEF Normal, Boot, Exit
  <2>4. CASE c # MASTER_ID
    BY <1>4, <2>1, <2>2, <2>4 DEF Normal, Boot, Exit, TeamInv, RootInv
  <2>5. QED
    BY <2>1, <2>3, <2>4
<1>14. ASSUME NEW s \in Slaves PROVE IdleInv(s)'
  <2>1. s \in Cores /\ IdleInv(s)
    BY DEF Slaves, TeamInv
  <2>2. curr[s] # OMP_SLAVE_EXIT /\ (Entered(s) = {} => ret[s] = "dock" /\ Gathered(s))
    BY <1>13, <2>1, IdleNormal
  <2>3. CASE s = c
    <3>1. p # OMP_SLAVE_EXIT
      BY <1>1, <1>3, ConstantsAssumption DEF TypeOK, TeamIds, OMP_SLAVE_EXIT
    <3>2. QED
      BY <1>3, <1>4, <1>8, <1>13, <2>3, <3>1, NormalStep
  <2>4. CASE s # c
    <3>1. Entered(s)' = Entered(s) /\ ret'[s] = ret[s] /\ (Gathered(s) => Gathered(s)') /\ curr'[s] = curr[s]
      BY <1>4, <1>8, <2>1, <2>4 DEF Gathered
    <3>2. QED
      BY <1>13, <2>2, <3>1, NormalStep
  <2>5. QED
    BY <2>3, <2>4
<1>15. RootInv'
  BY <1>13, NormalStep
<1>16. QED
  BY <1>5, <1>7, <1>9, <1>10, <1>11, <1>12, <1>14, <1>15 DEF TeamInv

\* The regions of a core are descriptors that have been handed out.
LEMMA EnteredBound == ASSUME TeamInv, NEW d \in Cores, NEW u \in Entered(d) PROVE u \in TeamIds /\ u <= nteams
<1>1. u \in open /\ (u # ROOT => u \in Regions) /\ open \subseteq TeamIds
  BY EnteredFacts DEF TeamInv, TypeOK
<1>2. CASE u = ROOT
  <2>1. nteams >= 1
    BY <1>1 DEF TeamInv, RootInv
  <2>2. QED
    BY <1>1, <1>2, <2>1 DEF ROOT
<1>3. CASE u # ROOT
  BY <1>1, <1>3 DEF TeamInv, RegionInv, ShapeInv
<1>4. QED
  BY <1>2, <1>3

\* So is the one it is about to leave.
LEMMA ClosingTeam ==
  ASSUME TeamInv, NEW d \in Cores, pc[d] \in Closing
  PROVE  curr[d] \in TeamIds \ open /\ curr[d] # ROOT /\ curr[d] <= nteams
<1>1. curr[d] \in (2 .. nteams) \ open /\ nteams \in 0 .. MaxTeams
  BY DEF TeamInv, CoreInv, TypeOK
<1>2. QED
  BY <1>1, ConstantsAssumption DEF TeamIds, ROOT

\* A core that another one's start or end does not touch.
LEMMA CoreFrame ==
  ASSUME TeamInv, NEW d \in Cores, Entered(d)' = Entered(d),
         pc'[d] = pc[d], curr'[d] = curr[d], k'[d] = k[d], new'[d] = new[d],
         nteams' \in Nat, nteams' >= nteams,
         \A u \in TeamIds : u <= nteams => Boss(u)' = Boss(u),
         pc[d] \in Closing => curr[d] \notin open' /\ team'[curr[d]] = team[curr[d]],
         pc[d] \in Starting => new[d] \in Regions'
  PROVE  CoreInv(d)'
<1>1. CoreInv(d) /\ nteams \in Nat
  BY DEF TeamInv, TypeOK
<1>2. PICK x, y : x = curr[d] /\ y = new[d]
  OBVIOUS
<1>3. \A u \in Entered(d) : Boss(u)' = Boss(u)
  BY EnteredBound
<1>4. Boss(curr[d])' = Boss(x)' /\ Boss(new[d])' = Boss(y)'
  BY <1>2 DEF Boss, Proc
<1>5. CASE pc[d] \in Closing
  <2>1. Boss(x)' = Boss(x) /\ team'[x] = team[x]
    BY <1>2, <1>5, ClosingTeam
  <2>2. QED
    BY <1>1, <1>2, <1>3, <1>4, <1>5, <2>1 DEF CoreInv, Closing, Opening, Starting
<1>6. CASE pc[d] \notin Closing
  <2>1. Entered(d) # {} => Boss(x)' = Boss(x)
    BY <1>1, <1>2, <1>3, <1>6 DEF CoreInv
  <2>2. pc[d] \in Starting => Boss(y)' = Boss(y)
    <3>1. pc[d] \in Starting => y \in Regions
      BY <1>1, <1>2 DEF CoreInv
    <3>2. y \in Regions => y \in TeamIds /\ y <= nteams
      BY DEF TeamInv, TypeOK, Regions, RegionInv, ShapeInv
    <3>3. QED
      BY <3>1, <3>2
  <2>3. QED
    BY <1>1, <1>2, <1>3, <1>4, <1>6, <2>1, <2>2 DEF CoreInv
<1>7. QED
  BY <1>5, <1>6

\* gomp_team_start: the new team is linked to its parent and becomes current.
LEMMA InstallInv == ASSUME TeamInv, NEW c \in Cores, Install(c) PROVE TeamInv'
<1> USE FlagsKept DEF Install, globals, locals, Goto
<1>1. /\ pc \in [Cores -> Labels] /\ curr \in [Cores -> 0 .. MaxTeams + 1] /\ team \in [TeamIds -> Descriptors] /\ TypeOK
      /\ nthr \in [Cores -> 0 .. N] /\ ret \in [Cores -> {"dock", "barrier", "boot", "end", "start", "exit"}]
      /\ CoreInv(c) /\ pc[c] = "install"
  BY DEF TeamInv, TypeOK
<1>2. PICK t, p : t = new[c] /\ p = curr[c]
  OBVIOUS
<1>3. /\ t \in Regions /\ Boss(t) = c /\ (\A u \in Entered(c) : u < t) /\ k[c] = 1
      /\ p \in Entered(c) /\ (\A u \in Entered(c) : u <= p) /\ Pending(t)
      /\ p \in open /\ p \in Nat
  BY <1>1, <1>2, EnteredFacts DEF CoreInv, Opening, Starting, Closing, Pending
<1>4. RegionInv(t) /\ ShapeInv(t) /\ t \in TeamIds /\ t # ROOT /\ t \in open /\ team[t] \in Descriptors /\ t \in Nat /\ Size(t) \in Nat \ {0}
  <2>1. RegionInv(t) /\ ShapeInv(t)
    BY <1>3 DEF TeamInv, RegionInv
  <2>2. QED
    BY <1>1, <1>3, <2>1, RegionFacts DEF ShapeInv
<1>5. PICK e : e = [team[t] EXCEPT !.parent = p]
  OBVIOUS
<1>6. /\ e.procs = team[t].procs /\ e.nthreads = team[t].nthreads /\ e.mask = team[t].mask /\ e.bars = team[t].bars
      /\ e.parent = p /\ e \in Descriptors
  <2>1. p \in 0 .. MaxTeams
    BY <1>1, <1>3, ConstantsAssumption DEF TypeOK, TeamIds
  <2>2. QED
    BY <1>4, <1>5, <2>1 DEF Descriptors
<1>7. /\ team' = [team EXCEPT ![t] = e] /\ curr' = [curr EXCEPT ![c] = t] /\ pc' = [pc EXCEPT ![c] = "release"]
      /\ nthr' = [nthr EXCEPT ![c] = team[t].nthreads] /\ ret' = [ret EXCEPT ![c] = "start"]
  BY <1>2, <1>5
<1>8. /\ team'[t] = e /\ \A u \in TeamIds \ {t} : team'[u] = team[u]
      /\ curr'[c] = t /\ pc'[c] = "release" /\ nthr'[c] = team[t].nthreads /\ ret'[c] = "start"
      /\ \A d \in Cores \ {c} : curr'[d] = curr[d] /\ pc'[d] = pc[d] /\ nthr'[d] = nthr[d] /\ ret'[d] = ret[d]
  BY <1>1, <1>4, <1>7
<1>9. TypeOK'
  <2>1. t \in 0 .. MaxTeams + 1 /\ team[t].nthreads \in 0 .. N
    BY <1>4, ConstantsAssumption DEF TeamIds, Descriptors
  <2>2. /\ team' \in [TeamIds -> Descriptors] /\ curr' \in [Cores -> 0 .. MaxTeams + 1] /\ pc' \in [Cores -> Labels]
        /\ nthr' \in [Cores -> 0 .. N] /\ ret' \in [Cores -> {"dock", "barrier", "boot", "end", "start", "exit"}]
    <3>1. team' \in [TeamIds -> Descriptors]
      BY <1>1, <1>6, <1>7
    <3>2. curr' \in [Cores -> 0 .. MaxTeams + 1]
      BY <1>1, <1>7, <2>1
    <3>3. nthr' \in [Cores -> 0 .. N]
      BY <1>1, <1>7, <2>1
    <3>4. pc' \in [Cores -> Labels] /\ ret' \in [Cores -> {"dock", "barrier", "boot", "end", "start", "exit"}]
      BY <1>1, <1>7 DEF Labels
    <3>5. QED
      BY <3>1, <3>2, <3>3, <3>4
  <2>3. QED
    BY <2>2 DEF TeamInv, TypeOK
<1>10. \A d \in Cores :
         /\ pc'[d] \in Holding <=> pc[d] \in Holding
         /\ pc'[d] \in {"recruit", "take"} \/ pc[d] \in {"recruit", "take"} => pc'[d] = pc[d] /\ nthr'[d] = nthr[d]
         /\ pc'[d] \in {"lock", "resolve", "take"} <=> pc[d] \in {"lock", "resolve", "take"}
  BY <1>1, <1>8 DEF Holding
<1>11. /\ Regions' = Regions
       /\ \A u \in TeamIds : team'[u].procs = team[u].procs /\ Boss(u)' = Boss(u) /\ SlavesOf(u)' = SlavesOf(u) /\ Size(u)' = Size(u)
       /\ \A u \in TeamIds, i \in Int : Proc(u, i)' = Proc(u, i)
  <2>1. \A u \in TeamIds : team'[u].procs = team[u].procs
    BY <1>6, <1>8
  <2>2. QED
    BY <2>1 DEF Regions, Boss, SlavesOf, Proc, Size
<1>12. (\A d \in Cores \ {c} : Entered(d)' = Entered(d)) /\ Entered(c)' = Entered(c) \cup {t}
  <2>1. open' = open /\ open \subseteq TeamIds /\ new' = new
    BY <1>1 DEF TypeOK
  <2>2. \A d \in Cores \ {c} : Entered(d)' = Entered(d)
    BY <1>8, <1>11, <2>1 DEF Entered
  <2>3. c \in Range(team[t].procs)
    BY <1>1, <1>3, <1>4, RegionFacts DEF Boss
  <2>4. pc'[c] \notin Starting /\ pc[c] \in Starting
    BY <1>1, <1>8 DEF Starting
  <2>5. Entered(c)' = Entered(c) \cup {t}
    BY <1>2, <1>4, <1>11, <2>1, <2>3, <2>4 DEF Entered
  <2>6. QED
    BY <2>2, <2>5
<1>13. ASSUME NEW u \in Regions, u # t PROVE RegionInv(u)' /\ (Pending(u)' <=> Pending(u))
  <2>1. RegionInv(u) /\ ShapeInv(u) /\ Boss(u) \in Cores /\ u \in open /\ u \in TeamIds /\ u \in Nat /\ u # ROOT
    BY <1>1, RegionFacts DEF TeamInv, RegionInv, Regions, ShapeInv
  <2>2. Pending(u)' <=> Pending(u)
    <3>1. CASE Boss(u) = c
      BY <1>2, <1>8, <1>11, <1>13, <2>1, <3>1 DEF Pending, Starting
    <3>2. CASE Boss(u) # c
      BY <1>8, <1>11, <2>1, <3>2 DEF Pending
    <3>3. QED
      BY <3>1, <3>2
  <2>3. ASSUME NEW d \in Range(team[u].procs) PROVE Steady(d, u)
    <3>1. d \in Cores
      BY <1>1, <2>1, <2>3, ThreadsAreCores DEF TypeOK
    <3>2. SameFlags(d) /\ bars'[d][u] = bars[d][u]
      BY DEF SameFlags
    <3>3. d = c => Away(d, u) /\ Away(d, u)'
      BY <1>1, <1>8, <1>13 DEF Away, Opening, Starting
    <3>4. QED
      BY <1>8, <3>1, <3>2, <3>3 DEF Steady
  <2>4. \A v : v < u => (v \in Entered(Boss(u))' <=> v \in Entered(Boss(u)))
    <3>1. PICK m \in Cores : m = Boss(u)
      BY <2>1
    <3>2. Entered(Boss(u))' = Entered(m)'
      BY <1>11, <2>1, <3>1 DEF Entered
    <3>3. CASE m # c
      BY <1>12, <3>1, <3>2, <3>3
    <3>4. CASE m = c
      <4>1. c \in Range(team[u].procs)
        BY <1>1, <2>1, <3>1, <3>4, RegionFacts DEF Boss
      <4>2. u \in Entered(c)
        BY <1>2, <1>13, <2>1, <4>1 DEF Entered
      <4>3. u < t
        BY <1>3, <4>2
      <4>4. QED
        BY <1>4, <1>12, <2>1, <3>1, <3>2, <3>4, <4>3
    <3>5. QED
      BY <3>3, <3>4
  <2>5. nteams' \in Nat /\ nteams' >= nteams /\ team'[u] = team[u]
    BY <1>1, <1>8, <1>13, <2>1 DEF TypeOK
  <2>6. /\ (pc'[Boss(u)] = "recruit" /\ new'[Boss(u)] = u) <=> (pc[Boss(u)] = "recruit" /\ new[Boss(u)] = u)
        /\ pc[Boss(u)] = "recruit" => nthr'[Boss(u)] = nthr[Boss(u)]
    BY <1>10, <2>1
  <2>7. QED
    BY <1>1, <2>1, <2>2, <2>3, <2>4, <2>5, <2>6, RegionFrame
<1>14. RegionInv(t)'
  <2>1. Boss(t)' = c /\ Size(t)' = Size(t) /\ ~Pending(t)'
    BY <1>3, <1>4, <1>8, <1>11 DEF Pending, Starting
  <2>2. ShapeInv(t)'
    <3>1. /\ t \in 2 .. nteams /\ Size(t) > 0 /\ team[t].mask = Range(team[t].procs)
          /\ \A i, j \in 0 .. Size(t) - 1 : Proc(t, i) = Proc(t, j) => i = j
          /\ \A i \in 1 .. Size(t) - 1 : Proc(t, i) \in Slaves
          /\ Size(t) = team[t].nthreads
      BY <1>1, <1>3, <1>4 DEF ShapeInv
    <3>2. \A i \in 0 .. Size(t) - 1 : Proc(t, i)' = Proc(t, i)
      BY <1>4, <1>11
    <3>3. QED
      BY <1>4, <1>6, <1>8, <1>11, <2>1, <3>1, <3>2 DEF ShapeInv
  <2>3. ParentInv(t)'
    <3>1. team'[t].parent = p
      BY <1>6, <1>8
    <3>2. Entered(Boss(t))' = Entered(c) \cup {t}
      <4>1. Entered(Boss(t))' = Entered(c)'
        BY <2>1 DEF Entered
      <4>2. QED
        BY <1>12, <4>1
    <3>3. p \in Entered(c) \cup {t} /\ p < t /\ \A u \in Entered(c) \cup {t} : u < t => u <= p
      BY <1>3, <1>4
    <3>4. QED
      BY <3>1, <3>2, <3>3 DEF ParentInv
  <2>4. BossInv(t)'
    <3>1. Size(t) = team[t].nthreads /\ Size(t) \in Nat \ {0}
      BY <1>1, <1>3, <1>4 DEF ShapeInv
    <3>2. QED
      BY <1>3, <1>8, <2>1, <3>1 DEF BossInv
  <2>5. \A d \in Cores : bars[d][t] = 0 /\ bars'[d][t] = 0
    BY <1>3, <1>4 DEF TeamInv, FreshInv
  <2>6. (bars[Boss(t)][t] <= team[t].bars)'
    BY <1>3, <1>4, <1>6, <1>8, <2>1, <2>5 DEF RegionInv
  <2>7. ASSUME NEW i \in 1 .. Size(t) - 1 PROVE Handshake(t, i)'
    <3>1. PICK s : s = Proc(t, i)
      OBVIOUS
    <3>2. s \in Cores /\ s # c /\ Proc(t, i)' = s
      BY <1>1, <1>3, <1>4, <1>11, <3>1, RegionFacts
    <3>3. Docked(s, t)
      BY <1>3, <1>4, <3>1 DEF RegionInv, Handshake
    <3>4. Docked(s, t)' /\ bars'[s][t] = bars'[c][t]
      BY <1>8, <2>5, <3>2, <3>3 DEF Docked, Gathered
    <3>5. ~(i < k'[c]) /\ ~Inside(t)' /\ ~Ending(t)' /\ (\A y : ~At(t, "wait", y)') /\ ~At(t, "release", "barrier")'
      BY <1>3, <1>8, <2>1 DEF Inside, Ending, At, Opening, Starting
    <3>6. QED
      BY <2>1, <3>2, <3>4, <3>5 DEF Handshake
  <2>8. QED
    BY <2>1, <2>2, <2>3, <2>4, <2>6, <2>7 DEF RegionInv
<1>15. CoreInv(c)'
  <2>1. Boss(t)' = c
    BY <1>3, <1>4, <1>11
  <2>2. \A u \in Entered(c) : u \in TeamIds
    BY <1>1 DEF Entered, TypeOK
  <2>3. \A u \in Entered(c)' : u <= t
    BY <1>3, <1>4, <1>12, <2>2, ConstantsAssumption DEF TeamIds
  <2>4. \A v \in Entered(c)' \ {ROOT} : c # Boss(v)' => \A u \in Entered(c)' : v <= u
    <3> SUFFICES ASSUME NEW v \in Entered(c)' \ {ROOT}, c # Boss(v)', NEW u \in Entered(c)' PROVE v <= u
      OBVIOUS
    <3>1. v \in Entered(c) /\ v # t /\ v \in TeamIds /\ v \in Nat
      BY <1>12, <2>1, <2>2, ConstantsAssumption DEF TeamIds
    <3>2. v < t /\ (u # t => v <= u)
      BY <1>1, <1>3, <1>11, <1>12, <3>1 DEF CoreInv
    <3>3. QED
      BY <1>4, <3>1, <3>2
  <2>5. QED
    BY <1>8, <1>12, <2>1, <2>3, <2>4 DEF CoreInv, Opening, Starting, Closing
<1>16. ASSUME NEW d \in Cores, d # c PROVE CoreInv(d)'
  <2>1. Entered(d)' = Entered(d) /\ pc'[d] = pc[d] /\ curr'[d] = curr[d] /\ k'[d] = k[d] /\ new'[d] = new[d]
    BY <1>8, <1>12, <1>16
  <2>2. pc[d] \in Closing => curr[d] \in TeamIds \ open /\ team'[curr[d]] = team[curr[d]]
    BY <1>4, <1>8, ClosingTeam
  <2>3. pc[d] \in Starting => new[d] \in Regions
    BY DEF TeamInv, CoreInv
  <2>4. nteams' \in Nat /\ nteams' >= nteams
    BY <1>1 DEF TypeOK
  <2>5. QED
    BY <1>11, <2>1, <2>2, <2>3, <2>4, CoreFrame
<1>17. LockInv' /\ PoolInv' /\ FreshInv' /\ TeamsDisjoint'
  <2>1. Regions \subseteq TeamIds /\ open \subseteq TeamIds
    BY <1>1 DEF Regions, TypeOK
  <2>2. LockInv'
    BY <1>10, Zenon DEF TeamInv, LockInv
  <2>3. UNION {SlavesOf(u)' : u \in Regions} = UNION {SlavesOf(u) : u \in Regions}
    BY <1>11, <2>1
  <2>4. PoolInv'
    BY <1>10, <1>11, <2>3 DEF TeamInv, PoolInv
  <2>5. Asking' = Asking
    BY <1>10 DEF Asking
  <2>6. ~Pending(t)'
    BY <1>3, <1>4, <1>8, <1>11 DEF Pending, Starting
  <2>7. FreshInv'
    BY <1>11, <1>13, <2>5, <2>6 DEF TeamInv, FreshInv, Asking
  <2>8. TeamsDisjoint'
    BY <1>11, <2>1 DEF TeamInv, TeamsDisjoint
  <2>9. QED
    BY <2>2, <2>4, <2>7, <2>8
<1>18. /\ Normal /\ Normal' /\ nteams' >= 1 /\ ROOT \in open' /\ team'[ROOT] = RootTeam
       /\ pc'[MASTER_ID] \notin {"enter", "spin", "dispatch"}
       /\ curr'[MASTER_ID] = ROOT => pc'[MASTER_ID] \in {"run"} \cup Opening
  <2>1. Normal /\ nteams >= 1 /\ ROOT \in open /\ team[ROOT] = RootTeam
    BY <1>1, BusyNormal DEF Opening, Starting
  <2>2. MASTER_ID \in Cores /\ ROOT \in TeamIds
    BY ConstantsAssumption DEF MASTER_ID, Cores, ROOT, TeamIds
  <2>3. team'[ROOT] = RootTeam
    BY <1>4, <1>8, <2>1, <2>2
  <2>4. CASE c = MASTER_ID
    BY <1>4, <1>8, <2>1, <2>3, <2>4 DEF Normal, Boot, Exit
  <2>5. CASE c # MASTER_ID
    <3>1. pc'[MASTER_ID] = pc[MASTER_ID] /\ ret'[MASTER_ID] = ret[MASTER_ID] /\ curr'[MASTER_ID] = curr[MASTER_ID]
      BY <1>8, <2>2, <2>5
    <3>2. QED
      BY <2>1, <2>3, <3>1 DEF Normal, Boot, Exit, TeamInv, RootInv
  <2>6. QED
    BY <2>1, <2>4, <2>5
<1>19. ASSUME NEW s \in Slaves PROVE IdleInv(s)'
  <2>1. s \in Cores /\ IdleInv(s)
    BY DEF Slaves, TeamInv
  <2>2. curr[s] # OMP_SLAVE_EXIT /\ (Entered(s) = {} => ret[s] = "dock" /\ Gathered(s))
    BY <1>18, <2>1, IdleNormal
  <2>3. CASE s = c
    <3>1. t # OMP_SLAVE_EXIT
      BY <1>4, ConstantsAssumption DEF TeamIds, OMP_SLAVE_EXIT
    <3>2. QED
      BY <1>8, <1>12, <1>18, <2>3, <3>1, NormalStep
  <2>4. CASE s # c
    <3>1. Entered(s)' = Entered(s) /\ ret'[s] = ret[s] /\ (Gathered(s) => Gathered(s)') /\ curr'[s] = curr[s]
      BY <1>8, <1>12, <2>1, <2>4 DEF Gathered
    <3>2. QED
      BY <1>18, <2>2, <3>1, NormalStep
  <2>5. QED
    BY <2>3, <2>4
<1>20. RootInv'
  BY <1>18, NormalStep
<1>21. QED
  BY <1>9, <1>11, <1>13, <1>14, <1>15, <1>16, <1>17, <1>19, <1>20 DEF TeamInv

\* gomp_resolve_num_threads and gomp_new_team: a descriptor of the master alone.
LEMMA ResolveTakeInv == ASSUME TeamInv, NEW c \in Cores, ResolveTake(c) PROVE TeamInv'
<1> USE FlagsKept DEF ResolveTake, globals, locals, Goto
<1>1. /\ pc \in [Cores -> Labels] /\ team \in [TeamIds -> Descriptors] /\ TypeOK /\ new \in [Cores -> 0 .. MaxTeams]
      /\ CoreInv(c) /\ pc[c] = "take" /\ nteams \in 0 .. MaxTeams /\ nthr[c] \in 0 .. N /\ idle \in 0 .. N - 1
      /\ open \subseteq TeamIds
  BY DEF TeamInv, TypeOK
<1>2. PICK t : t = nteams + 1
  OBVIOUS
<1>3. PICK b \in 0 .. MaxBars :
        team' = [team EXCEPT ![t] = [procs |-> <<c>>, nthreads |-> nthr[c], mask |-> {c}, parent |-> NULL, bars |-> b]]
  BY <1>2
<1>4. PICK e : e = [procs |-> <<c>>, nthreads |-> nthr[c], mask |-> {c}, parent |-> NULL, bars |-> b]
  OBVIOUS
<1>5. Normal /\ nteams >= 1 /\ ROOT \in open /\ team[ROOT] = RootTeam /\ Entered(c) # {}
  BY <1>1, BusyNormal DEF Opening
<1>6. c \in Asking /\ Asking' = Asking \ {c} /\ Cardinality(Asking') = Cardinality(Asking) - 1 /\ Cardinality(Asking) >= 1
  <2>1. c \in Asking
    BY <1>1 DEF Asking
  <2>2. Asking' = Asking \ {c}
    BY <1>1 DEF Asking
  <2>3. Cardinality(Asking') = Cardinality(Asking) - 1
    BY <2>1, <2>2, AskingFinite, FS_RemoveElement
  <2>4. Cardinality(Asking') \in Nat
    BY AskingFinite, FS_CardinalityType
  <2>5. QED
    BY <2>1, <2>2, <2>3, <2>4, AskingFinite
<1>7. t \in TeamIds /\ t \in 2 .. MaxTeams /\ t # ROOT
  <2>1. nteams + Cardinality(Asking) <= MaxTeams
    BY DEF TeamInv, FreshInv, Asking
  <2>2. QED
    BY <1>1, <1>2, <1>5, <1>6, <2>1, AskingFinite, ConstantsAssumption DEF TeamIds, ROOT
<1>8. /\ team'[t] = e /\ \A u \in TeamIds \ {t} : team'[u] = team[u]
      /\ pc'[c] = "recruit" /\ new'[c] = t
      /\ \A d \in Cores \ {c} : pc'[d] = pc[d] /\ new'[d] = new[d]
  BY <1>1, <1>2, <1>3, <1>4, <1>7
<1>9. /\ e.procs = <<c>> /\ Len(e.procs) = 1 /\ e.procs[1] = c /\ Range(e.procs) = {c} /\ e.mask = {c} /\ e.nthreads = nthr[c]
      /\ e.bars = b /\ e.parent = NULL /\ e \in Descriptors
  <2>1. /\ e.procs = <<c>> /\ e.mask = {c} /\ e.nthreads = nthr[c] /\ e.bars = b /\ e.parent = NULL
    BY <1>4
  <2>2. <<c>> \in Seq(Cores) /\ Len(<<c>>) = 1 /\ <<c>>[1] = c
    OBVIOUS
  <2>3. Range(<<c>>) = {c}
    BY DEF Range
  <2>4. NULL \in 0 .. MaxTeams /\ {c} \in SUBSET Cores
    BY ConstantsAssumption DEF NULL
  <2>5. e \in Descriptors
    BY <1>1, <1>4, <2>2, <2>4 DEF Descriptors
  <2>6. QED
    BY <2>1, <2>2, <2>3, <2>5
<1>10. /\ nthr[c] > 0 /\ idle' = N - Cardinality(pool) - (nthr[c] - 1) /\ nthr[c] \in 1 .. idle + 1
       /\ idle' \in 0 .. N - 1
       /\ \A d \in Cores \ {c} : pc[d] \notin Holding
  <2>1. \A d \in Cores \ {c} : pc[d] \notin Holding
    BY <1>1 DEF TeamInv, LockInv, Holding
  <2>2. \A d \in Cores : pc[d] # "recruit"
    BY <1>1, <2>1 DEF Holding
  <2>3. idle = N - Cardinality(pool) /\ nthr[c] \in 1 .. idle + 1
    BY <1>1, <1>5, <2>2 DEF TeamInv, PoolInv
  <2>4. IsFiniteSet(pool)
    BY AskingFinite, FS_Subset DEF TeamInv, TypeOK
  <2>5. Cardinality(pool) \in Nat
    BY <2>4, FS_CardinalityType
  <2>6. QED
    BY <1>1, <2>1, <2>3, <2>5, ConstantsAssumption
<1>11. TypeOK'
  <2>1. team' \in [TeamIds -> Descriptors]
    BY <1>1, <1>3, <1>4, <1>9
  <2>2. pc' \in [Cores -> Labels]
    BY <1>1 DEF Labels
  <2>3. new' \in [Cores -> 0 .. MaxTeams] /\ nteams' \in 0 .. MaxTeams
    BY <1>1, <1>2, <1>7, ConstantsAssumption
  <2>4. open' \subseteq TeamIds
    BY <1>1, <1>2, <1>7
  <2>5. QED
    BY <1>10, <2>1, <2>2, <2>3, <2>4 DEF TeamInv, TypeOK
<1>12. \A u \in TeamIds : u <= nteams => u # t
  BY <1>1, <1>2
<1>13. t \notin open /\ Regions' = Regions \cup {t} /\ \A u \in Regions : u \in TeamIds /\ u <= nteams /\ u # t
  <2>1. \A u \in Regions : u \in TeamIds /\ u <= nteams
    BY <1>1 DEF TeamInv, Regions, RegionInv, ShapeInv
  <2>2. Regions' = Regions \cup {t} /\ t \notin open
    BY <1>1, <1>2, <1>7, <1>12, <2>1 DEF Regions
  <2>3. QED
    BY <1>12, <2>1, <2>2
<1>14. /\ \A u \in TeamIds \ {t} : Boss(u)' = Boss(u) /\ SlavesOf(u)' = SlavesOf(u) /\ Size(u)' = Size(u)
       /\ Boss(t)' = c /\ Size(t)' = 1 /\ SlavesOf(t)' = {}
  <2>1. \A u \in TeamIds \ {t} : Boss(u)' = Boss(u) /\ SlavesOf(u)' = SlavesOf(u) /\ Size(u)' = Size(u)
    <3> SUFFICES ASSUME NEW u \in TeamIds \ {t}
                 PROVE  Boss(u)' = Boss(u) /\ SlavesOf(u)' = SlavesOf(u) /\ Size(u)' = Size(u)
      OBVIOUS
    <3>1. team'[u] = team[u]
      BY <1>8
    <3>2. QED
      BY <3>1 DEF Boss, SlavesOf, Proc, Size
  <2>2. Boss(t)' = c /\ Size(t)' = 1
    BY <1>8, <1>9 DEF Boss, Proc, Size
  <2>3. SlavesOf(t)' = {}
    <3>1. 1 .. Len(team'[t].procs) - 1 = {}
      <4>1. Len(team'[t].procs) = 1
        BY <1>8, <1>9
      <4>2. 1 - 1 = 0 /\ 1 .. 0 = {}
        OBVIOUS
      <4>3. QED
        BY <4>1, <4>2, Zenon
    <3>2. QED
      BY <3>1 DEF SlavesOf
  <2>4. QED
    BY <2>1, <2>2, <2>3
<1>15. \A d \in Cores : Entered(d)' = Entered(d)
  <2>1. open' = open \cup {t}
    BY <1>2
  <2>2. \A u \in open : team'[u] = team[u] /\ u # t
    BY <1>1, <1>8, <1>13
  <2>3. \A d \in Cores \ {c} : Entered(d)' = Entered(d)
    BY <1>7, <1>8, <1>9, <2>1, <2>2 DEF Entered
  <2>4. pc[c] \notin Starting /\ pc'[c] \in Starting
    BY <1>1, <1>8 DEF Starting
  <2>5. Entered(c)' = Entered(c)
    BY <1>7, <1>8, <2>1, <2>2, <2>4 DEF Entered
  <2>6. QED
    BY <2>3, <2>5
<1>16. ASSUME NEW u \in Regions PROVE RegionInv(u)' /\ (Pending(u)' <=> Pending(u))
  <2>1. RegionInv(u) /\ ShapeInv(u) /\ Boss(u) \in Cores /\ u \in open /\ u \in TeamIds /\ u # t
    BY <1>1, <1>13, RegionFacts DEF TeamInv, RegionInv, Regions
  <2>2. Pending(u)' <=> Pending(u)
    <3>1. CASE Boss(u) = c
      BY <1>1, <1>8, <1>14, <2>1, <3>1 DEF Pending, Starting
    <3>2. CASE Boss(u) # c
      BY <1>8, <1>14, <2>1, <3>2 DEF Pending
    <3>3. QED
      BY <3>1, <3>2
  <2>3. ASSUME NEW d \in Range(team[u].procs) PROVE Steady(d, u)
    <3>1. d \in Cores
      BY <1>1, <2>1, <2>3, ThreadsAreCores
    <3>2. SameFlags(d) /\ bars'[d][u] = bars[d][u] /\ curr' = curr
      BY DEF SameFlags
    <3>3. d = c => Away(d, u) /\ Away(d, u)'
      BY <1>1, <1>8 DEF Away, Opening, Starting
    <3>4. QED
      BY <1>8, <3>1, <3>2, <3>3 DEF Steady
  <2>4. Entered(Boss(u))' = Entered(Boss(u))
    <3>1. PICK m \in Cores : m = Boss(u)
      BY <2>1
    <3>2. Entered(Boss(u))' = Entered(m)'
      BY <1>14, <2>1, <3>1 DEF Entered
    <3>3. QED
      BY <1>15, <3>1, <3>2
  <2>5. nteams' \in Nat /\ nteams' >= nteams /\ team'[u] = team[u]
    BY <1>1, <1>8, <2>1
  <2>6. /\ (pc'[Boss(u)] = "recruit" /\ new'[Boss(u)] = u) <=> (pc[Boss(u)] = "recruit" /\ new[Boss(u)] = u)
        /\ nthr'[Boss(u)] = nthr[Boss(u)]
    BY <1>1, <1>8, <2>1
  <2>7. QED
    BY <1>1, <2>1, <2>2, <2>3, <2>4, <2>5, <2>6, RegionFrame
<1>17. \A d \in Cores : bars[d][t] = 0 /\ bars'[d][t] = 0
  BY <1>1, <1>2, <1>7 DEF TeamInv, FreshInv
<1>18. Pending(t)' /\ RegionInv(t)'
  <2>1. Pending(t)'
    BY <1>8, <1>14 DEF Pending, Starting
  <2>2. ShapeInv(t)'
    <3>1. t \in 2 .. nteams'
      BY <1>1, <1>2, <1>7
    <3>2. Boss(t)' = c /\ Size(t)' = 1 /\ team'[t].procs = <<c>>
      BY <1>8, <1>9, <1>14
    <3>3. team'[t].mask = Range(team'[t].procs) /\ team'[t].nthreads = nthr'[c] /\ pc'[c] = "recruit" /\ new'[c] = t
      BY <1>8, <1>9
    <3>4. QED
      BY <3>1, <3>2, <3>3 DEF ShapeInv
  <2>3. ParentInv(t)' /\ BossInv(t)'
    BY <2>1 DEF ParentInv, BossInv
  <2>4. (bars[Boss(t)][t] <= team[t].bars)'
    BY <1>8, <1>9, <1>14, <1>17
  <2>5. QED
    BY <1>14, <2>1, <2>2, <2>3, <2>4 DEF RegionInv
<1>19. CoreInv(c)'
  <2>1. t \in Regions' /\ Boss(t)' = c /\ \A u \in Entered(c) : u < t
    <3>1. \A u \in Entered(c) : u < t
      BY <1>1, <1>2, EnteredBound, ConstantsAssumption DEF TeamIds
    <3>2. QED
      BY <1>13, <1>14, <3>1
  <2>2. \A u \in Entered(c) : Boss(u)' = Boss(u)
    BY <1>12, <1>14, EnteredBound
  <2>3. QED
    BY <1>1, <1>8, <1>15, <2>1, <2>2 DEF CoreInv, Opening, Starting, Closing
<1>20. ASSUME NEW d \in Cores, d # c PROVE CoreInv(d)'
  <2>1. Entered(d)' = Entered(d) /\ pc'[d] = pc[d] /\ curr'[d] = curr[d] /\ k'[d] = k[d] /\ new'[d] = new[d]
    BY <1>8, <1>15, <1>20
  <2>2. pc[d] \in Closing => curr[d] \notin open' /\ team'[curr[d]] = team[curr[d]]
    BY <1>2, <1>8, <1>12, ClosingTeam
  <2>3. pc[d] \in Starting => new[d] \in Regions'
    BY <1>13 DEF TeamInv, CoreInv
  <2>4. nteams' \in Nat /\ nteams' >= nteams
    BY <1>1
  <2>5. \A u \in TeamIds : u <= nteams => Boss(u)' = Boss(u)
    BY <1>12, <1>14
  <2>6. QED
    BY <2>1, <2>2, <2>3, <2>4, <2>5, CoreFrame
<1>21. LockInv' /\ PoolInv' /\ FreshInv' /\ TeamsDisjoint'
  <2>1. \A d \in Cores : pc'[d] \in Holding <=> pc[d] \in Holding
    BY <1>1, <1>8 DEF Holding
  <2>2. LockInv'
    BY <2>1, Zenon DEF TeamInv, LockInv
  <2>3. UNION {SlavesOf(u)' : u \in Regions'} = UNION {SlavesOf(u) : u \in Regions}
    BY <1>13, <1>14
  <2>4. \A d \in Cores : pc'[d] # "take" /\ (pc'[d] = "recruit" => d = c)
    BY <1>8, <1>10 DEF Holding
  <2>5. PoolInv'
    <3>1. pool' = {MASTER_ID} \cup UNION {SlavesOf(u)' : u \in Regions'}
      BY <1>5, <2>3, <1>1 DEF TeamInv, PoolInv
    <3>2. nthr' = nthr /\ pc'[c] = "recruit"
      BY <1>8
    <3>3. QED
      BY <1>10, <2>4, <3>1, <3>2 DEF PoolInv
  <2>6. FreshInv'
    <3>1. nteams' + Cardinality(Asking') <= MaxTeams
      BY <1>1, <1>6, AskingFinite, ConstantsAssumption DEF TeamInv, FreshInv, Asking
    <3>2. ASSUME NEW u \in TeamIds, u > nteams' \/ (u \in Regions' /\ Pending(u)'), NEW d \in Cores PROVE bars'[d][u] = 0
      <4>1. CASE u = t
        BY <1>17, <4>1
      <4>2. CASE u # t
        <5>1. u > nteams \/ (u \in Regions /\ Pending(u))
          BY <1>1, <1>13, <1>16, <3>2, <4>2, ConstantsAssumption DEF TeamIds
        <5>2. QED
          BY <5>1 DEF TeamInv, FreshInv
      <4>3. QED
        BY <4>1, <4>2
    <3>3. QED
      BY <3>1, <3>2 DEF FreshInv, Asking
  <2>7. TeamsDisjoint'
    <3>1. \A u, v \in Regions' : u # v => SlavesOf(u)' \cap SlavesOf(v)' = {}
      BY <1>13, <1>14 DEF TeamInv, TeamsDisjoint, Regions
    <3>2. QED
      BY <3>1 DEF TeamsDisjoint, Regions
  <2>8. QED
    BY <2>2, <2>5, <2>6, <2>7
<1>22. /\ Normal' /\ nteams' >= 1 /\ ROOT \in open' /\ team'[ROOT] = RootTeam
       /\ pc'[MASTER_ID] \notin {"enter", "spin", "dispatch"}
       /\ curr'[MASTER_ID] = ROOT => pc'[MASTER_ID] \in {"run"} \cup Opening
  <2>1. MASTER_ID \in Cores /\ ROOT \in TeamIds
    BY ConstantsAssumption DEF MASTER_ID, Cores, ROOT, TeamIds
  <2>2. team'[ROOT] = RootTeam /\ nteams' >= 1 /\ ROOT \in open'
    BY <1>1, <1>5, <1>7, <1>8, <2>1
  <2>3. CASE c = MASTER_ID
    BY <1>5, <1>8, <2>2, <2>3 DEF Normal, Boot, Exit, Opening, Starting
  <2>4. CASE c # MASTER_ID
    BY <1>5, <1>8, <2>1, <2>2, <2>4 DEF Normal, Boot, Exit, TeamInv, RootInv
  <2>5. QED
    BY <2>3, <2>4
<1>23. ASSUME NEW s \in Slaves PROVE IdleInv(s)'
  <2>1. s \in Cores /\ IdleInv(s)
    BY DEF Slaves, TeamInv
  <2>2. curr[s] # OMP_SLAVE_EXIT /\ (Entered(s) = {} => ret[s] = "dock" /\ Gathered(s) /\ s # c)
    BY <1>5, <2>1, IdleNormal
  <2>3. Entered(s)' = Entered(s) /\ ret'[s] = ret[s] /\ (s # c /\ Gathered(s) => Gathered(s)') /\ curr'[s] = curr[s]
    BY <1>8, <1>15, <2>1 DEF Gathered
  <2>4. QED
    BY <1>22, <2>2, <2>3, NormalStep
<1>24. RootInv'
  BY <1>22, NormalStep
<1>25. QED
  BY <1>11, <1>13, <1>16, <1>18, <1>19, <1>20, <1>21, <1>23, <1>24 DEF TeamInv

\* A list without repetition has as many members as entries.
LEMMA ListCard ==
  ASSUME NEW n \in Nat, NEW S, NEW f \in [1 .. n -> S],
         \A i, j \in 1 .. n : f[i] = f[j] => i = j, \A x \in S : \E i \in 1 .. n : f[i] = x
  PROVE  IsFiniteSet(S) /\ Cardinality(S) = n
<1>1. f \in Bijection(1 .. n, S)
  BY DEF Bijection, Injection, Surjection, IsInjective
<1>2. IsFiniteSet(1 .. n) /\ Cardinality(1 .. n) = n
  <2>1. IsFiniteSet(1 .. n) /\ Cardinality(1 .. n) = IF 1 > n THEN 0 ELSE n - 1 + 1
    BY FS_Interval
  <2>2. QED
    BY <2>1
<1>3. QED
  BY <1>1, <1>2, FS_Bijection DEF ExistsBijection

\* The cores the recruiting loop has taken when it has looked at the first i slaves.
Takes(q, i, want) ==
  /\ q \in Seq(Nat) /\ Len(q) <= want
  /\ \A x \in 1 .. Len(q) : q[x] \in 1 .. i /\ Available(q[x])
  /\ \A x, y \in 1 .. Len(q) : q[x] = q[y] => x = y
  /\ Len(q) < want => \A p \in 1 .. i : Available(p) => \E x \in 1 .. Len(q) : q[x] = p

\* It takes different, available cores: as many as wanted, or all there are.
LEMMA RecruitsResult == ASSUME NEW want \in Nat PROVE Takes(Recruits(want), N - 1, want)
<1> DEFINE Turn(q, i) == IF Len(q) < want /\ Available(i) THEN Append(q, i) ELSE q
           Turns(f) == f = [i \in 0 .. N - 1 |-> IF i = 0 THEN << >> ELSE
                              IF Len(f[i - 1]) < want /\ Available(i) THEN Append(f[i - 1], i) ELSE f[i - 1]]
           taken == CHOOSE f : Turns(f)
           body == [w \in Seq(Nat) \X (0 .. N - 2) |-> Turn(w[1], w[2] + 1)]
<1>1. N - 1 \in Nat /\ (N - 1) - 1 = N - 2 /\ << >> \in Seq(Nat)
  BY ConstantsAssumption
<1>2. body \in Bodies(Seq(Nat), N - 1)
  <2>1. ASSUME NEW q \in Seq(Nat), NEW i \in 0 .. N - 2 PROVE Turn(q, i + 1) \in Seq(Nat)
    BY <1>1
  <2>2. body \in [Seq(Nat) \X (0 .. N - 2) -> Seq(Nat)]
    BY <2>1
  <2>3. QED
    BY <1>1, <2>2 DEF Bodies
<1>3. PICK f : IsLoop(f, Seq(Nat), N - 1, << >>, body)
  <2> HIDE DEF body
  <2>1. QED
    BY <1>1, <1>2, Loop
<1>4. Turns(f)
  <2>1. f = [i \in 0 .. N - 1 |-> f[i]] /\ f[0] = << >>
    BY <1>3 DEF IsLoop
  <2>2. ASSUME NEW i \in 1 .. N - 1 PROVE f[i] = Turn(f[i - 1], i)
    <3>1. f[i - 1] \in Seq(Nat) /\ i - 1 \in 0 .. N - 2 /\ (i - 1) + 1 = i
      BY <1>1, <1>3 DEF IsLoop
    <3>2. f[i] = body[<<f[i - 1], i - 1>>]
      BY <1>3 DEF IsLoop
    <3>3. QED
      BY <3>1, <3>2
  <2>3. ASSUME NEW i \in 0 .. N - 1
        PROVE  f[i] = IF i = 0 THEN << >> ELSE
                        IF Len(f[i - 1]) < want /\ Available(i) THEN Append(f[i - 1], i) ELSE f[i - 1]
    <3>1. CASE i = 0
      BY <2>1, <3>1
    <3>2. CASE i # 0
      <4>1. i \in 1 .. N - 1
        BY <1>1, <3>2
      <4>2. f[i] = Turn(f[i - 1], i)
        BY <2>2, <4>1
      <4>3. QED
        BY <3>2, <4>2, Zenon
    <3>3. QED
      BY <3>1, <3>2
  <2>4. QED
    BY <2>1, <2>3, Zenon
<1>5. Turns(taken)
  <2> HIDE DEF Turns
  <2>1. QED
    BY <1>4
<1>6. taken[0] = << >> /\ \A i \in 1 .. N - 1 : taken[i] = Turn(taken[i - 1], i)
  <2> HIDE DEF taken
  <2>1. 0 \in 0 .. N - 1 /\ \A i \in 1 .. N - 1 : i \in 0 .. N - 1 /\ i # 0
    BY <1>1
  <2>2. taken[0] = << >>
    BY <1>5, <2>1, Zenon
  <2>3. ASSUME NEW i \in 1 .. N - 1 PROVE taken[i] = Turn(taken[i - 1], i)
    BY <1>5, <2>1, Zenon
  <2>4. QED
    BY <2>2, <2>3
<1>7. Recruits(want) = taken[N - 1]
  BY DEF Recruits
<1> DEFINE Good == {i \in 0 .. N - 1 : Takes(taken[i], i, want)}
<1>8. 0 \in Good
  <2> HIDE DEF taken
  <2>1. << >> \in Seq(Nat) /\ Len(<< >>) = 0 /\ 1 .. 0 = {} /\ 0 <= want /\ 0 \in 0 .. N - 1
    BY <1>1
  <2>2. QED
    BY <1>1, <1>6, <2>1 DEF Takes
<1>9. ASSUME NEW i \in 0 .. (N - 1) - 1, i \in Good PROVE i + 1 \in Good
  <2> HIDE DEF taken
  <2>1. PICK q, j : q = taken[i] /\ j = i + 1
    OBVIOUS
  <2>2. Takes(q, i, want) /\ j \in 1 .. N - 1 /\ taken[j] = Turn(q, j) /\ j \in Nat /\ i \in Nat /\ i + 1 = j
    <3>1. j \in 1 .. N - 1 /\ j - 1 = i /\ i \in Nat
      BY <1>1, <2>1
    <3>2. QED
      BY <1>6, <1>9, <2>1, <3>1
  <2>3. q \in Seq(Nat) /\ Len(q) \in Nat /\ \A x \in 1 .. Len(q) : q[x] \in 1 .. i /\ Available(q[x])
    BY <2>2 DEF Takes
  <2>4. CASE Len(q) < want /\ Available(j)
    <3>0. \A v \in 1 .. i : v \in 1 .. j /\ v # j
      BY <2>2
    <3>1. PICK r : r = Append(q, j)
      OBVIOUS
    <3>2. taken[j] = r /\ r \in Seq(Nat) /\ Len(r) = Len(q) + 1 /\ r[Len(q) + 1] = j /\ \A x \in 1 .. Len(q) : r[x] = q[x]
      BY <2>2, <2>3, <2>4, <3>1
    <3>3. \A x \in 1 .. Len(r) : x = Len(q) + 1 \/ x \in 1 .. Len(q)
      BY <2>3, <3>2
    <3>4. \A x \in 1 .. Len(r) : r[x] \in 1 .. j /\ Available(r[x])
      <4> SUFFICES ASSUME NEW x \in 1 .. Len(r) PROVE r[x] \in 1 .. j /\ Available(r[x])
        OBVIOUS
      <4>1. CASE x = Len(q) + 1
        <5>1. r[x] = j /\ j \in 1 .. j
          BY <2>2, <3>2, <4>1
        <5>2. QED
          BY <2>4, <5>1
      <4>2. CASE x \in 1 .. Len(q)
        BY <2>3, <3>2, <3>0, <4>2
      <4>3. QED
        BY <3>3, <4>1, <4>2
    <3>5. ASSUME NEW x \in 1 .. Len(r), NEW y \in 1 .. Len(r), r[x] = r[y] PROVE x = y
      <4>1. \A z \in 1 .. Len(q) : r[z] # j
        BY <2>3, <3>2, <3>0
      <4>2. \A z, w \in 1 .. Len(q) : q[z] = q[w] => z = w
        BY <2>2 DEF Takes
      <4>3. QED
        BY <3>2, <3>3, <3>5, <4>1, <4>2
    <3>6. ASSUME NEW p \in 1 .. j, Available(p) PROVE \E x \in 1 .. Len(r) : r[x] = p
      <4>1. CASE p = j
        BY <2>3, <3>2, <4>1
      <4>2. CASE p # j
        <5>1. p \in 1 .. i
          BY <2>2, <4>2
        <5>2. PICK x \in 1 .. Len(q) : q[x] = p
          BY <2>2, <2>4, <3>6, <5>1 DEF Takes
        <5>3. x \in 1 .. Len(r) /\ r[x] = p
          BY <2>3, <3>2, <5>2
        <5>4. QED
          BY <5>3
      <4>3. QED
        BY <4>1, <4>2
    <3>7. Takes(r, j, want)
      BY <2>3, <2>4, <3>2, <3>4, <3>5, <3>6 DEF Takes
    <3>8. QED
      BY <2>1, <2>2, <3>2, <3>7
  <2>5. CASE ~(Len(q) < want /\ Available(j))
    <3>1. taken[j] = q /\ \A x \in 1 .. i : x \in 1 .. j
      BY <2>2, <2>5
    <3>2. Len(q) < want => \A p \in 1 .. j : Available(p) => \E x \in 1 .. Len(q) : q[x] = p
      <4>1. \A p \in 1 .. j : p = j \/ p \in 1 .. i
        BY <2>2
      <4>2. QED
        BY <2>2, <2>5, <4>1 DEF Takes
    <3>3. Takes(q, j, want)
      BY <2>2, <3>1, <3>2 DEF Takes
    <3>4. QED
      BY <2>1, <2>2, <3>1, <3>3
  <2>6. QED
    BY <2>4, <2>5
<1>10. N - 1 \in Good
  <2> HIDE DEF Good
  <2>1. QED
    BY <1>1, <1>8, <1>9, SetInduction
<1>11. QED
  BY <1>7, <1>10

\* A region has as many slaves as its list of threads says, and they are its mask without the master.
LEMMA SlavesCount ==
  ASSUME TypeOK, NEW t \in Regions, ShapeInv(t)
  PROVE  /\ IsFiniteSet(SlavesOf(t)) /\ Cardinality(SlavesOf(t)) = Size(t) - 1
         /\ team[t].mask \ {Boss(t)} = SlavesOf(t)
<1>1. /\ Size(t) \in Nat \ {0}
      /\ \A c \in Range(team[t].procs) : c = Boss(t) \/ \E i \in 1 .. Size(t) - 1 : c = Proc(t, i)
      /\ \A i \in 1 .. Size(t) - 1 : Proc(t, i) # Boss(t) /\ Proc(t, i) \in SlavesOf(t) /\ Proc(t, i) \in Range(team[t].procs)
      /\ \A c \in SlavesOf(t) : \E i \in 1 .. Size(t) - 1 : c = Proc(t, i)
  BY RegionFacts
<1>2. PICK f : f = [i \in 1 .. Size(t) - 1 |-> Proc(t, i)]
  OBVIOUS
<1>3. \A i, j \in 1 .. Size(t) - 1 : f[i] = f[j] => i = j
  BY <1>1, <1>2 DEF ShapeInv
<1>4. f \in [1 .. Size(t) - 1 -> SlavesOf(t)] /\ \A x \in SlavesOf(t) : \E i \in 1 .. Size(t) - 1 : f[i] = x
  BY <1>1, <1>2
<1>5. Size(t) - 1 \in Nat
  BY <1>1
<1>6. IsFiniteSet(SlavesOf(t)) /\ Cardinality(SlavesOf(t)) = Size(t) - 1
  BY <1>3, <1>4, <1>5, ListCard
<1>7. team[t].mask \ {Boss(t)} = SlavesOf(t)
  BY <1>1 DEF ShapeInv
<1>8. QED
  BY <1>6, <1>7

\* There are N cores.
LEMMA CoresCount == IsFiniteSet(Cores) /\ Cardinality(Cores) = N
  BY FS_Interval, ConstantsAssumption DEF Cores

\* The pool, as a set of cores.
LEMMA PoolFinite ==
  ASSUME TeamInv, nteams > 0
  PROVE  IsFiniteSet(pool) /\ Cardinality(pool) \in 1 .. N /\ MASTER_ID \in pool /\ pool \subseteq Cores
<1>1. pool \subseteq Cores /\ MASTER_ID \in pool
  BY DEF TeamInv, TypeOK, PoolInv
<1>2. IsFiniteSet(Cores) /\ Cardinality(Cores) = N
  BY CoresCount
<1>3. IsFiniteSet(pool) /\ Cardinality(pool) <= Cardinality(Cores) /\ Cardinality(pool) \in Nat
  BY <1>1, <1>2, FS_Subset, FS_CardinalityType
<1>4. Cardinality(pool) # 0
  BY <1>1, <1>3, FS_EmptySet
<1>5. QED
  BY <1>1, <1>2, <1>3, <1>4, ConstantsAssumption

\* gomp_team_end: the slaves go back to the pool, all of them docked.
LEMMA TeamEndFreeInv == ASSUME TeamInv, NEW c \in Cores, TeamEndFree(c) PROVE TeamInv'
<1> USE FlagsKept DEF TeamEndFree, globals, locals, Goto
<1>1. /\ pc \in [Cores -> Labels] /\ TypeOK /\ CoreInv(c) /\ pc[c] = "endfree" /\ nteams \in Nat /\ idle \in 0 .. N - 1
      /\ open \subseteq TeamIds
  BY DEF TeamInv, TypeOK
<1>2. PICK t : t = curr[c]
  OBVIOUS
<1>3. Normal /\ nteams >= 1 /\ ROOT \in open /\ team[ROOT] = RootTeam
  BY <1>1, BusyNormal
<1>4. t \in Entered(c) /\ t \in Regions /\ Boss(t) = c /\ ~Pending(t) /\ (\A u \in Entered(c) : u <= t) /\ k[c] = 1
  <2>1. k[c] = 1
    BY <1>1 DEF CoreInv
  <2>2. QED
    BY <1>1, <1>2, <1>3, <2>1, MasterAt DEF Normal
<1>5. RegionInv(t) /\ ShapeInv(t) /\ ParentInv(t) /\ t \in TeamIds /\ t \in Nat /\ t # ROOT /\ t <= nteams /\ t \in 2 .. nteams
  BY <1>4 DEF TeamInv, RegionInv, ShapeInv, Regions, TypeOK
<1>6. Size(t) = team[t].nthreads /\ Size(t) \in Nat \ {0}
  BY <1>1, <1>4, <1>5, RegionFacts DEF ShapeInv
<1>7. /\ pc'[c] = "endunlock" /\ \A d \in Cores \ {c} : pc'[d] = pc[d]
      /\ pool' = pool \ SlavesOf(t) /\ idle' = idle + (Size(t) - 1) /\ open' = open \ {t}
  <2>1. team[t].mask \ {c} = SlavesOf(t)
    BY <1>1, <1>4, <1>5, SlavesCount
  <2>2. pool' = pool \ SlavesOf(t) /\ idle' = idle + (Size(t) - 1) /\ open' = open \ {t}
    BY <1>2, <1>6, <2>1 DEF Mine
  <2>3. QED
    BY <1>1, <2>2
<1>8. \A s \in SlavesOf(t) : Docked(s, t) /\ s \in Slaves /\ s # c /\ Entered(s) = {t}
  <2> SUFFICES ASSUME NEW s \in SlavesOf(t) PROVE Docked(s, t) /\ s \in Slaves /\ s # c /\ Entered(s) = {t}
    OBVIOUS
  <2>1. PICK i \in 1 .. Size(t) - 1 : s = Proc(t, i)
    BY <1>1, <1>4, <1>5, RegionFacts
  <2>2. Docked(s, t)
    BY <1>1, <1>2, <1>4, <1>5, <2>1 DEF RegionInv, Handshake, Ending
  <2>3. t \in Entered(s) /\ s \in Slaves /\ s # c /\ s \in Cores
    BY <1>4, SlaveEntered DEF Slaves
  <2>4. CoreInv(s) /\ pc[s] = "spin" /\ curr[s] = t
    BY <2>2, <2>3 DEF TeamInv, Docked, Gathered
  <2>5. \A u \in Entered(s) : u <= t /\ t <= u /\ u \in Nat
    BY <1>4, <1>5, <2>3, <2>4, EnteredFacts DEF CoreInv, Closing
  <2>6. Entered(s) = {t}
    <3>1. \A u \in Entered(s) : u = t
      BY <1>5, <2>5
    <3>2. QED
      BY <2>3, <3>1
  <2>7. QED
    BY <2>2, <2>3, <2>6
<1>9. \A d \in Cores :
        /\ pc'[d] \in Starting <=> pc[d] \in Starting
        /\ pc'[d] \in Holding <=> pc[d] \in Holding
        /\ pc[d] \notin {"recruit", "take"} /\ pc'[d] \notin {"recruit", "take"}
        /\ pc'[d] \in {"lock", "resolve", "take"} <=> pc[d] \in {"lock", "resolve", "take"}
  <2>1. \A d \in Cores \ {c} : pc[d] \notin Holding
    BY <1>1 DEF TeamInv, LockInv, Holding
  <2>2. QED
    BY <1>1, <1>7, <2>1 DEF Starting, Holding
<1>10. Regions' = Regions \ {t} /\ \A u : Boss(u)' = Boss(u) /\ SlavesOf(u)' = SlavesOf(u) /\ Size(u)' = Size(u)
  BY <1>7 DEF Regions, Boss, SlavesOf, Proc, Size
<1>11. \A d \in Cores : Entered(d)' = Entered(d) \ {t}
  BY <1>7, <1>9 DEF Entered
<1>12. \A d \in Cores : t \in Entered(d) => d = c \/ d \in SlavesOf(t)
  <2> SUFFICES ASSUME NEW d \in Cores, t \in Entered(d) PROVE d = c \/ d \in SlavesOf(t)
    OBVIOUS
  <2>1. d = Boss(t) \/ \E i \in 1 .. Size(t) - 1 : d = Proc(t, i)
    BY <1>5, EnteredFacts
  <2>2. QED
    BY <1>4, <2>1, Others
<1>13. pool' = {MASTER_ID} \cup UNION {SlavesOf(u) : u \in Regions \ {t}} /\ idle' = N - Cardinality(pool') /\ idle' \in 0 .. N - 1
  <2>1. pool = {MASTER_ID} \cup UNION {SlavesOf(u) : u \in Regions} /\ idle = N - Cardinality(pool)
    BY <1>1, <1>3, <1>9 DEF TeamInv, PoolInv
  <2>2. \A u \in Regions \ {t} : SlavesOf(u) \cap SlavesOf(t) = {}
    BY <1>4 DEF TeamInv, TeamsDisjoint, Regions
  <2>3. MASTER_ID \notin SlavesOf(t)
    BY <1>8 DEF Slaves
  <2>4. pool' = {MASTER_ID} \cup UNION {SlavesOf(u) : u \in Regions \ {t}}
    BY <1>7, <2>1, <2>2, <2>3
  <2>5. IsFiniteSet(pool) /\ Cardinality(pool) \in 1 .. N
    BY <1>1, <1>3, PoolFinite
  <2>6. pool \cap SlavesOf(t) = SlavesOf(t)
    BY <1>4, <2>1
  <2>7. Cardinality(SlavesOf(t)) = Size(t) - 1
    BY <1>1, <1>4, <1>5, SlavesCount
  <2>8. IsFiniteSet(pool') /\ Cardinality(pool') = Cardinality(pool) - (Size(t) - 1)
    <3>1. /\ IsFiniteSet(pool \ SlavesOf(t))
          /\ Cardinality(pool \ SlavesOf(t)) = Cardinality(pool) - Cardinality(pool \cap SlavesOf(t))
      BY <2>5, FS_Difference, Zenon
    <3>2. QED
      BY <1>7, <2>6, <2>7, <3>1
  <2>9. Cardinality(pool') \in Nat /\ Cardinality(pool') # 0
    BY <2>4, <2>8, FS_CardinalityType, FS_EmptySet
  <2>10. QED
    BY <1>1, <1>6, <1>7, <2>1, <2>4, <2>5, <2>8, <2>9, ConstantsAssumption
<1>14. TypeOK'
  <2>1. pool' \subseteq Cores /\ open' \subseteq TeamIds
    BY <1>1, <1>7 DEF TypeOK
  <2>2. pc' \in [Cores -> Labels]
    BY <1>1 DEF Labels
  <2>3. QED
    BY <1>13, <2>1, <2>2 DEF TeamInv, TypeOK
<1>15. ASSUME NEW u \in Regions, u # t PROVE RegionInv(u)' /\ (Pending(u)' <=> Pending(u))
  <2>1. RegionInv(u) /\ ShapeInv(u) /\ Boss(u) \in Cores /\ u \in open /\ u \in TeamIds /\ u \in Nat /\ u # ROOT
    BY <1>1, RegionFacts DEF TeamInv, RegionInv, Regions, ShapeInv
  <2>2. Pending(u)' <=> Pending(u)
    BY <1>9, <1>10, <2>1 DEF Pending
  <2>3. ASSUME NEW d \in Range(team[u].procs) PROVE Steady(d, u)
    <3>1. d \in Cores
      BY <1>1, <2>1, <2>3, ThreadsAreCores
    <3>2. SameFlags(d) /\ bars'[d][u] = bars[d][u] /\ curr' = curr
      BY DEF SameFlags
    <3>3. d = c => Away(d, u) /\ Away(d, u)'
      BY <1>2, <1>15, <3>2 DEF Away
    <3>4. QED
      BY <1>7, <3>1, <3>2, <3>3 DEF Steady
  <2>4. \A v : v < u => (v \in Entered(Boss(u))' <=> v \in Entered(Boss(u)))
    <3>1. PICK m \in Cores : m = Boss(u)
      BY <2>1
    <3>2. Entered(Boss(u))' = Entered(m)'
      BY <1>10, <3>1 DEF Entered
    <3>3. ASSUME t \in Entered(m) PROVE ~(t < u)
      <4>1. m \in Range(team[u].procs)
        BY <1>1, <2>1, <3>1, RegionFacts DEF Boss
      <4>2. pc[m] \notin Starting
        <5>1. CASE m = c
          BY <1>1, <5>1 DEF Starting
        <5>2. CASE m \in SlavesOf(t)
          BY <1>8, <5>2 DEF Docked, Gathered, Starting
        <5>3. QED
          BY <1>12, <3>3, <5>1, <5>2
      <4>3. u \in Entered(m)
        BY <2>1, <4>1, <4>2 DEF Entered
      <4>4. m = c
        BY <1>8, <1>12, <1>15, <3>3, <4>3
      <4>5. QED
        BY <1>4, <1>5, <2>1, <4>3, <4>4
    <3>4. QED
      BY <1>11, <3>1, <3>2, <3>3
  <2>5. nteams' \in Nat /\ nteams' >= nteams /\ team'[u] = team[u]
    BY <1>1
  <2>6. /\ (pc'[Boss(u)] = "recruit" /\ new'[Boss(u)] = u) <=> (pc[Boss(u)] = "recruit" /\ new[Boss(u)] = u)
        /\ nthr'[Boss(u)] = nthr[Boss(u)]
    BY <1>9, <2>1
  <2>7. QED
    BY <1>1, <2>1, <2>2, <2>3, <2>4, <2>5, <2>6, RegionFrame
<1>16. CoreInv(c)'
  <2>1. PICK p : p = team[t].parent
    OBVIOUS
  <2>2. p \in Entered(c) /\ p < t /\ \A u \in Entered(c) : u < t => u <= p
    BY <1>4, <1>5, <2>1 DEF ParentInv
  <2>3. p \in Entered(c) \ {t} /\ \A u \in Entered(c) \ {t} : u <= p
    <3>1. \A u \in Entered(c) : u \in Nat
      BY EnteredFacts
    <3>2. QED
      BY <1>4, <1>5, <2>2, <3>1
  <2>4. t \in (2 .. nteams') \ open' /\ Boss(t)' = c /\ curr'[c] = t
    BY <1>2, <1>4, <1>5, <1>7, <1>10
  <2>5. \A v \in Entered(c)' \ {ROOT} : c # Boss(v)' => \A u \in Entered(c)' : v <= u
    BY <1>1, <1>10, <1>11 DEF CoreInv
  <2>6. QED
    BY <1>4, <1>7, <1>11, <2>1, <2>3, <2>4, <2>5 DEF CoreInv, Closing, Opening, Starting
<1>17. ASSUME NEW d \in Cores, d # c PROVE CoreInv(d)'
  <2>1. CASE d \in SlavesOf(t)
    <3>1. pc'[d] = "spin" /\ Entered(d)' = {}
      BY <1>7, <1>8, <1>11, <1>17, <2>1 DEF Docked, Gathered
    <3>2. k'[d] = 1
      BY <1>8, <2>1 DEF TeamInv, CoreInv, Docked, Gathered
    <3>3. QED
      BY <3>1, <3>2 DEF CoreInv, Closing, Opening, Starting
  <2>2. CASE d \notin SlavesOf(t)
    <3>1. Entered(d)' = Entered(d) /\ pc'[d] = pc[d] /\ curr'[d] = curr[d] /\ k'[d] = k[d] /\ new'[d] = new[d]
      BY <1>7, <1>11, <1>12, <1>17, <2>2
    <3>2. pc[d] \in Closing => curr[d] \notin open' /\ team'[curr[d]] = team[curr[d]]
      BY <1>7, ClosingTeam
    <3>3. pc[d] \in Starting => new[d] \in Regions'
      BY <1>4, <1>10, <1>17 DEF TeamInv, CoreInv
    <3>4. nteams' \in Nat /\ nteams' >= nteams
      BY <1>1
    <3>5. QED
      BY <1>10, <3>1, <3>2, <3>3, <3>4, CoreFrame
  <2>3. QED
    BY <2>1, <2>2
<1>18. LockInv' /\ PoolInv' /\ FreshInv' /\ TeamsDisjoint'
  <2>1. LockInv'
    BY <1>9, Zenon DEF TeamInv, LockInv
  <2>2. UNION {SlavesOf(u)' : u \in Regions'} = UNION {SlavesOf(u) : u \in Regions \ {t}}
    BY <1>10
  <2>3. PoolInv'
    BY <1>9, <1>13, <2>2 DEF PoolInv
  <2>4. Asking' = Asking
    BY <1>9 DEF Asking
  <2>5. FreshInv'
    BY <1>10, <1>15, <2>4 DEF TeamInv, FreshInv, Asking
  <2>6. TeamsDisjoint'
    BY <1>7, <1>10 DEF TeamInv, TeamsDisjoint
  <2>7. QED
    BY <2>1, <2>3, <2>5, <2>6
<1>19. /\ Normal' /\ nteams' >= 1 /\ ROOT \in open' /\ team'[ROOT] = RootTeam
       /\ pc'[MASTER_ID] \notin {"enter", "spin", "dispatch"}
       /\ curr'[MASTER_ID] = ROOT => pc'[MASTER_ID] \in {"run"} \cup Opening
  <2>1. MASTER_ID \in Cores
    BY ConstantsAssumption DEF MASTER_ID, Cores
  <2>2. team'[ROOT] = RootTeam /\ nteams' >= 1 /\ ROOT \in open'
    BY <1>3, <1>5, <1>7
  <2>3. CASE c = MASTER_ID
    BY <1>2, <1>3, <1>5, <1>7, <2>2, <2>3 DEF Normal, Boot, Exit
  <2>4. CASE c # MASTER_ID
    BY <1>3, <1>7, <2>1, <2>2, <2>4 DEF Normal, Boot, Exit, TeamInv, RootInv
  <2>5. QED
    BY <2>3, <2>4
<1>20. ASSUME NEW s \in Slaves PROVE IdleInv(s)'
  <2>1. s \in Cores /\ IdleInv(s)
    BY DEF Slaves, TeamInv
  <2>2. curr[s] # OMP_SLAVE_EXIT /\ (Entered(s) = {} => ret[s] = "dock" /\ Gathered(s))
    BY <1>3, <2>1, IdleNormal
  <2>3. Entered(s)' = {} => ret[s] = "dock" /\ Gathered(s) /\ s # c
    <3>1. Entered(c)' # {}
      BY <1>7, <1>16 DEF CoreInv, Closing
    <3>2. CASE s \in SlavesOf(t)
      BY <1>8, <3>1, <3>2 DEF Docked
    <3>3. CASE s \notin SlavesOf(t)
      BY <1>11, <1>12, <2>1, <2>2, <3>1, <3>3
    <3>4. QED
      BY <3>2, <3>3
  <2>4. ret'[s] = ret[s] /\ (s # c /\ Gathered(s) => Gathered(s)') /\ curr'[s] = curr[s]
    BY <1>7, <2>1 DEF Gathered
  <2>5. QED
    BY <1>19, <2>2, <2>3, <2>4, NormalStep
<1>21. RootInv'
  BY <1>19, NormalStep
<1>22. QED
  BY <1>10, <1>14, <1>15, <1>16, <1>17, <1>18, <1>20, <1>21 DEF TeamInv

\* A list of the slaves core c needs: different ones, none of them in the pool.
Enlists(q, c) ==
  /\ q \in Seq(Slaves) /\ Len(q) = nthr[c] - 1 /\ nthr[c] > 0
  /\ \A x, y \in 1 .. Len(q) : q[x] = q[y] => x = y
  /\ Range(q) = {q[x] : x \in 1 .. Len(q)} /\ Range(q) \subseteq Slaves /\ Range(q) \cap pool = {}
  /\ \A p \in Range(q) : p < PoolBits
  /\ IsFiniteSet(Range(q)) /\ Cardinality(Range(q)) = Len(q)

\* The recruiting loop finds as many cores as were asked for when the pool has a bit for every core.
LEMMA RecruitList ==
  ASSUME TeamInv, N <= PoolBits, NEW c \in Cores, pc[c] = "recruit"
  PROVE  Enlists(Recruits(nthr[c] - 1), c)
<1>0. PICK q : q = Recruits(nthr[c] - 1)
  OBVIOUS
<1>1. nteams > 0 /\ nthr[c] \in Nat /\ idle \in Nat
  <2>1. nteams >= 1
    BY BusyNormal DEF Opening, Starting
  <2>2. QED
    BY <2>1 DEF TeamInv, TypeOK
<1>2. nthr[c] > 0 /\ idle = N - Cardinality(pool) - (nthr[c] - 1)
  BY <1>1 DEF TeamInv, PoolInv
<1>3. PICK want \in Nat : want = nthr[c] - 1
  BY <1>1, <1>2
<1>4. Takes(q, N - 1, want)
  BY <1>0, <1>3, RecruitsResult
<1>5. q \in Seq(Nat) /\ Len(q) \in Nat /\ Len(q) <= want /\ (\A x, y \in 1 .. Len(q) : q[x] = q[y] => x = y)
      /\ \A x \in 1 .. Len(q) : q[x] \in 1 .. N - 1 /\ Available(q[x])
  BY <1>4 DEF Takes
<1>6. Range(q) = {q[x] : x \in 1 .. Len(q)}
  BY <1>5 DEF Range
<1>7. \A p \in 1 .. N - 1 : p \in Slaves /\ p < PoolBits /\ (Available(p) <=> p \notin pool)
  BY ConstantsAssumption DEF Slaves, Cores, MASTER_ID, Available
<1>8. q \in Seq(Slaves) /\ Range(q) \subseteq Slaves /\ Range(q) \cap pool = {} /\ \A p \in Range(q) : p < PoolBits
  <2>1. q \in Seq(Slaves)
    BY <1>5, <1>7
  <2>2. QED
    BY <1>5, <1>6, <1>7, <2>1
<1>9. IsFiniteSet(Range(q)) /\ Cardinality(Range(q)) = Len(q)
  <2>1. PICK f : f = [x \in 1 .. Len(q) |-> q[x]]
    OBVIOUS
  <2>2. f \in [1 .. Len(q) -> Range(q)]
    BY <1>6, <2>1
  <2>3. \A x, y \in 1 .. Len(q) : f[x] = f[y] => x = y
    BY <1>5, <2>1
  <2>4. \A p \in Range(q) : \E x \in 1 .. Len(q) : f[x] = p
    BY <1>6, <2>1
  <2>5. QED
    BY <1>5, <2>2, <2>3, <2>4, ListCard, Zenon
<1>10. Len(q) = want
  <2> SUFFICES ASSUME Len(q) < want PROVE FALSE
    BY <1>3, <1>5
  <2>1. \A p \in 1 .. N - 1 : Available(p) => \E x \in 1 .. Len(q) : q[x] = p
    BY <1>4 DEF Takes
  <2>2. IsFiniteSet(Cores) /\ Cardinality(Cores) = N /\ pool \subseteq Cores /\ MASTER_ID \in pool
        /\ Cardinality(pool) \in Nat
    BY <1>1, CoresCount, PoolFinite
  <2>3. Cores \ pool \subseteq Range(q)
    <3>1. \A p \in Cores \ pool : p \in 1 .. N - 1
      BY <2>2, ConstantsAssumption DEF Cores, MASTER_ID
    <3>2. QED
      BY <1>6, <1>7, <2>1, <3>1
  <2>4. Cores \ pool = Range(q)
    BY <1>8, <2>3 DEF Slaves
  <2>5. Cardinality(Cores \ pool) = N - Cardinality(pool)
    <3>1. Cardinality(Cores \ pool) = Cardinality(Cores) - Cardinality(Cores \cap pool)
      BY <2>2, FS_Difference, Zenon
    <3>2. Cores \cap pool = pool
      BY <2>2
    <3>3. QED
      BY <2>2, <3>1, <3>2
  <2>6. Len(q) = N - Cardinality(pool)
    BY <1>9, <2>4, <2>5
  <2>7. QED
    BY <1>1, <1>2, <1>3, <1>5, <2>2, <2>6, ConstantsAssumption
<1>11. Enlists(q, c)
  BY <1>2, <1>3, <1>5, <1>6, <1>8, <1>9, <1>10 DEF Enlists
<1>12. QED
  BY <1>0, <1>11

\* gomp_team_start: docked cores are given the new team, as many as the descriptor says.
LEMMA RecruitInv == ASSUME TeamInv, N <= PoolBits, NEW c \in Cores, Recruit(c) PROVE TeamInv'
<1>0. /\ pc[c] = "recruit" /\ pc' = [pc EXCEPT ![c] = "unlock"]
      /\ lock' = lock /\ idle' = idle /\ nteams' = nteams /\ open' = open /\ mem' = mem /\ slaveFlag' = slaveFlag /\ masterFlag' = masterFlag
      /\ ret' = ret /\ nthr' = nthr /\ new' = new /\ k' = k /\ g' = g /\ bars' = bars
  BY FlagsKept DEF Recruit, locals, Goto
<1> USE <1>0
<1>1. /\ pc \in [Cores -> Labels] /\ team \in [TeamIds -> Descriptors] /\ TypeOK /\ curr \in [Cores -> 0 .. MaxTeams + 1]
      /\ CoreInv(c) /\ pc[c] = "recruit" /\ nteams \in Nat /\ idle \in 0 .. N - 1
      /\ open \subseteq TeamIds
  BY DEF TeamInv, TypeOK
<1>2. PICK t : t = new[c]
  OBVIOUS
<1>3. PICK q : q = Recruits(nthr[c] - 1)
  OBVIOUS
<1>4. PICK R : R = Range(q)
  OBVIOUS
<1>5. Normal /\ nteams >= 1 /\ ROOT \in open /\ team[ROOT] = RootTeam /\ Entered(c) # {}
  BY <1>1, BusyNormal DEF Opening, Starting
<1>6. t \in Regions /\ Boss(t) = c /\ (\A u \in Entered(c) : u < t) /\ Pending(t)
  BY <1>1, <1>2 DEF CoreInv, Starting, Pending
<1>7. RegionInv(t) /\ ShapeInv(t) /\ t \in TeamIds /\ t \in Nat /\ t # ROOT /\ t \in 2 .. nteams /\ t <= nteams /\ t \in open
  <2>1. RegionInv(t) /\ ShapeInv(t) /\ t \in open /\ t # ROOT
    BY <1>6 DEF TeamInv, RegionInv, Regions
  <2>2. t \in TeamIds /\ t \in 2 .. nteams
    BY <1>1, <2>1 DEF ShapeInv
  <2>3. QED
    BY <1>1, <2>1, <2>2
<1>8. team[t].procs = <<c>> /\ team[t].nthreads = nthr[c] /\ team[t].mask = {c}
  <2>1. team[t].procs = <<c>> /\ team[t].nthreads = nthr[c] /\ team[t].mask = Range(team[t].procs)
    BY <1>1, <1>2, <1>6, <1>7 DEF ShapeInv
  <2>2. Range(<<c>>) = {c}
    BY DEF Range
  <2>3. QED
    BY <2>1, <2>2
<1>9. /\ q \in Seq(Slaves) /\ Len(q) = nthr[c] - 1 /\ nthr[c] > 0 /\ nthr[c] \in Nat
      /\ \A x, y \in 1 .. Len(q) : q[x] = q[y] => x = y
      /\ R = {q[x] : x \in 1 .. Len(q)} /\ R \subseteq Slaves /\ R \cap pool = {}
      /\ \A p \in R : p < PoolBits
      /\ IsFiniteSet(R) /\ Cardinality(R) = Len(q)
  <2>1. nthr[c] \in Nat
    BY DEF TeamInv, TypeOK
  <2>2. Enlists(q, c)
    BY <1>3, RecruitList
  <2>3. QED
    BY <1>4, <2>1, <2>2 DEF Enlists
<1>10. c \notin R /\ R \subseteq Cores \ {c} /\ MASTER_ID \notin R
  <2>1. c \in pool
    BY <1>1, <1>5, InPool
  <2>2. QED
    BY <1>9, <2>1 DEF Slaves
<1>11. \A s \in R : Entered(s) = {} /\ ret[s] = "dock" /\ Gathered(s) /\ pc[s] = "spin"
  <2> SUFFICES ASSUME NEW s \in R PROVE Entered(s) = {} /\ ret[s] = "dock" /\ Gathered(s) /\ pc[s] = "spin"
    OBVIOUS
  <2>1. s \in Slaves /\ s \in Cores /\ s \notin pool
    BY <1>9, <1>10
  <2>2. Entered(s) = {}
    BY <1>1, <1>5, <2>1, InPool
  <2>3. QED
    BY <1>5, <2>1, <2>2, IdleNormal DEF TeamInv, Gathered
<1>12. PICK e : e = [team[t] EXCEPT !.procs = @ \o q, !.mask = @ \cup R]
  OBVIOUS
<1>13. /\ team' = [team EXCEPT ![t] = e] /\ pool' = pool \cup R
       /\ curr' = [p \in Cores |-> IF p \in R THEN t ELSE curr[p]]
  <2>1. {p \in Range(q) : p < PoolBits} = R
    BY <1>4, <1>9
  <2>2. /\ team' = [team EXCEPT ![t].procs = @ \o q, ![t].mask = @ \cup R] /\ pool' = pool \cup R
        /\ curr' = [p \in Cores |-> IF p \in R THEN t ELSE curr[p]]
    BY <1>2, <1>3, <1>4, <2>1 DEF Recruit
  <2>3. team[t] \in Descriptors
    BY <1>1, <1>7
  <2>4. team' = [team EXCEPT ![t] = e]
    BY <1>1, <1>7, <1>12, <2>2, <2>3 DEF Descriptors
  <2>5. QED
    BY <2>2, <2>4
<1>14. /\ e \in Descriptors /\ e.procs = <<c>> \o q /\ e.mask = {c} \cup R /\ e.nthreads = nthr[c] /\ e.bars = team[t].bars
       /\ Len(e.procs) = nthr[c] /\ e.procs[1] = c /\ (\A i \in 1 .. Len(q) : e.procs[i + 1] = q[i])
       /\ Range(e.procs) = {c} \cup R
  <2>1. team[t] \in Descriptors
    BY <1>1, <1>7
  <2>2. /\ e.procs = <<c>> \o q /\ e.mask = {c} \cup R /\ e.nthreads = nthr[c] /\ e.bars = team[t].bars /\ e.parent = team[t].parent
    BY <1>8, <1>12, <2>1 DEF Descriptors
  <2>3. q \in Seq(Cores) /\ <<c>> \in Seq(Cores) /\ Len(<<c>>) = 1 /\ <<c>>[1] = c
    BY <1>9 DEF Slaves
  <2>4. <<c>> \o q \in Seq(Cores) /\ Len(<<c>> \o q) = nthr[c] /\ (<<c>> \o q)[1] = c
    BY <1>9, <2>3
  <2>5. \A i \in 1 .. Len(q) : (<<c>> \o q)[i + 1] = q[i]
    BY <1>9, <2>3
  <2>6. Range(<<c>> \o q) = {c} \cup R
    <3>1. \A i \in 1 .. nthr[c] : i = 1 \/ (i - 1 \in 1 .. Len(q) /\ (i - 1) + 1 = i)
      BY <1>9
    <3>2. Range(<<c>> \o q) = {(<<c>> \o q)[i] : i \in 1 .. nthr[c]}
      <4>1. DOMAIN (<<c>> \o q) = 1 .. nthr[c]
        BY <2>4
      <4>2. QED
        BY <4>1 DEF Range
    <3>3. \A i \in 1 .. Len(q) : i + 1 \in 1 .. nthr[c]
      BY <1>9
    <3>4. 1 \in 1 .. nthr[c]
      BY <1>9
    <3>5. \A i \in 1 .. nthr[c] : (<<c>> \o q)[i] \in {c} \cup R
      BY <1>9, <2>4, <2>5, <3>1
    <3>6. \A x \in {c} \cup R : \E i \in 1 .. nthr[c] : x = (<<c>> \o q)[i]
      BY <1>9, <2>4, <2>5, <3>3, <3>4
    <3>7. QED
      BY <3>2, <3>5, <3>6
  <2>7. e \in Descriptors
    <3>1. {c} \cup R \in SUBSET Cores
      BY <1>10
    <3>2. QED
      BY <1>12, <2>1, <2>2, <2>4, <3>1 DEF Descriptors
  <2>8. QED
    BY <2>2, <2>4, <2>5, <2>6, <2>7
<1>15. /\ team'[t] = e /\ \A u \in TeamIds \ {t} : team'[u] = team[u]
       /\ pc'[c] = "unlock" /\ \A d \in Cores \ {c} : pc'[d] = pc[d]
       /\ \A d \in Cores \ R : curr'[d] = curr[d]
       /\ \A d \in R : curr'[d] = t
  BY <1>1, <1>7, <1>10, <1>13
<1>16. TypeOK'
  <2>1. team' \in [TeamIds -> Descriptors]
    BY <1>1, <1>7, <1>13, <1>14
  <2>2. pc' \in [Cores -> Labels]
    BY <1>1 DEF Labels
  <2>3. curr' \in [Cores -> 0 .. MaxTeams + 1]
    <3>1. t \in 0 .. MaxTeams + 1
      BY <1>7, ConstantsAssumption DEF TeamIds
    <3>2. QED
      BY <1>1, <1>13, <3>1
  <2>4. pool' \subseteq Cores
    BY <1>1, <1>10, <1>13 DEF TypeOK
  <2>5. QED
    BY <1>1, <2>1, <2>2, <2>3, <2>4 DEF TypeOK
<1>17. \A d \in Cores :
         /\ pc'[d] \in Starting <=> pc[d] \in Starting
         /\ pc'[d] \in Holding <=> pc[d] \in Holding
         /\ pc[d] # "take" /\ pc'[d] \notin {"recruit", "take"}
         /\ pc'[d] \in {"lock", "resolve", "take"} <=> pc[d] \in {"lock", "resolve", "take"}
  <2>1. \A d \in Cores \ {c} : pc[d] \notin Holding
    BY <1>1 DEF TeamInv, LockInv, Holding
  <2>2. QED
    BY <1>1, <1>15, <2>1 DEF Starting, Holding
<1>18. /\ Regions' = Regions
       /\ \A u \in TeamIds : Boss(u)' = Boss(u)
       /\ \A u \in TeamIds \ {t} : SlavesOf(u)' = SlavesOf(u) /\ Size(u)' = Size(u)
       /\ Size(t)' = nthr[c] /\ SlavesOf(t)' = R /\ SlavesOf(t) = {}
       /\ \A i \in 1 .. Len(q) : Proc(t, i)' = q[i]
  <2>1. \A u \in TeamIds \ {t} : Boss(u)' = Boss(u) /\ SlavesOf(u)' = SlavesOf(u) /\ Size(u)' = Size(u)
    <3> SUFFICES ASSUME NEW u \in TeamIds \ {t}
                 PROVE  Boss(u)' = Boss(u) /\ SlavesOf(u)' = SlavesOf(u) /\ Size(u)' = Size(u)
      OBVIOUS
    <3>1. team'[u] = team[u]
      BY <1>15
    <3>2. QED
      BY <3>1 DEF Boss, SlavesOf, Proc, Size
  <2>2. Boss(t)' = c /\ Size(t)' = nthr[c]
    BY <1>14, <1>15 DEF Boss, Proc, Size
  <2>3. \A i \in 1 .. Len(q) : Proc(t, i)' = q[i]
    BY <1>14, <1>15 DEF Proc
  <2>4. SlavesOf(t)' = R
    <3>1. Len(team'[t].procs) - 1 = Len(q)
      BY <1>9, <1>14, <1>15
    <3>2. SlavesOf(t)' = {Proc(t, i)' : i \in 1 .. Len(q)}
      BY <3>1 DEF SlavesOf
    <3>3. QED
      BY <1>9, <2>3, <3>2
  <2>5. SlavesOf(t) = {}
    <3>1. 1 .. Len(team[t].procs) - 1 = {}
      <4>1. Len(team[t].procs) = 1
        BY <1>8
      <4>2. 1 - 1 = 0 /\ 1 .. 0 = {}
        OBVIOUS
      <4>3. QED
        BY <4>1, <4>2, Zenon
    <3>2. QED
      BY <3>1 DEF SlavesOf
  <2>6. Regions' = Regions
    BY DEF Regions
  <2>7. QED
    BY <1>6, <2>1, <2>2, <2>3, <2>4, <2>5, <2>6
<1>19. /\ \A d \in Cores \ R : Entered(d)' = Entered(d)
       /\ \A d \in R : Entered(d)' = {t}
  <2>1. ASSUME NEW d \in Cores \ R, d # c PROVE Entered(d)' = Entered(d)
    <3>1. d \notin Range(team[t].procs) /\ d \notin Range(team'[t].procs)
      <4>1. Range(<<c>>) = {c}
        BY DEF Range
      <4>2. QED
        BY <1>8, <1>14, <1>15, <2>1, <4>1
    <3>2. \A u \in open \ {t} : team'[u] = team[u]
      BY <1>1, <1>15
    <3>3. pc'[d] = pc[d] /\ new' = new /\ open' = open
      BY <1>15, <2>1
    <3>4. QED
      BY <1>7, <3>1, <3>2, <3>3 DEF Entered
  <2>2. Entered(c)' = Entered(c)
    <3>1. pc[c] \in Starting /\ pc'[c] \in Starting /\ new[c] = t /\ new'[c] = t
      BY <1>1, <1>2, <1>15 DEF Starting
    <3>2. \A u \in open \ {t} : team'[u] = team[u]
      BY <1>1, <1>15
    <3>3. QED
      BY <3>1, <3>2 DEF Entered
  <2>3. ASSUME NEW d \in R PROVE Entered(d)' = {t}
    <3>1. d \in Range(team'[t].procs) /\ pc'[d] \notin Starting /\ pc[d] \notin Starting /\ d # MASTER_ID
      <4>1. d \in Range(team'[t].procs)
        BY <1>14, <1>15, <2>3
      <4>2. pc[d] = "spin" /\ pc'[d] = pc[d] /\ d # MASTER_ID
        BY <1>10, <1>11, <1>15, <2>3
      <4>3. QED
        BY <4>1, <4>2 DEF Starting
    <3>2. \A u \in open \ {t} : team'[u] = team[u]
      BY <1>1, <1>15
    <3>3. Entered(d) = {} /\ open' = open
      BY <1>11, <2>3
    <3>4. t \in Entered(d)'
      BY <1>7, <3>1 DEF Entered
    <3>5. \A u \in open \ {t} : u \notin Entered(d)'
      BY <3>1, <3>2, <3>3 DEF Entered
    <3>6. Entered(d)' \subseteq open
      BY DEF Entered
    <3>7. QED
      BY <3>4, <3>5, <3>6
  <2>4. QED
    BY <2>1, <2>2, <2>3
<1>20. ASSUME NEW u \in Regions, u # t PROVE RegionInv(u)' /\ (Pending(u)' <=> Pending(u))
  <2>1. RegionInv(u) /\ ShapeInv(u) /\ Boss(u) \in Cores /\ u \in open /\ u \in TeamIds /\ u # ROOT
    BY <1>1, RegionFacts DEF TeamInv, RegionInv, Regions
  <2>2. Pending(u)' <=> Pending(u)
    BY <1>17, <1>18, <2>1 DEF Pending
  <2>3. ASSUME NEW d \in Range(team[u].procs) PROVE d \in Cores \ R
    <3>1. d \in Cores
      BY <1>1, <2>1, <2>3, ThreadsAreCores
    <3>2. pc[d] \notin Starting => Entered(d) # {}
      BY <2>1, <2>3 DEF Entered
    <3>3. QED
      BY <1>11, <3>1, <3>2 DEF Starting
  <2>4. ASSUME NEW d \in Range(team[u].procs) PROVE Steady(d, u)
    <3>1. d \in Cores \ R
      BY <2>3, <2>4
    <3>2. SameFlags(d) /\ bars'[d][u] = bars[d][u] /\ curr'[d] = curr[d]
      BY <1>15, <3>1 DEF SameFlags
    <3>3. d = c => Away(d, u) /\ Away(d, u)'
      BY <1>1, <1>15 DEF Away, Opening, Starting
    <3>4. QED
      BY <1>15, <3>1, <3>2, <3>3 DEF Steady
  <2>5. Entered(Boss(u))' = Entered(Boss(u))
    <3>1. PICK m \in Cores : m = Boss(u)
      BY <2>1
    <3>2. Entered(Boss(u))' = Entered(m)'
      BY <1>18, <2>1, <3>1 DEF Entered
    <3>3. m \in Range(team[u].procs)
      BY <1>1, <2>1, <3>1, RegionFacts DEF Boss
    <3>4. QED
      BY <1>19, <2>3, <3>1, <3>2, <3>3
  <2>6. nteams' \in Nat /\ nteams' >= nteams /\ team'[u] = team[u]
    BY <1>1, <1>15, <1>20, <2>1
  <2>7. /\ (pc'[Boss(u)] = "recruit" /\ new'[Boss(u)] = u) <=> (pc[Boss(u)] = "recruit" /\ new[Boss(u)] = u)
        /\ nthr'[Boss(u)] = nthr[Boss(u)]
    BY <1>1, <1>2, <1>15, <1>20, <2>1
  <2>8. QED
    BY <1>1, <2>1, <2>2, <2>4, <2>5, <2>6, <2>7, RegionFrame
<1>21. Pending(t)' /\ RegionInv(t)'
  <2>1. Boss(t)' = c /\ Pending(t)'
    BY <1>2, <1>6, <1>7, <1>15, <1>18 DEF Pending, Starting
  <2>2. ShapeInv(t)'
    <3>1. t \in 2 .. nteams' /\ Size(t)' > 0 /\ team'[t].mask = Range(team'[t].procs) /\ Size(t)' = team'[t].nthreads
      BY <1>7, <1>9, <1>14, <1>15, <1>18
    <3>2. \A i \in 1 .. Size(t)' - 1 : Proc(t, i)' \in R /\ Proc(t, i)' = q[i]
      BY <1>9, <1>18
    <3>3. \A i \in 0 .. Size(t)' - 1 : i = 0 \/ i \in 1 .. Size(t)' - 1
      BY <1>9, <1>18
    <3>4. Proc(t, 0)' = c /\ Size(t)' - 1 = Len(q)
      BY <1>9, <1>18, <2>1 DEF Boss
    <3>5. \A i, j \in 0 .. Size(t)' - 1 : Proc(t, i)' = Proc(t, j)' => i = j
      BY <1>9, <1>10, <3>2, <3>3, <3>4
    <3>6. \A i \in 1 .. Size(t)' - 1 : Proc(t, i)' \in Slaves
      BY <1>9, <3>2
    <3>7. pc'[c] # "recruit"
      BY <1>15
    <3>8. QED
      BY <2>1, <3>1, <3>5, <3>6, <3>7 DEF ShapeInv
  <2>3. ParentInv(t)' /\ BossInv(t)'
    BY <2>1 DEF ParentInv, BossInv
  <2>4. (bars[Boss(t)][t] <= team[t].bars)'
    BY <1>6, <1>7, <1>14, <1>15, <2>1 DEF RegionInv
  <2>5. ASSUME NEW i \in 1 .. Size(t)' - 1 PROVE Handshake(t, i)'
    <3>1. PICK s \in R : s = q[i] /\ Proc(t, i)' = s
      BY <1>9, <1>18, <2>5
    <3>2. s \in Cores /\ s # c /\ curr'[s] = t /\ ret[s] = "dock" /\ Gathered(s) /\ pc'[s] = pc[s]
      BY <1>10, <1>11, <1>15, <3>1
    <3>3. Docked(s, t)'
      BY <3>2 DEF Docked, Gathered
    <3>4. ~Inside(t)' /\ ~Ending(t)' /\ \A y : ~At(t, "wait", y)' /\ ~At(t, "release", y)'
      BY <1>15, <2>1 DEF Inside, Ending, At
    <3>5. QED
      BY <3>1, <3>3, <3>4 DEF Handshake
  <2>6. QED
    BY <2>1, <2>2, <2>3, <2>4, <2>5 DEF RegionInv
<1>22. CoreInv(c)'
  <2>1. t \in Regions' /\ Boss(t)' = c /\ Entered(c)' = Entered(c) /\ curr'[c] = curr[c] /\ new'[c] = t
    BY <1>2, <1>6, <1>7, <1>10, <1>15, <1>18, <1>19
  <2>2. \A u \in Entered(c) : Boss(u)' = Boss(u)
    BY <1>18, EnteredBound
  <2>3. QED
    BY <1>1, <1>6, <1>15, <2>1, <2>2 DEF CoreInv, Opening, Starting, Closing
<1>23. ASSUME NEW d \in Cores, d # c PROVE CoreInv(d)'
  <2>1. CASE d \in R
    <3>1. pc'[d] = "spin" /\ Entered(d)' = {t} /\ curr'[d] = t /\ t <= t
      BY <1>7, <1>11, <1>15, <1>19, <1>23, <2>1
    <3>2. k'[d] = 1
      BY <1>11, <2>1 DEF TeamInv, CoreInv
    <3>3. QED
      BY <3>1, <3>2 DEF CoreInv, Closing, Opening, Starting
  <2>2. CASE d \notin R
    <3>1. Entered(d)' = Entered(d) /\ pc'[d] = pc[d] /\ curr'[d] = curr[d] /\ k'[d] = k[d] /\ new'[d] = new[d]
      BY <1>15, <1>19, <1>23, <2>2
    <3>2. pc[d] \in Closing => curr[d] \notin open' /\ team'[curr[d]] = team[curr[d]]
      BY <1>7, <1>15, ClosingTeam
    <3>3. pc[d] \in Starting => new[d] \in Regions'
      BY <1>18 DEF TeamInv, CoreInv
    <3>4. nteams' \in Nat /\ nteams' >= nteams
      BY <1>1
    <3>5. QED
      BY <1>18, <3>1, <3>2, <3>3, <3>4, CoreFrame
  <2>3. QED
    BY <2>1, <2>2
<1>24. LockInv' /\ PoolInv' /\ FreshInv' /\ TeamsDisjoint'
  <2>1. LockInv'
    BY <1>17, Zenon DEF TeamInv, LockInv
  <2>2. pool = {MASTER_ID} \cup UNION {SlavesOf(u) : u \in Regions} /\ idle = N - Cardinality(pool) - (nthr[c] - 1)
    BY <1>1, <1>5 DEF TeamInv, PoolInv
  <2>3. \A u \in Regions : u \in TeamIds
    BY <1>1 DEF Regions
  <2>4. pool' = {MASTER_ID} \cup UNION {SlavesOf(u)' : u \in Regions'}
    <3>1. UNION {SlavesOf(u)' : u \in Regions'} = R \cup UNION {SlavesOf(u) : u \in Regions}
      BY <1>6, <1>18, <2>3
    <3>2. QED
      BY <1>13, <2>2, <3>1
  <2>5. Cardinality(pool') = Cardinality(pool) + (nthr[c] - 1) /\ Cardinality(pool) \in Nat
    <3>1. IsFiniteSet(pool) /\ Cardinality(pool) \in Nat
      BY <1>1, <1>5, PoolFinite
    <3>2. Cardinality(pool \cup R) = Cardinality(pool) + Cardinality(R) - Cardinality(pool \cap R)
      BY <1>9, <3>1, FS_Union, Zenon
    <3>3. pool \cap R = {} /\ Cardinality({}) = 0
      BY <1>9, FS_EmptySet
    <3>4. Cardinality(pool') = Cardinality(pool) + Len(q) - 0 /\ Len(q) = nthr[c] - 1 /\ Len(q) \in Nat
      <4>1. Len(q) = nthr[c] - 1 /\ Len(q) \in Nat /\ Cardinality(R) = Len(q)
        BY <1>9
      <4>2. QED
        BY <1>13, <3>2, <3>3, <4>1
    <3>5. QED
      BY <3>1, <3>4
  <2>6. idle' = N - Cardinality(pool')
    BY <1>1, <1>9, <2>2, <2>5, ConstantsAssumption
  <2>7. PoolInv'
    BY <1>17, <2>4, <2>6 DEF PoolInv
  <2>8. Asking' = Asking
    BY <1>17 DEF Asking
  <2>9. FreshInv'
    BY <1>6, <1>18, <1>20, <1>21, <2>8 DEF TeamInv, FreshInv, Asking
  <2>10. TeamsDisjoint'
    <3>1. \A u \in Regions : SlavesOf(u) \cap R = {}
      BY <1>9, <2>2
    <3>2. \A u, v \in Regions : u # v => SlavesOf(u) \cap SlavesOf(v) = {}
      BY DEF TeamInv, TeamsDisjoint, Regions
    <3>3. \A u, v \in Regions' : u # v => SlavesOf(u)' \cap SlavesOf(v)' = {}
      BY <1>18, <2>3, <3>1, <3>2
    <3>4. QED
      BY <3>3 DEF TeamsDisjoint, Regions
  <2>11. QED
    BY <2>1, <2>7, <2>9, <2>10
<1>25. /\ Normal' /\ nteams' >= 1 /\ ROOT \in open' /\ team'[ROOT] = RootTeam
       /\ pc'[MASTER_ID] \notin {"enter", "spin", "dispatch"}
       /\ curr'[MASTER_ID] = ROOT => pc'[MASTER_ID] \in {"run"} \cup Opening
  <2>1. MASTER_ID \in Cores \ R /\ ROOT \in TeamIds
    BY <1>10, ConstantsAssumption DEF MASTER_ID, Cores, ROOT, TeamIds
  <2>2. team'[ROOT] = RootTeam /\ nteams' >= 1 /\ ROOT \in open' /\ curr'[MASTER_ID] = curr[MASTER_ID]
    BY <1>5, <1>7, <1>15, <2>1
  <2>3. CASE c = MASTER_ID
    BY <1>5, <1>15, <2>2, <2>3 DEF Normal, Boot, Exit, Opening, Starting
  <2>4. CASE c # MASTER_ID
    BY <1>5, <1>15, <2>1, <2>2, <2>4 DEF Normal, Boot, Exit, TeamInv, RootInv
  <2>5. QED
    BY <2>3, <2>4
<1>26. ASSUME NEW s \in Slaves PROVE IdleInv(s)'
  <2>1. s \in Cores /\ IdleInv(s)
    BY DEF Slaves, TeamInv
  <2>2. curr[s] # OMP_SLAVE_EXIT /\ (Entered(s) = {} => ret[s] = "dock" /\ Gathered(s) /\ s # c)
    BY <1>5, <2>1, IdleNormal
  <2>3. t # OMP_SLAVE_EXIT
    BY <1>7, ConstantsAssumption DEF TeamIds, OMP_SLAVE_EXIT
  <2>4. CASE s \in R
    <3>1. curr'[s] # OMP_SLAVE_EXIT /\ Entered(s)' # {}
      BY <1>15, <1>19, <2>3, <2>4
    <3>2. QED
      BY <1>25, <3>1, NormalStep
  <2>5. CASE s \notin R
    <3>1. Entered(s)' = Entered(s) /\ ret'[s] = ret[s] /\ (s # c /\ Gathered(s) => Gathered(s)') /\ curr'[s] = curr[s]
      BY <1>15, <1>19, <2>1, <2>5 DEF Gathered
    <3>2. QED
      BY <1>25, <2>2, <3>1, NormalStep
  <2>6. QED
    BY <2>4, <2>5
<1>27. RootInv'
  BY <1>25, NormalStep
<1>28. QED
  BY <1>16, <1>18, <1>20, <1>21, <1>22, <1>23, <1>24, <1>26, <1>27 DEF TeamInv

-----------------------------------------------------------------------------
(* Boot, exit, and the invariant as a whole. *)

\* The descriptor of the root region; its thread 0 is the global master.
LEMMA RootFacts == /\ RootTeam \in Descriptors /\ NoTeam \in Descriptors /\ RootTeam.procs[1] = MASTER_ID
                   /\ ROOT \in TeamIds /\ MASTER_ID \in Cores /\ Cores = {MASTER_ID} \cup Slaves /\ MASTER_ID \notin Slaves
<1>1. ROOT \in TeamIds /\ MASTER_ID \in Cores
  BY ConstantsAssumption DEF ROOT, TeamIds, MASTER_ID, Cores
<1>2. [i \in 1 .. N |-> i - 1] \in Seq(Cores) /\ [i \in 1 .. N |-> i - 1][1] = 0
  BY ConstantsAssumption DEF Cores
<1>3. RootTeam \in Descriptors /\ RootTeam.procs[1] = MASTER_ID
  BY <1>2, ConstantsAssumption DEF RootTeam, Descriptors, NULL, MASTER_ID
<1>4. << >> \in Seq(Cores) /\ {} \in SUBSET Cores /\ NULL \in 0 .. MaxTeams /\ 0 \in 0 .. N /\ 0 \in 0 .. MaxBars
  BY ConstantsAssumption DEF NULL
<1>5. NoTeam \in Descriptors
  BY <1>4 DEF NoTeam, Descriptors
<1>6. QED
  BY <1>1, <1>3, <1>5 DEF Slaves

\* Before boot there is no region, and every slave is on its way to the dock.
LEMMA InitInv == ASSUME Init PROVE TeamInv
<1> USE DEF Init
<1>0. masterFlag \in [Cores -> {0, 1}] /\ \A s \in Slaves : masterFlag[s] = 0
  BY FlagWords DEF masterFlag, Slaves
<1>1. Regions = {} /\ \A c \in Cores : Entered(c) = {}
  BY DEF Regions, Entered
<1>2. /\ pc[MASTER_ID] = "initenv" /\ ret[MASTER_ID] = "dock" /\ k[MASTER_ID] = 1 /\ curr[MASTER_ID] = 0
      /\ \A s \in Slaves : s \in Cores /\ pc[s] = "enter" /\ ret[s] = "dock" /\ masterFlag[s] = 0 /\ curr[s] = 0
      /\ \A c \in Cores : pc[c] \in {"initenv", "enter"} /\ k[c] = 1
  BY <1>0, RootFacts DEF Slaves, NULL
<1>3. TypeOK
  <2>1. team \in [TeamIds -> Descriptors]
    BY RootFacts
  <2>2. pc \in [Cores -> Labels]
    BY DEF Labels
  <2>3. bars \in [Cores -> [TeamIds -> 0 .. MaxBars]]
    BY ConstantsAssumption
  <2>4. QED
    BY <1>0, <2>1, <2>2, <2>3, ConstantsAssumption DEF TypeOK, NULL
<1>4. RootInv
  BY <1>2 DEF RootInv, Boot, Exit
<1>5. LockInv /\ PoolInv
  BY <1>2 DEF LockInv, PoolInv, Holding
<1>6. FreshInv
  <2>1. Asking = {} /\ Cardinality({}) = 0
    BY <1>2, FS_EmptySet DEF Asking
  <2>2. nteams + Cardinality(Asking) <= MaxTeams
    BY <2>1, ConstantsAssumption
  <2>3. QED
    BY <2>2 DEF FreshInv, Asking
<1>7. TeamsDisjoint
  BY DEF TeamsDisjoint
<1>8. \A c \in Cores : CoreInv(c)
  BY <1>1, <1>2 DEF CoreInv, Opening, Starting, Closing
<1>9. ASSUME NEW s \in Slaves PROVE IdleInv(s)
  <2>0. MaxTeams + 1 # 0
    BY ConstantsAssumption
  <2>1. ~Exit /\ curr[s] # OMP_SLAVE_EXIT
    BY <1>2, <2>0 DEF Exit, OMP_SLAVE_EXIT
  <2>2. QED
    BY <1>2, <2>1 DEF IdleInv, Arriving
<1>10. QED
  BY <1>1, <1>3, <1>4, <1>5, <1>6, <1>7, <1>8, <1>9 DEF TeamInv

\* omp_initenv: the root region is open and the master waits for the slaves.
LEMMA InitenvInv == ASSUME TeamInv, omp_initenv PROVE TeamInv'
<1> USE FlagsKept DEF omp_initenv, globals, locals, Goto
<1>1. /\ TypeOK /\ pc \in [Cores -> Labels] /\ team \in [TeamIds -> Descriptors] /\ nthr \in [Cores -> 0 .. N]
      /\ ret \in [Cores -> {"dock", "barrier", "boot", "end", "start", "exit"}]
  BY DEF TeamInv, TypeOK
<1>2. open = {} /\ nteams = 0 /\ \A c \in Cores : Entered(c) = {}
  BY DEF TeamInv, RootInv, Entered
<1>3. k[MASTER_ID] = 1
  BY RootFacts DEF TeamInv, CoreInv
<1>4. \A s \in Slaves : s \in Cores /\ s # MASTER_ID /\ ret[s] = "dock" /\ Arriving(s) /\ pc[s] \in {"enter", "spin"} /\ s >= 1
  <2>1. \A s \in Slaves : s \in Cores /\ s # MASTER_ID /\ s >= 1
    BY ConstantsAssumption DEF Slaves, Cores, MASTER_ID
  <2>2. \A s \in Slaves : ret[s] = "dock" /\ Arriving(s)
    BY <1>2, <2>1 DEF TeamInv, IdleInv
  <2>3. QED
    BY <2>1, <2>2 DEF Arriving
<1>5. /\ pc'[MASTER_ID] = "wait" /\ ret'[MASTER_ID] = "boot" /\ nthr'[MASTER_ID] = N /\ k' = k /\ team'[ROOT] = RootTeam
      /\ curr'[MASTER_ID] = ROOT /\ \A s \in Slaves : curr'[s] = 0 /\ pc'[s] = pc[s] /\ ret'[s] = ret[s]
  BY <1>1, <1>4, RootFacts DEF NULL
<1>6. TypeOK'
  <2>1. team' \in [TeamIds -> Descriptors]
    BY <1>1, RootFacts
  <2>2. pc' \in [Cores -> Labels] /\ ret' \in [Cores -> {"dock", "barrier", "boot", "end", "start", "exit"}]
    BY <1>1 DEF Labels
  <2>3. nthr' \in [Cores -> 0 .. N]
    <3>1. N \in 0 .. N
      BY ConstantsAssumption
    <3>2. QED
      BY <1>1, <3>1
  <2>4. curr' \in [Cores -> 0 .. MaxTeams + 1]
    BY ConstantsAssumption DEF ROOT, NULL
  <2>5. pool' \subseteq Cores /\ open' \subseteq TeamIds /\ idle' \in 0 .. N - 1 /\ lock' \in {0, 1} /\ nteams' \in 0 .. MaxTeams
    BY RootFacts, ConstantsAssumption
  <2>6. QED
    BY <1>1, <2>1, <2>2, <2>3, <2>4, <2>5 DEF TypeOK
<1>7. Regions' = {} /\ Boss(ROOT)' = MASTER_ID
  BY <1>5, RootFacts DEF Regions, Boss, Proc
<1>8. Entered(MASTER_ID)' = {ROOT} /\ \A s \in Slaves : Entered(s)' = {}
  <2>1. pc'[MASTER_ID] \notin Starting
    BY <1>5 DEF Starting
  <2>2. QED
    BY <1>4, <2>1 DEF Entered
<1>9. CoreInv(MASTER_ID)'
  <2>1. ROOT <= ROOT
    BY DEF ROOT
  <2>2. QED
    BY <1>3, <1>5, <1>7, <1>8, <2>1 DEF CoreInv, Opening, Starting, Closing
<1>10. ASSUME NEW s \in Slaves PROVE CoreInv(s)'
  <2>1. pc'[s] \in {"enter", "spin"} /\ Entered(s)' = {}
    BY <1>4, <1>5, <1>8
  <2>2. k'[s] = 1
    BY <1>4 DEF TeamInv, CoreInv
  <2>3. QED
    BY <2>1, <2>2 DEF CoreInv, Opening, Starting, Closing
<1>11. \A c \in Cores : pc'[c] \in {"wait", "enter", "spin"}
  BY <1>4, <1>5, RootFacts
<1>12. LockInv' /\ TeamsDisjoint'
  BY <1>11, <1>7 DEF LockInv, Holding, TeamsDisjoint, Regions
<1>13. PoolInv'
  <2>1. UNION {SlavesOf(t)' : t \in Regions'} = {}
    BY <1>7
  <2>2. Cardinality({MASTER_ID}) = 1
    BY FS_Singleton
  <2>3. QED
    BY <1>11, <2>1, <2>2 DEF PoolInv
<1>14. FreshInv'
  <2>1. Asking' = {} /\ Cardinality({}) = 0
    BY <1>11, FS_EmptySet DEF Asking
  <2>2. nteams' + Cardinality(Asking') <= MaxTeams
    BY <2>1, ConstantsAssumption
  <2>3. \A t \in TeamIds : \A c \in Cores : bars[c][t] = 0
    BY <1>2, ConstantsAssumption DEF TeamInv, FreshInv, TeamIds
  <2>4. QED
    BY <2>2, <2>3 DEF FreshInv, Asking
<1>15. Boot' /\ ~Exit'
  BY <1>5 DEF Boot, Exit
<1>16. RootInv'
  BY <1>5, <1>15 DEF RootInv
<1>17. ASSUME NEW s \in Slaves PROVE IdleInv(s)'
  <2>1. curr'[s] # OMP_SLAVE_EXIT
    BY <1>5, ConstantsAssumption DEF OMP_SLAVE_EXIT
  <2>2. ret'[s] = "dock" /\ Arriving(s)' /\ s >= k'[MASTER_ID]
    BY <1>3, <1>4, <1>5 DEF Arriving
  <2>3. QED
    BY <1>15, <2>1, <2>2 DEF IdleInv
<1>18. QED
  BY <1>6, <1>7, <1>9, <1>10, <1>12, <1>13, <1>14, <1>16, <1>17, RootFacts DEF TeamInv

\* _app_main returns: every slave is docked when it is marked for exit.
LEMMA AppReturnInv == ASSUME TeamInv, AppReturn PROVE TeamInv'
<1> USE FlagsKept DEF AppReturn, globals, locals, Goto
<1>1. /\ TypeOK /\ pc \in [Cores -> Labels] /\ nthr \in [Cores -> 0 .. N] /\ pc[MASTER_ID] = "run" /\ curr[MASTER_ID] = ROOT
      /\ ret \in [Cores -> {"dock", "barrier", "boot", "end", "start", "exit"}] /\ MASTER_ID \in Cores
  BY RootFacts DEF TeamInv, TypeOK
<1>2. Regions = {} /\ Regions' = {} /\ \A s \in Slaves : Entered(s) = {}
  <2>1. Regions = {}
    BY <1>1, NoRegion
  <2>2. QED
    BY <2>1, NoneEntered DEF Regions
<1>3. Normal /\ nteams >= 1 /\ open = {ROOT} /\ team[ROOT] = RootTeam
  BY <1>1, <1>2, BusyNormal DEF Regions
<1>4. k[MASTER_ID] = 1
  BY <1>1 DEF TeamInv, CoreInv
<1>5. \A s \in Slaves : s \in Cores /\ s # MASTER_ID /\ ret[s] = "dock" /\ Gathered(s) /\ pc[s] = "spin" /\ s >= 1
  <2>1. \A s \in Slaves : s \in Cores /\ s # MASTER_ID /\ s >= 1
    BY ConstantsAssumption DEF Slaves, Cores, MASTER_ID
  <2>2. \A s \in Slaves : ret[s] = "dock" /\ Gathered(s)
    BY <1>2, <1>3, IdleNormal DEF TeamInv
  <2>3. QED
    BY <2>1, <2>2 DEF Gathered
<1>6. /\ pc'[MASTER_ID] = "release" /\ ret'[MASTER_ID] = "exit" /\ nthr'[MASTER_ID] = N /\ k' = k /\ team' = team /\ open' = open
      /\ curr'[MASTER_ID] = ROOT /\ \A s \in Slaves : curr'[s] = OMP_SLAVE_EXIT /\ pc'[s] = pc[s] /\ ret'[s] = ret[s]
  BY <1>1, <1>5
<1>7. TypeOK'
  <2>1. pc' \in [Cores -> Labels] /\ ret' \in [Cores -> {"dock", "barrier", "boot", "end", "start", "exit"}]
    BY <1>1 DEF Labels
  <2>2. nthr' \in [Cores -> 0 .. N]
    <3>1. N \in 0 .. N
      BY ConstantsAssumption
    <3>2. QED
      BY <1>1, <3>1
  <2>3. curr' \in [Cores -> 0 .. MaxTeams + 1]
    BY ConstantsAssumption DEF ROOT, OMP_SLAVE_EXIT
  <2>4. QED
    BY <1>1, <2>1, <2>2, <2>3 DEF TypeOK
<1>8. Boss(ROOT)' = MASTER_ID
  BY <1>3, RootFacts DEF Boss, Proc
<1>9. Entered(MASTER_ID)' = {ROOT} /\ \A s \in Slaves : Entered(s)' = {}
  <2>1. pc'[MASTER_ID] \notin Starting
    BY <1>6 DEF Starting
  <2>2. QED
    BY <1>3, <1>5, <2>1 DEF Entered
<1>10. CoreInv(MASTER_ID)'
  <2>1. ROOT <= ROOT
    BY DEF ROOT
  <2>2. QED
    BY <1>4, <1>6, <1>8, <1>9, <2>1 DEF CoreInv, Opening, Starting, Closing
<1>11. ASSUME NEW s \in Slaves PROVE CoreInv(s)'
  <2>1. pc'[s] = "spin" /\ Entered(s)' = {}
    BY <1>5, <1>6, <1>9
  <2>2. k'[s] = 1
    BY <1>5 DEF TeamInv, CoreInv
  <2>3. QED
    BY <2>1, <2>2 DEF CoreInv, Opening, Starting, Closing
<1>12. \A c \in Cores : pc'[c] \in {"release", "spin"} /\ pc[c] \in {"run", "spin"}
  BY <1>1, <1>5, <1>6, RootFacts
<1>13. LockInv' /\ TeamsDisjoint'
  <2>1. \A c \in Cores : pc'[c] \notin Holding /\ pc[c] \notin Holding
    BY <1>12 DEF Holding
  <2>2. QED
    BY <1>2, <2>1 DEF TeamInv, LockInv, TeamsDisjoint, Regions
<1>14. PoolInv'
  <2>1. pool = {MASTER_ID} \cup UNION {SlavesOf(t) : t \in Regions} /\ idle = N - Cardinality(pool)
    <3>1. nteams > 0 /\ \A c \in Cores : pc[c] # "recruit"
      BY <1>1, <1>3, <1>12 DEF TypeOK
    <3>2. QED
      BY <3>1 DEF TeamInv, PoolInv
  <2>2. UNION {SlavesOf(t)' : t \in Regions'} = UNION {SlavesOf(t) : t \in Regions}
    BY <1>2
  <2>3. QED
    BY <1>12, <2>1, <2>2 DEF PoolInv
<1>15. FreshInv'
  <2>1. Asking' = Asking
    BY <1>12 DEF Asking
  <2>2. QED
    BY <1>2, <2>1 DEF TeamInv, FreshInv, Asking
<1>16. Exit' /\ ~Boot'
  BY <1>6 DEF Boot, Exit
<1>17. RootInv'
  BY <1>3, <1>6, <1>16 DEF RootInv
<1>18. ASSUME NEW s \in Slaves PROVE IdleInv(s)'
  <2>1. ret'[s] = "dock" /\ Gathered(s)' /\ ~(s < k'[MASTER_ID]) /\ curr'[s] = OMP_SLAVE_EXIT
    <3>1. s \in Nat /\ s >= 1
      BY <1>5, ConstantsAssumption DEF Cores
    <3>2. QED
      BY <1>4, <1>5, <1>6, <3>1 DEF Gathered
  <2>2. QED
    BY <1>6, <1>16, <2>1 DEF IdleInv
<1>19. QED
  BY <1>2, <1>7, <1>10, <1>11, <1>13, <1>14, <1>15, <1>17, <1>18, RootFacts DEF TeamInv

\* Nothing happens once every core has stopped.
LEMMA StutterInv == ASSUME TeamInv, UNCHANGED vars PROVE TeamInv'
<1> USE FlagsKept DEF vars
<1>1. /\ Regions' = Regions /\ Boot' = Boot /\ Exit' = Exit
      /\ \A t : Boss(t)' = Boss(t) /\ Size(t)' = Size(t) /\ Pending(t)' = Pending(t) /\ SlavesOf(t)' = SlavesOf(t)
      /\ \A t, i : Proc(t, i)' = Proc(t, i)
      /\ \A c : Entered(c)' = Entered(c)
  BY DEF Regions, Boot, Exit, Boss, Size, Proc, Pending, SlavesOf, Entered
<1>2. \A s : Arriving(s)' = Arriving(s) /\ Gathered(s)' = Gathered(s) /\ Released(s)' = Released(s)
  BY DEF Arriving, Gathered, Released
<1>3. ASSUME NEW t, NEW i, Handshake(t, i) PROVE Handshake(t, i)'
  <2>1. Inside(t)' = Inside(t) /\ Ending(t)' = Ending(t) /\ \A x, y : At(t, x, y)' = At(t, x, y)
    BY <1>1 DEF Inside, Ending, At
  <2>2. \A s, b : Docked(s, t)' = Docked(s, t) /\ InBarrier(s, t)' = InBarrier(s, t) /\ Busy(s, t, b)' = Busy(s, t, b)
    BY <1>2 DEF Docked, InBarrier, Busy
  <2>3. QED
    BY <1>1, <1>3, <2>1, <2>2 DEF Handshake
<1>4. ASSUME NEW t \in Regions PROVE RegionInv(t)'
  <2>1. ShapeInv(t)'
    BY <1>1 DEF TeamInv, RegionInv, ShapeInv
  <2>2. ParentInv(t)' /\ BossInv(t)'
    BY <1>1 DEF TeamInv, RegionInv, ParentInv, BossInv
  <2>3. QED
    BY <1>1, <1>3, <2>1, <2>2 DEF TeamInv, RegionInv
<1>5. ASSUME NEW c \in Cores PROVE CoreInv(c)'
  BY <1>1 DEF TeamInv, CoreInv
<1>6. ASSUME NEW s \in Slaves PROVE IdleInv(s)'
  BY <1>1, <1>2 DEF TeamInv, IdleInv
<1>7. RootInv' /\ LockInv' /\ PoolInv' /\ FreshInv'
  BY <1>1 DEF TeamInv, RootInv, LockInv, PoolInv, FreshInv
<1>8. TypeOK' /\ TeamsDisjoint'
  BY <1>1 DEF TeamInv, TypeOK, TeamsDisjoint
<1>9. QED
  BY <1>1, <1>4, <1>5, <1>6, <1>7, <1>8 DEF TeamInv

\* The steps of MSGBarrier_SlaveEnter, Wait and Release.
LEMMA BarrierInv == ASSUME TeamInv, FlagsDisjoint, NEW c \in Cores, Barrier(c) PROVE TeamInv'
<1>1. CASE SlaveEnter(c)
  BY <1>1, SlaveEnterInv
<1>2. CASE SlaveExit(c)
  BY <1>2, SlaveExitInv
<1>3. CASE WaitOne(c)
  BY <1>3, WaitOneRegion, WaitOneRoot
<1>4. CASE WaitDone(c)
  BY <1>4, WaitDoneRegion, RootDone
<1>5. CASE ReleaseOne(c)
  BY <1>5, ReleaseOneRegion, ReleaseOneRoot
<1>6. CASE ReleaseDone(c)
  BY <1>6, ReleaseDoneRegion, RootDone
<1>7. QED
  BY <1>1, <1>2, <1>3, <1>4, <1>5, <1>6 DEF Barrier

\* The steps of gomp_team_start.
LEMMA TeamStartInv == ASSUME TeamInv, N <= PoolBits, NEW c \in Cores, gomp_team_start(c) PROVE TeamInv'
<1>1. CASE GLOBAL_INFOS_WAIT(c, "lock", "resolve")
  BY <1>1, StartLockInv
<1>2. CASE ResolveRead(c)
  BY <1>2, ResolveReadInv
<1>3. CASE ResolveTake(c)
  BY <1>3, ResolveTakeInv
<1>4. CASE Recruit(c)
  BY <1>4, RecruitInv
<1>5. CASE GLOBAL_INFOS_SIGNAL(c, "unlock", "install")
  BY <1>5, UnlockInv
<1>6. CASE Install(c)
  BY <1>6, InstallInv
<1>7. QED
  BY <1>1, <1>2, <1>3, <1>4, <1>5, <1>6 DEF gomp_team_start

\* The steps of gomp_team_end.
LEMMA TeamEndInv == ASSUME TeamInv, NEW c \in Cores, gomp_team_end(c) PROVE TeamInv'
<1>1. CASE GLOBAL_INFOS_WAIT(c, "endlock", "endfree")
  BY <1>1, EndLockInv
<1>2. CASE TeamEndFree(c)
  BY <1>2, TeamEndFreeInv
<1>3. CASE GLOBAL_INFOS_SIGNAL(c, "endunlock", "endrestore")
  BY <1>3, UnlockInv
<1>4. CASE TeamEndRestore(c)
  BY <1>4, TeamEndRestoreInv
<1>5. QED
  BY <1>1, <1>2, <1>3, <1>4 DEF gomp_team_end

\* Every step keeps the invariant.
LEMMA NextInv == ASSUME TeamInv, N <= PoolBits, FlagsDisjoint, [Next]_vars PROVE TeamInv'
<1>1. ASSUME NEW c \in Cores, Step(c) PROVE TeamInv'
  <2>1. CASE omp_initenv \/ AppReturn
    BY <2>1, InitenvInv, AppReturnInv
  <2>2. CASE Barrier(c) \/ GOMP_barrier(c)
    BY <2>2, BarrierInv, GOMP_barrierInv
  <2>3. CASE Dispatch(c) \/ TaskReturn(c)
    BY <2>3, DispatchInv, TaskReturnInv
  <2>4. CASE GOMP_parallel_start(c) \/ gomp_team_start(c)
    BY <2>4, ParallelStartInv, TeamStartInv
  <2>5. CASE GOMP_parallel_end(c) \/ gomp_team_end(c)
    BY <2>5, ParallelEndInv, TeamEndInv
  <2>6. QED
    BY <1>1, <2>1, <2>2, <2>3, <2>4, <2>5 DEF Step
<1>2. CASE Finished \/ UNCHANGED vars
  BY <1>2, StutterInv DEF Finished
<1>3. QED
  BY <1>1, <1>2 DEF Next

-----------------------------------------------------------------------------
(* The theorems.  The pool needs a bit for every core: a core beyond the width of  *)
(* GLOBAL_THREAD_POOL is recruited whether it is busy or not.  And the flags of    *)
(* bar.h may share no word: with DEFAULT_MAXPROC = 64 that is 17 cores at most.    *)

\* The inductive invariant holds in every reachable state of the runtime.
THEOREM Invariance == ASSUME N <= PoolBits, FlagsDisjoint PROVE Spec => []TeamInv
<1>1. Init => TeamInv
  BY InitInv
<1>2. TeamInv /\ [Next]_vars => TeamInv'
  BY NextInv
<1>3. QED
  BY <1>1, <1>2, PTL DEF Spec

\* gomp_team_start and gomp_team_end share out the cores: no core serves two regions, and
\* whenever GLOBAL_INFOS is unlocked the pool and the idle count are those of the open regions.
THEOREM CoresAreAccounted == ASSUME N <= PoolBits, FlagsDisjoint PROVE Spec => []CoresAccounted
<1>1. TeamInv => CoresAccounted
  <2> SUFFICES ASSUME TeamInv PROVE CoresAccounted
    OBVIOUS
  <2>1. TypeOK /\ TeamsDisjoint
    BY DEF TeamInv
  <2>2. ASSUME lock = 0, nteams > 0
        PROVE  pool = {MASTER_ID} \cup UNION {SlavesOf(t) : t \in Regions} /\ idle = N - Cardinality(pool)
    <3>1. \A c \in Cores : pc[c] # "recruit"
      BY <2>2 DEF TeamInv, LockInv, Holding
    <3>2. QED
      BY <2>2, <3>1 DEF TeamInv, PoolInv
  <2>3. QED
    BY <2>1, <2>2 DEF CoresAccounted, PoolExact, Regions
<1>2. QED
  BY <1>1, Invariance, PTL

\* A core that executes a parallel function is a thread of an open region, which recruited as
\* many threads as gomp_resolve_num_threads promised; a slave told to exit is in no region.
THEOREM CoresAreInPlace == ASSUME N <= PoolBits, FlagsDisjoint PROVE Spec => []CoresInPlace
<1>1. ASSUME TeamInv PROVE RunsOwnTeam
  <2> SUFFICES ASSUME NEW c \in Cores, pc[c] \in {"run", "release"}
               PROVE  /\ curr[c] \in open /\ c \in Range(Mine(c).procs)
                      /\ curr[c] # ROOT => Len(Mine(c).procs) = Mine(c).nthreads
    BY DEF RunsOwnTeam
  <2>1. PICK t : t = curr[c]
    OBVIOUS
  <2>2. t \in Entered(c)
    BY <1>1, <2>1 DEF TeamInv, CoreInv, Closing
  <2>3. t \in open /\ (t = ROOT => c = MASTER_ID)
    BY <1>1, <2>2, EnteredFacts
  <2>4. CASE t = ROOT
    <3>1. team[ROOT] = RootTeam
      BY <1>1, <2>3, <2>4 DEF TeamInv, RootInv
    <3>2. RootTeam.procs = [i \in 1 .. N |-> i - 1] /\ 1 \in 1 .. N /\ RootTeam.procs[1] = MASTER_ID
      BY RootFacts, ConstantsAssumption DEF RootTeam
    <3>3. MASTER_ID \in Range(RootTeam.procs)
      BY <3>2 DEF Range
    <3>4. QED
      BY <2>1, <2>3, <2>4, <3>1, <3>3 DEF Mine
  <2>5. CASE t # ROOT
    <3>1. /\ t \in Regions /\ (c = Boss(t) => ~Pending(t)) /\ c \in Range(team[t].procs)
          /\ c = Boss(t) \/ \E i \in 1 .. Size(t) - 1 : c = Proc(t, i)
      BY <1>1, <2>2, <2>5, EnteredFacts DEF Entered
    <3>2. RegionInv(t) /\ ShapeInv(t)
      BY <1>1, <3>1 DEF TeamInv, RegionInv
    <3>3. ~Pending(t)
      <4>1. CASE c = Boss(t)
        BY <3>1, <4>1
      <4>2. ASSUME NEW i \in 1 .. Size(t) - 1, c = Proc(t, i) PROVE ~Pending(t)
        BY <3>2, <4>2 DEF RegionInv, Handshake, Docked, Gathered
      <4>3. QED
        BY <3>1, <4>1, <4>2
    <3>4. Size(t) = team[t].nthreads
      BY <3>2, <3>3 DEF ShapeInv, Pending, Starting
    <3>5. QED
      BY <2>1, <2>3, <3>1, <3>4 DEF Mine, Size
  <2>6. QED
    BY <2>4, <2>5
<1>2. ASSUME TeamInv PROVE ShutdownQuiet
  <2> SUFFICES ASSUME NEW s \in Slaves, curr[s] = OMP_SLAVE_EXIT PROVE pc[s] \in {"spin", "dispatch", "stopped"}
    BY DEF ShutdownQuiet
  <2>1. IdleInv(s) /\ RootInv
    BY <1>2 DEF TeamInv
  <2>2. Exit /\ ~Boot /\ pc[MASTER_ID] # "initenv" /\ open = {ROOT}
    BY <2>1 DEF IdleInv, RootInv, Boot, Exit
  <2>3. Entered(s) = {}
    BY <2>2, NoneEntered DEF Regions
  <2>4. QED
    BY <2>1, <2>2, <2>3 DEF IdleInv, Gathered, Released
<1>3. TeamInv => CoresInPlace
  BY <1>1, <1>2 DEF CoresInPlace
<1>4. QED
  BY <1>3, Invariance, PTL

\* When gomp_team_end frees the cores of a region, each of them has returned from the parallel
\* function, has passed every barrier of the region and is docked.
THEOREM JoinsBeforeFree == ASSUME N <= PoolBits, FlagsDisjoint PROVE Spec => []JoinBeforeFree
<1>1. ASSUME TeamInv PROVE JoinBeforeFree
  <2> SUFFICES ASSUME NEW c \in Cores, pc[c] = "endfree", NEW s \in SlavesOf(curr[c])
               PROVE  pc[s] = "spin" /\ ret[s] = "dock" /\ bars[s][curr[c]] = Mine(c).bars
    BY DEF JoinBeforeFree
  <2>1. PICK t : t = curr[c]
    OBVIOUS
  <2>2. t \in Regions /\ Boss(t) = c /\ ~Pending(t)
    BY <1>1, <2>1, MasterAt
  <2>3. RegionInv(t) /\ ShapeInv(t) /\ TypeOK
    BY <1>1, <2>2 DEF TeamInv, RegionInv
  <2>4. PICK i \in 1 .. Size(t) - 1 : s = Proc(t, i)
    BY <2>1, <2>2, <2>3, RegionFacts
  <2>5. Docked(s, t) /\ bars[s][t] = bars[c][t]
    BY <2>1, <2>2, <2>3, <2>4 DEF RegionInv, Handshake, Ending
  <2>6. bars[c][t] = team[t].bars
    BY <2>1, <2>2, <2>3 DEF RegionInv, BossInv
  <2>7. QED
    BY <2>1, <2>5, <2>6 DEF Docked, Gathered, Mine
<1>2. QED
  BY <1>1, Invariance, PTL
==============================================================================
