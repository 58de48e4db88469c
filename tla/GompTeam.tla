------------------------------- MODULE GompTeam -------------------------------
(***************************************************************************)
(* Fork and join of the VSOC OpenMP runtime: boot (libgomp.c), parallel    *)
(* regions (parallel.c, team.c), the docking of idle slaves and the        *)
(* shutdown, with nested regions competing for the idle cores.             *)
(*                                                                         *)
(* Slaves dock, and teams synchronise, on the same per-core flags of       *)
(* bar_sw.c.  MSGBarrier splits every flag access into loads and stores;   *)
(* here one slave is gathered, or released, per step.                      *)
(*                                                                         *)
(* The parallel functions are arbitrary: a thread may open nested regions  *)
(* and every thread of a region calls GOMP_barrier the same number of      *)
(* times, which is what OpenMP asks of a program.                          *)
(***************************************************************************)
EXTENDS Integers, Sequences, FiniteSets, SequencesExt

CONSTANTS N,        \* nprocs
          PoolBits, \* width of GLOBAL_THREAD_POOL and of mask: 32 in the code
          DefaultMaxProc, \* DEFAULT_MAXPROC, 64 in libgomp_config.h
          FlagMod,  \* flags are words: 2^32 in the code
          MaxTeams, \* bound: team descriptors ever allocated, the root included
          MaxBars   \* bound: GOMP_barrier calls per region

ASSUME ConstantsAssumption ==
  /\ N \in Nat \ {0} /\ PoolBits \in Nat \ {0}
  /\ DefaultMaxProc \in Nat
  /\ FlagMod \in Nat /\ FlagMod >= 2
  /\ MaxTeams \in Nat \ {0} /\ MaxBars \in Nat

Cores == 0 .. N-1
MASTER_ID == 0
Slaves == Cores \ {MASTER_ID}

\* bar.h: the flags of core x, as words from BARRIER_BASE on.  The master's array
\* starts DEFAULT_MAXPROC bytes, not words, after that of the slaves.
SIZEOF_WORD == 4
SLAVE_FLAG(x) == x
MASTER_FLAG(x) == (DefaultMaxProc \div SIZEOF_WORD) + x
Words == 0 .. MASTER_FLAG(N)

\* The arrays share no word that slaves or masters use: 17 cores at most in the code.
FlagsDisjoint == N <= MASTER_FLAG(1)

TeamIds == 1 .. MaxTeams
ROOT == 1                        \* the descriptor of gomp_master_region_start
NULL == 0
OMP_SLAVE_EXIT == MaxTeams + 1   \* 0xdeadbeef

VARIABLES
  lock,       \* the semaphore word behind GLOBAL_INFOS_WAIT / SIGNAL
  idle,       \* GLOBAL_IDLE_CORES
  pool,       \* GLOBAL_THREAD_POOL: the cores whose bit is set (busy)
  curr,       \* CURR_TEAM(core)
  team,       \* the team descriptors
  nteams,     \* how many shmalloc has handed out
  mem,        \* the flag words
  pc,         \* where each core is
  ret,        \* what the barrier call in progress returns to
  nthr,       \* the core's num_threads argument, then the resolved value
  new,        \* its new_team
  k,          \* its loop index in MSGBarrier_Wait / Release
  g,          \* its start value in MSGBarrier_SlaveEnter
  bars,       \* bars[c][t]: barriers of region t that core c has passed
  open        \* history: regions between team start and team end

vars == <<lock, idle, pool, curr, team, nteams, mem,
          pc, ret, nthr, new, k, g, bars, open>>
globals == <<lock, idle, pool, curr, team, nteams, open>>
locals == <<ret, nthr, new, k, g, bars>>

\* The exit count of a core, and whether it waits as a slave; core 0 never does.
slaveFlag == [c \in Cores |-> mem[SLAVE_FLAG(c)]]
masterFlag == [c \in Cores |-> IF c = MASTER_ID THEN 0 ELSE mem[MASTER_FLAG(c)]]

NoTeam == [procs |-> << >>, nthreads |-> 0, mask |-> {}, parent |-> NULL, bars |-> 0]

\* Before main(): TCDM is zero, the master enters omp_initenv and every slave
\* goes straight to MSlaveBarrier_SlaveEnter.
Init ==
  /\ lock = 0 /\ idle = 0 /\ pool = {} /\ nteams = 0 /\ open = {}
  /\ curr = [c \in Cores |-> NULL]
  /\ team = [t \in TeamIds |-> NoTeam]
  /\ mem = [w \in Words |-> 0]
  /\ pc = [c \in Cores |-> IF c = MASTER_ID THEN "initenv" ELSE "enter"]
  /\ ret = [c \in Cores |-> "dock"]
  /\ nthr = [c \in Cores |-> 0]
  /\ new = [c \in Cores |-> NULL]
  /\ k = [c \in Cores |-> 1]
  /\ g = [c \in Cores |-> 0]
  /\ bars = [c \in Cores |-> [t \in TeamIds |-> 0]]

Goto(c, label) == pc' = [pc EXCEPT ![c] = label]

\* The descriptor core c works on, its thread i (proc_ids[i]) and its slaves.
Mine(c) == team[curr[c]]
Proc(t, i) == team[t].procs[i+1]
SlavesOf(t) == {Proc(t, i) : i \in 1 .. Len(team[t].procs) - 1}
IsMaster(c) == c = Proc(curr[c], 0)

-----------------------------------------------------------------------------
\* gomp_master_region_start with specified = 1: a team of one thread whose
\* proc_ids list every core, "to make SW barrier work".
RootTeam == [procs |-> [i \in 1 .. N |-> i-1], nthreads |-> 1, mask |-> Cores,
             parent |-> NULL, bars |-> 0]

\* Boot: omp_initenv with gomp_master_region_start, then the
\* master gathers every slave on the dock.
omp_initenv ==
  /\ pc[MASTER_ID] = "initenv"
  /\ idle' = N - 1
  /\ pool' = {MASTER_ID}
  /\ lock' = 0
  /\ team' = [team EXCEPT ![ROOT] = RootTeam]
  /\ curr' = [c \in Cores |-> IF c = MASTER_ID THEN ROOT ELSE NULL]
  /\ nteams' = 1
  /\ open' = {ROOT}
  /\ nthr' = [nthr EXCEPT ![MASTER_ID] = N]
  /\ ret' = [ret EXCEPT ![MASTER_ID] = "boot"]
  /\ Goto(MASTER_ID, "wait")
  /\ UNCHANGED <<mem, k, g, bars, new>>

-----------------------------------------------------------------------------
\* MSGBarrier_SlaveEnter: read the start value, notify the master; later see
\* the exit count change.
SlaveEnter(c) ==
  /\ pc[c] = "enter"
  /\ g' = [g EXCEPT ![c] = mem[SLAVE_FLAG(c)]]
  /\ mem' = [mem EXCEPT ![MASTER_FLAG(c)] = 1]
  /\ Goto(c, "spin")
  /\ UNCHANGED <<globals, ret, nthr, k, bars, new>>

PassBarrier(c) == bars' = [bars EXCEPT ![c][curr[c]] = @ + 1]

SlaveExit(c) ==
  /\ pc[c] = "spin"
  /\ g[c] # mem[SLAVE_FLAG(c)]
  /\ \/ /\ ret[c] = "dock"
        /\ Goto(c, "dispatch")
        /\ UNCHANGED bars
     \/ /\ ret[c] = "barrier"
        /\ Goto(c, "run")
        /\ PassBarrier(c)
  /\ UNCHANGED <<globals, mem, ret, nthr, k, g, new>>

\* MSGBarrier_Wait: gather thread k of nthr and reset its flag, or go on.
WaitOne(c) ==
  /\ pc[c] = "wait" /\ k[c] < nthr[c]
  /\ mem[MASTER_FLAG(Proc(curr[c], k[c]))] # 0
  /\ mem' = [mem EXCEPT ![MASTER_FLAG(Proc(curr[c], k[c]))] = 0]
  /\ k' = [k EXCEPT ![c] = @ + 1]
  /\ UNCHANGED <<globals, pc, ret, nthr, g, bars, new>>

WaitDone(c) ==
  /\ pc[c] = "wait" /\ k[c] >= nthr[c]
  /\ k' = [k EXCEPT ![c] = 1]
  /\ Goto(c, CASE ret[c] = "boot"    -> "run"
               [] ret[c] = "barrier" -> "release"
               [] ret[c] = "end"     -> "endlock")
  /\ UNCHANGED <<globals, mem, ret, nthr, g, bars, new>>

\* MSGBarrier_Release: bump the exit count of thread k of nthr, or go on.
ReleaseOne(c) ==
  /\ pc[c] = "release" /\ k[c] < nthr[c]
  /\ mem' = [mem EXCEPT ![SLAVE_FLAG(Proc(curr[c], k[c]))] = (@ + 1) % FlagMod]
  /\ k' = [k EXCEPT ![c] = @ + 1]
  /\ UNCHANGED <<globals, pc, ret, nthr, g, bars, new>>

ReleaseDone(c) ==
  /\ pc[c] = "release" /\ k[c] >= nthr[c]
  /\ k' = [k EXCEPT ![c] = 1]
  /\ IF ret[c] = "barrier" THEN PassBarrier(c) ELSE UNCHANGED bars
  /\ Goto(c, IF ret[c] = "exit" THEN "stopped" ELSE "run")
  /\ UNCHANGED <<globals, mem, ret, nthr, g, new>>

\* GOMP_barrier -> gomp_hal_barrier
GOMP_barrier(c) ==
  /\ pc[c] = "run"
  /\ bars[c][curr[c]] < Mine(c).bars
  /\ ret' = [ret EXCEPT ![c] = "barrier"]
  /\ nthr' = [nthr EXCEPT ![c] = Mine(c).nthreads]
  /\ Goto(c, IF IsMaster(c) THEN "wait" ELSE "enter")
  /\ UNCHANGED <<globals, mem, k, g, bars, new>>

-----------------------------------------------------------------------------
\* The slave loop of omp_SPMD_worker.
Dispatch(c) ==
  /\ pc[c] = "dispatch"
  /\ Goto(c, IF curr[c] = OMP_SLAVE_EXIT THEN "stopped" ELSE "run")
  /\ UNCHANGED <<globals, mem, locals>>

\* Mutant: the slave does not dock again.
Bug_NoDock(c) ==
  /\ pc[c] = "run" /\ ~IsMaster(c)
  /\ bars[c][curr[c]] = Mine(c).bars
  /\ Goto(c, "dispatch")
  /\ UNCHANGED <<globals, mem, locals>>

\* (**omp_task_f) returns: dock again.
TaskReturn(c) ==
  /\ pc[c] = "run" /\ ~IsMaster(c)
  /\ bars[c][curr[c]] = Mine(c).bars
  /\ ret' = [ret EXCEPT ![c] = "dock"]
  /\ Goto(c, "enter")
  /\ UNCHANGED <<globals, mem, nthr, k, g, bars, new>>

\* _app_main returns: mark every slave, release them all, stop.
AppReturn ==
  /\ pc[MASTER_ID] = "run" /\ curr[MASTER_ID] = ROOT
  /\ curr' = [c \in Cores |-> IF c = MASTER_ID THEN ROOT ELSE OMP_SLAVE_EXIT]
  /\ nthr' = [nthr EXCEPT ![MASTER_ID] = N]
  /\ ret' = [ret EXCEPT ![MASTER_ID] = "exit"]
  /\ Goto(MASTER_ID, "release")
  /\ UNCHANGED <<lock, idle, pool, team, nteams, open, mem, k, g, bars, new>>

-----------------------------------------------------------------------------
\* GOMP_parallel_start: gomp_team_start, then MSlaveBarrier_Release.
GOMP_parallel_start(c) ==
  /\ pc[c] = "run"
  /\ nteams + Cardinality({d \in Cores : pc[d] \in {"lock", "resolve", "take"}}) < MaxTeams
  /\ \E specified \in 0 .. N : nthr' = [nthr EXCEPT ![c] = specified]
  /\ Goto(c, "lock")
  /\ UNCHANGED <<globals, mem, ret, k, g, bars, new>>

\* GLOBAL_INFOS_WAIT: the semaphore word tests and sets in one access.
GLOBAL_INFOS_WAIT(c, from, to) ==
  /\ pc[c] = from
  /\ lock = 0
  /\ lock' = 1
  /\ Goto(c, to)
  /\ UNCHANGED <<idle, pool, curr, team, nteams, open, mem, locals>>

GLOBAL_INFOS_SIGNAL(c, from, to) ==
  /\ pc[c] = from
  /\ lock' = 0
  /\ Goto(c, to)
  /\ UNCHANGED <<idle, pool, curr, team, nteams, open, mem, locals>>

\* gomp_resolve_num_threads: read the idle count ...
ResolveRead(c) ==
  /\ pc[c] = "resolve"
  /\ nthr' = [nthr EXCEPT ![c] = IF @ # 0 /\ @ < idle + 1 THEN @ ELSE idle + 1]
  /\ Goto(c, "take")
  /\ UNCHANGED <<globals, mem, ret, k, g, bars, new>>

\* ... take the cores out of it, and fill a new descriptor with the master.
ResolveTake(c) ==
  /\ pc[c] = "take"
  /\ idle' = idle - (nthr[c] - 1)
  /\ nteams' = nteams + 1
  /\ open' = open \cup {nteams + 1}
  /\ \E b \in 0 .. MaxBars :
       team' = [team EXCEPT ![nteams + 1] =
                  [procs |-> <<c>>, nthreads |-> nthr[c], mask |-> {c},
                   parent |-> NULL, bars |-> b]]
  /\ new' = [new EXCEPT ![c] = nteams + 1]
  /\ Goto(c, "recruit")
  /\ UNCHANGED <<lock, pool, curr, mem, ret, nthr, k, g, bars>>

\* A core the recruiting loop takes: its bit is clear, or the mask has shifted
\* out of the word.
Available(p) == p >= PoolBits \/ p \notin pool

\* The loop over the pool, core 0 skipped, until as many as wanted are taken.
Recruits(want) ==
  LET taken[i \in 0 .. N-1] ==
        IF i = 0 THEN << >>
        ELSE IF Len(taken[i-1]) < want /\ Available(i) THEN Append(taken[i-1], i)
        ELSE taken[i-1]
  IN  taken[N-1]

\* Mutant: recruited cores are not marked busy in the pool.
Bug_RecruitLeavesPool(c) ==
  /\ pc[c] = "recruit"
  /\ LET taken == Recruits(nthr[c] - 1)
     IN  /\ team' = [team EXCEPT ![new[c]].procs = @ \o taken,
                                 ![new[c]].mask = @ \cup Range(taken)]
         /\ curr' = [p \in Cores |-> IF p \in Range(taken) THEN new[c] ELSE curr[p]]
  /\ Goto(c, "unlock")
  /\ UNCHANGED <<lock, idle, pool, nteams, open, mem, locals>>

Recruit(c) ==
  /\ pc[c] = "recruit"
  /\ LET t == new[c]
         taken == Recruits(nthr[c] - 1)
         bits == {p \in Range(taken) : p < PoolBits}
     IN  /\ pool' = pool \cup bits
         /\ team' = [team EXCEPT ![t].procs = @ \o taken, ![t].mask = @ \cup bits]
         /\ curr' = [p \in Cores |-> IF p \in Range(taken) THEN t ELSE curr[p]]
  /\ Goto(c, "unlock")
  /\ UNCHANGED <<lock, idle, nteams, open, mem, locals>>

\* Link the new team to the parent and make it current.
Install(c) ==
  /\ pc[c] = "install"
  /\ LET t == new[c]
     IN  /\ team' = [team EXCEPT ![t].parent = curr[c]]
         /\ curr' = [curr EXCEPT ![c] = t]
         /\ nthr' = [nthr EXCEPT ![c] = team[t].nthreads]
  /\ ret' = [ret EXCEPT ![c] = "start"]
  /\ Goto(c, "release")
  /\ UNCHANGED <<lock, idle, pool, nteams, open, mem, k, g, bars, new>>

\* Mutant: the region ends without gathering its slaves.
Bug_EndWithoutWait(c) ==
  /\ pc[c] = "run" /\ curr[c] # ROOT /\ IsMaster(c)
  /\ bars[c][curr[c]] = Mine(c).bars
  /\ Goto(c, "endlock")
  /\ UNCHANGED <<globals, mem, locals>>

\* GOMP_parallel_end: MSlaveBarrier_Wait, then gomp_team_end.
GOMP_parallel_end(c) ==
  /\ pc[c] = "run" /\ curr[c] # ROOT /\ IsMaster(c)
  /\ bars[c][curr[c]] = Mine(c).bars
  /\ nthr' = [nthr EXCEPT ![c] = Mine(c).nthreads]
  /\ ret' = [ret EXCEPT ![c] = "end"]
  /\ Goto(c, "wait")
  /\ UNCHANGED <<globals, mem, k, g, bars, new>>

\* Free all but the master; the master stays busy in the parent region.
TeamEndFree(c) ==
  /\ pc[c] = "endfree"
  /\ idle' = idle + (Mine(c).nthreads - 1)
  /\ pool' = pool \ (Mine(c).mask \ {c})
  /\ open' = open \ {curr[c]}
  /\ Goto(c, "endunlock")
  /\ UNCHANGED <<lock, curr, team, nteams, mem, locals>>

\* Mutant: CURR_TEAM is not set back to the parent.
Bug_KeepTeam(c) ==
  /\ pc[c] = "endrestore"
  /\ Goto(c, "run")
  /\ UNCHANGED <<globals, mem, locals>>

TeamEndRestore(c) ==
  /\ pc[c] = "endrestore"
  /\ curr' = [curr EXCEPT ![c] = Mine(c).parent]
  /\ Goto(c, "run")
  /\ UNCHANGED <<lock, idle, pool, team, nteams, open, mem, locals>>

gomp_team_start(c) ==
  \/ GLOBAL_INFOS_WAIT(c, "lock", "resolve")
  \/ ResolveRead(c)
  \/ ResolveTake(c)
  \/ Recruit(c)
  \/ GLOBAL_INFOS_SIGNAL(c, "unlock", "install")
  \/ Install(c)

gomp_team_end(c) ==
  \/ GLOBAL_INFOS_WAIT(c, "endlock", "endfree")
  \/ TeamEndFree(c)
  \/ GLOBAL_INFOS_SIGNAL(c, "endunlock", "endrestore")
  \/ TeamEndRestore(c)

-----------------------------------------------------------------------------
Barrier(c) == \/ SlaveEnter(c) \/ SlaveExit(c)
              \/ WaitOne(c) \/ WaitDone(c)
              \/ ReleaseOne(c) \/ ReleaseDone(c)

Step(c) == \/ c = MASTER_ID /\ (omp_initenv \/ AppReturn)
           \/ Barrier(c) \/ GOMP_barrier(c)
           \/ Dispatch(c) \/ TaskReturn(c)
           \/ GOMP_parallel_start(c) \/ gomp_team_start(c)
           \/ GOMP_parallel_end(c) \/ gomp_team_end(c)

Finished == (\A c \in Cores : pc[c] = "stopped") /\ UNCHANGED vars

Next == (\E c \in Cores : Step(c)) \/ Finished

Spec == Init /\ [][Next]_vars

\* Every core is clocked, so each one keeps executing.
FairSpec == Spec /\ \A c \in Cores : WF_vars(Step(c))

-----------------------------------------------------------------------------
Descriptors == [procs : Seq(Cores), nthreads : 0 .. N, mask : SUBSET Cores,
                parent : 0 .. MaxTeams, bars : 0 .. MaxBars]

Labels == {"initenv", "enter", "spin", "wait", "release", "run", "dispatch", "stopped",
           "lock", "resolve", "take", "recruit", "unlock", "install",
           "endlock", "endfree", "endunlock", "endrestore"}

TypeOK ==
  /\ lock \in {0, 1}
  /\ idle \in 0 .. N-1
  /\ pool \subseteq Cores
  /\ curr \in [Cores -> 0 .. MaxTeams + 1]
  /\ team \in [TeamIds -> Descriptors]
  /\ nteams \in 0 .. MaxTeams
  /\ open \subseteq TeamIds
  /\ mem \in [Words -> 0 .. FlagMod-1]
  /\ masterFlag \in [Cores -> {0, 1}]
  /\ pc \in [Cores -> Labels]
  /\ ret \in [Cores -> {"dock", "barrier", "boot", "end", "start", "exit"}]
  /\ nthr \in [Cores -> 0 .. N]
  /\ new \in [Cores -> 0 .. MaxTeams]
  /\ k \in [Cores -> 1 .. N]
  /\ g \in [Cores -> 0 .. FlagMod-1]
  /\ bars \in [Cores -> [TeamIds -> 0 .. MaxBars]]

\* A core serves one region at a time: no core is a slave of two open regions.
TeamsDisjoint ==
  \A t, u \in open \ {ROOT} : t # u => SlavesOf(t) \cap SlavesOf(u) = {}

\* Whenever the global lock is free, the pool and the idle count describe the
\* same set of cores: the slaves of the open regions, and the global master.
PoolExact ==
  lock = 0 /\ nteams > 0 =>
    /\ pool = {MASTER_ID} \cup UNION {SlavesOf(t) : t \in open \ {ROOT}}
    /\ idle = N - Cardinality(pool)

\* gomp_team_start and gomp_team_end share out the cores: none is given away
\* twice and none is forgotten, however the regions nest and compete.
CoresAccounted == TypeOK /\ TeamsDisjoint /\ PoolExact

\* Every core that runs a parallel function is a thread of an open region, and
\* that region recruited as many threads as its descriptor says.
RunsOwnTeam ==
  \A c \in Cores : pc[c] \in {"run", "release"} =>
    /\ curr[c] \in open
    /\ c \in Range(Mine(c).procs)
    /\ curr[c] # ROOT => Len(Mine(c).procs) = Mine(c).nthreads

\* A region joins before it ends: when its master frees the cores, each of
\* them has finished its function and docked, and passed every barrier.
JoinBeforeFree ==
  \A c \in Cores : pc[c] = "endfree" =>
    \A s \in SlavesOf(curr[c]) :
      /\ pc[s] = "spin" /\ ret[s] = "dock"
      /\ bars[s][curr[c]] = Mine(c).bars

\* The master marks the slaves for exit only when all of them are docked: no
\* slave is inside a parallel function when its CURR_TEAM is overwritten.
ShutdownQuiet ==
  \A s \in Slaves : curr[s] = OMP_SLAVE_EXIT => pc[s] \in {"spin", "dispatch", "stopped"}

\* CURR_TEAM of another core is written while that core is docked only: a core
\* runs the region it was recruited for, and is inside none when told to exit.
CoresInPlace == RunsOwnTeam /\ ShutdownQuiet

\* The program ends: every slave is released and leaves the runtime.
AllStop == <>(\A c \in Cores : pc[c] = "stopped")
==============================================================================
