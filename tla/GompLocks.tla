------------------------------- MODULE GompLocks -------------------------------
(***************************************************************************)
(* Locks of the VSOC OpenMP runtime: the test-and-set semaphore words of   *)
(* the cluster (ext_mem.h), the bump allocator of lock words (lock.c,      *)
(* team.c, work.c) and the locks built on them (critical.c, omp_* API).    *)
(* Words are counted from SEM_BASE; word 0 protects the allocator, words 1 *)
(* and 2 are reserved, word 5 is the global lock (omp_initenv).            *)
(* Region locks are addresses of such words.  A user lock is a variable in *)
(* ordinary memory: omp_init_lock stores the address of a word in it, but  *)
(* omp_set_lock, omp_unset_lock and omp_test_lock read and write the       *)
(* variable itself, never the word.                                        *)
(***************************************************************************)
EXTENDS Naturals, Sequences

CONSTANTS Threads,
          InitLockCallers, \* threads whose code calls omp_init_lock
          TestLockCallers, \* threads whose code calls omp_test_lock
          MaxRegions,      \* bound: parallel regions opened
          SemWords         \* words of semaphore memory: 4096 in the platform

ASSUME ConstantsAssumption ==
  /\ InitLockCallers \subseteq Threads /\ TestLockCallers \subseteq Threads
  /\ MaxRegions \in Nat /\ SemWords \in Nat /\ SemWords > 5

NEXT_LOCK_LOCK == 0
HAL_FIRST_FREE_LOCK_ID == 3
GLOBAL_LOCK == 2 + HAL_FIRST_FREE_LOCK_ID

\* What a lock word can be for: four locks per region, one per omp_init_lock.
RegionLocks == {"critical", "atomic", "business", "enter"} \X (1 .. MaxRegions)
UserLocks == {"user"} \X InitLockCallers
LockNames == RegionLocks \cup UserLocks
Unset == 0      \* no lock has word 0

VARIABLES
  sem,      \* the semaphore memory
  next,     \* *next_lock
  word,     \* word[l]: the word lock l was given
  var,      \* var[l]: what the variable of user lock l holds, an address or 0
  regions,  \* regions opened so far
  pc,
  todo,     \* todo[t]: the allocations left in the call thread t is making
  reg,      \* reg[t]: *next_lock, or the lock variable, as thread t has loaded it
  holds     \* holds[t]: the lock thread t is inside or is testing, or <<>>

vars == <<sem, next, word, var, regions, pc, todo, reg, holds>>

Words == 0 .. SemWords - 1
Goto(t, label) == pc' = [pc EXCEPT ![t] = label]

\* After omp_initenv: gomp_hal_init_lock(GLOBAL_LOCK) has taken the first word.
Init ==
  /\ sem = [w \in Words |-> 0]
  /\ next = GLOBAL_LOCK + 1
  /\ word = [l \in LockNames |-> Unset]
  /\ var = [l \in UserLocks |-> 0]
  /\ regions = 0
  /\ pc = [t \in Threads |-> "run"]
  /\ todo = [t \in Threads |-> << >>]
  /\ reg = [t \in Threads |-> 0]
  /\ holds = [t \in Threads |-> << >>]

-----------------------------------------------------------------------------
\* Mutant: the word is set without testing it.
Bug_TakeWord(w) == sem' = [sem EXCEPT ![w] = 1]

\* gomp_hal_lock: a read of a semaphore word returns its old value and leaves
\* it set; the spin ends on a zero.
TakeWord(w) == sem[w] = 0 /\ sem' = [sem EXCEPT ![w] = 1]
FreeWord(w) == sem' = [sem EXCEPT ![w] = 0]

\* gomp_team_start enters its critical section; a new region needs the words
\* of the team and those of the work share.
TeamStart(t) ==
  /\ pc[t] = "run" /\ holds[t] = << >>
  /\ regions < MaxRegions
  /\ TakeWord(GLOBAL_LOCK)
  /\ regions' = regions + 1
  /\ todo' = [todo EXCEPT ![t] = <<"team", "workshare">>]
  /\ Goto(t, "alloc")
  /\ UNCHANGED <<next, word, var, reg, holds>>

omp_init_lock(t) ==
  /\ pc[t] = "run" /\ holds[t] = << >>
  /\ t \in InitLockCallers /\ word[<<"user", t>>] = Unset
  /\ todo' = [todo EXCEPT ![t] = <<"user">>]
  /\ Goto(t, "alloc")
  /\ UNCHANGED <<sem, next, word, var, regions, reg, holds>>

\* gomp_hal_lock(NEXT_LOCK_LOCK_PTR)
AllocLock(t) ==
  /\ pc[t] = "alloc" /\ todo[t] # << >>
  /\ TakeWord(NEXT_LOCK_LOCK)
  /\ Goto(t, "load")
  /\ UNCHANGED <<next, word, var, regions, todo, reg, holds>>

AllocLoad(t) ==
  /\ pc[t] = "load"
  /\ reg' = [reg EXCEPT ![t] = next]
  /\ Goto(t, "store")
  /\ UNCHANGED <<sem, next, word, var, regions, todo, holds>>

\* Mutant: the team does not advance the allocator.
Bug_NextAfter(kind, old) == IF kind = "team" THEN old ELSE old + 2

\* Mutant: the allocator advances in bytes.
Bug_NextInBytes(kind, old) == old + 4

\* (*next_lock) += two words for a team and for a work share, one for a user lock.
NextAfter(kind, old) == IF kind = "user" THEN old + 1 ELSE old + 2

\* The team and the work share take the value of *next_lock after the addition,
\* gomp_hal_init_lock the value before it.
Grant(t, kind, old) ==
  LET r == regions
      w == old + 2
  IN  CASE kind = "team" ->
             [word EXCEPT ![<<"critical", r>>] = w, ![<<"atomic", r>>] = w + 1]
        [] kind = "workshare" ->
             [word EXCEPT ![<<"business", r>>] = w, ![<<"enter", r>>] = w + 1]
        [] kind = "user" ->
             [word EXCEPT ![<<"user", t>>] = old]

\* Store *next_lock, release the allocator, go on with the call.
AllocStore(t) ==
  LET kind == Head(todo[t])
  IN  /\ pc[t] = "store"
      /\ next' = NextAfter(kind, reg[t])
      /\ word' = Grant(t, kind, reg[t])
      /\ var' = IF kind = "user" THEN [var EXCEPT ![<<"user", t>>] = reg[t]] ELSE var
      /\ FreeWord(NEXT_LOCK_LOCK)
      /\ Goto(t, CASE kind = "team" -> "alloc" [] kind = "workshare" -> "started"
                   [] kind = "user" -> "run")
      /\ todo' = [todo EXCEPT ![t] = Tail(@)]
      /\ UNCHANGED <<regions, reg, holds>>

\* GLOBAL_INFOS_SIGNAL
TeamStarted(t) ==
  /\ pc[t] = "started"
  /\ FreeWord(GLOBAL_LOCK)
  /\ Goto(t, "run")
  /\ UNCHANGED <<next, word, var, regions, todo, reg, holds>>

-----------------------------------------------------------------------------
\* GOMP_critical_start, GOMP_atomic_start or a work-share lock: gomp_hal_lock on
\* the address of the word.
SetLock(t, l) ==
  /\ pc[t] = "run" /\ holds[t] = << >>
  /\ word[l] # Unset
  /\ TakeWord(word[l])
  /\ holds' = [holds EXCEPT ![t] = l]
  /\ UNCHANGED <<next, word, var, regions, pc, todo, reg>>

UnsetLock(t) ==
  /\ pc[t] = "run" /\ holds[t] \in RegionLocks
  /\ FreeWord(word[holds[t]])
  /\ holds' = [holds EXCEPT ![t] = << >>]
  /\ UNCHANGED <<next, word, var, regions, pc, todo, reg>>

\* Mutant: omp_set_lock and omp_unset_lock follow the address in the variable.
Bug_unset_lock(t) ==
  /\ pc[t] = "run" /\ holds[t] \in UserLocks
  /\ FreeWord(word[holds[t]])
  /\ holds' = [holds EXCEPT ![t] = << >>]
  /\ UNCHANGED <<next, word, var, regions, pc, todo, reg>>

\* omp_set_lock: gomp_hal_lock on the variable, which a read does not set; it
\* spins as long as the variable holds an address.
omp_set_lock(t, l) ==
  /\ pc[t] = "run" /\ holds[t] = << >>
  /\ word[l] # Unset
  /\ var[l] = 0
  /\ holds' = [holds EXCEPT ![t] = l]
  /\ UNCHANGED <<sem, next, word, var, regions, pc, todo, reg>>

omp_unset_lock(t) ==
  /\ pc[t] = "run" /\ holds[t] \in UserLocks
  /\ var' = [var EXCEPT ![holds[t]] = 0]
  /\ holds' = [holds EXCEPT ![t] = << >>]
  /\ UNCHANGED <<sem, next, word, regions, pc, todo, reg>>

\* omp_test_lock: read the variable, then store zero to it; to the caller the
\* lock is taken if the value read was not zero.
omp_test_lock(t, l) ==
  /\ pc[t] = "run" /\ holds[t] = << >> /\ t \in TestLockCallers
  /\ word[l] # Unset
  /\ reg' = [reg EXCEPT ![t] = var[l]]
  /\ holds' = [holds EXCEPT ![t] = l]
  /\ Goto(t, "tested")
  /\ UNCHANGED <<sem, next, word, var, regions, todo>>

TestStore(t) ==
  /\ pc[t] = "tested"
  /\ var' = [var EXCEPT ![holds[t]] = 0]
  /\ holds' = [holds EXCEPT ![t] = IF reg[t] # 0 THEN @ ELSE << >>]
  /\ Goto(t, "run")
  /\ UNCHANGED <<sem, next, word, regions, todo, reg>>

Next == \E t \in Threads :
          \/ TeamStart(t) \/ omp_init_lock(t)
          \/ AllocLock(t) \/ AllocLoad(t) \/ AllocStore(t) \/ TeamStarted(t)
          \/ UnsetLock(t) \/ omp_unset_lock(t) \/ TestStore(t)
          \/ \E l \in RegionLocks : SetLock(t, l)
          \/ \E l \in UserLocks : omp_set_lock(t, l) \/ omp_test_lock(t, l)

Spec == Init /\ [][Next]_vars

-----------------------------------------------------------------------------
TypeOK ==
  /\ sem \in [Words -> {0, 1}]
  /\ next \in Nat
  /\ word \in [LockNames -> Nat]
  /\ var \in [UserLocks -> Nat]
  /\ regions \in 0 .. MaxRegions
  /\ pc \in [Threads -> {"run", "alloc", "load", "store", "started", "tested"}]
  /\ todo \in [Threads -> {<< >>, <<"team", "workshare">>, <<"workshare">>, <<"user">>}]
  /\ reg \in [Threads -> Nat]
  /\ holds \in [Threads -> LockNames \cup {<< >>}]

\* Region locks are distinct semaphore words, so are user locks, and none of
\* them is a reserved word.  (A user lock is given the word of a work share:
\* gomp_hal_init_lock starts at the word gomp_new_work_share took last.)
LocksDistinct ==
  \A l, m \in LockNames :
    /\ l # m /\ (l \in UserLocks <=> m \in UserLocks) /\ word[l] # Unset => word[l] # word[m]
    /\ word[l] # Unset => word[l] > GLOBAL_LOCK

\* The read-modify-write of *next_lock is never done by two threads at once,
\* whether they come from gomp_team_start or from omp_init_lock.
AllocatorExclusive ==
  \A t, u \in Threads : pc[t] \in {"load", "store"} /\ pc[u] \in {"load", "store"} => t = u

\* The allocator of lock words, run under a lock of its own by calls that hold
\* different locks, hands out words that are not in use.
AllocationSound == TypeOK /\ AllocatorExclusive /\ LocksDistinct

\* No two threads are inside critical, atomic or work-share sections that use
\* the same word, whatever is done to user locks, which may have been given the
\* word too.
RegionExclusion ==
  \A t, u \in Threads :
    t # u /\ holds[t] \in RegionLocks /\ holds[u] \in RegionLocks
      => word[holds[t]] # word[holds[u]]

\* Lock words are never given back; the regions opened so far fit.
WordsSuffice == \A l \in LockNames : word[l] < SemWords
==============================================================================
