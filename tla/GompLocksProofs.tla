---------------------------- MODULE GompLocksProofs ----------------------------
(***************************************************************************)
(* Proofs about the lock words of libgomp, for every number of threads,    *)
(* callers of omp_init_lock and of omp_test_lock, and regions.             *)
(***************************************************************************)
EXTENDS GompLocks, FiniteSetTheorems, TLAPS

\* A thread between loading and storing *next_lock, and one that is inside
\* gomp_team_start.
Allocating(t) == pc[t] \in {"load", "store"}
Opening(t) == todo[t] \in {<<"team", "workshare">>, <<"workshare">>} \/ pc[t] = "started"

(* The inductive invariant of the allocator. *)

\* Where a thread is in a call, what is left of the call, and what it may rely on.
CallInv == \A t \in Threads :
  /\ pc[t] \in {"run", "started", "tested"} <=> todo[t] = << >>
  /\ todo[t] = <<"user">> => t \in InitLockCallers /\ word[<<"user", t>>] = Unset
  /\ Opening(t) => regions >= 1
  /\ pc[t] = "store" => reg[t] = next
  /\ holds[t] # << >> => word[holds[t]] # Unset

\* The words that protect the allocator and the start of a region are set while
\* a thread is inside, and there is one at most.
ReservedInv ==
  /\ \A t, u \in Threads : Allocating(t) /\ Allocating(u) => t = u
  /\ \A t, u \in Threads : Opening(t) /\ Opening(u) => t = u
  /\ \A t \in Threads : Allocating(t) => sem[NEXT_LOCK_LOCK] = 1
  /\ \A t \in Threads : Opening(t) => sem[GLOBAL_LOCK] = 1

\* Words handed out lie below the next ones, and locks that are still to be
\* created have none.
FreshInv ==
  /\ next > GLOBAL_LOCK
  /\ \A l \in RegionLocks : word[l] <= next + 1
  /\ \A l \in UserLocks : word[l] < next
  /\ \A l \in RegionLocks : l[2] > regions => word[l] = Unset
  /\ \A t \in Threads : todo[t] = <<"team", "workshare">> =>
       \A l \in RegionLocks : l[2] = regions => word[l] = Unset
  /\ \A t \in Threads : todo[t] = <<"workshare">> =>
       word[<<"business", regions>>] = Unset /\ word[<<"enter", regions>>] = Unset

AllocInv == TypeOK /\ CallInv /\ ReservedInv /\ FreshInv /\ LocksDistinct

-----------------------------------------------------------------------------
\* The names of the locks.
LEMMA Names ==
  /\ RegionLocks \cap UserLocks = {} /\ LockNames = RegionLocks \cup UserLocks
  /\ \A r \in 1 .. MaxRegions : \A k \in {"critical", "atomic", "business", "enter"} :
       <<k, r>> \in RegionLocks
  /\ \A t \in InitLockCallers : <<"user", t>> \in UserLocks
  /\ \A l \in RegionLocks : l = <<l[1], l[2]>> /\ l[2] \in 1 .. MaxRegions
  /\ \A l \in UserLocks : l = <<"user", l[2]>> /\ l[2] \in InitLockCallers
BY DEF RegionLocks, UserLocks, LockNames

\* The calls, and what is left of them after an allocation.
LEMMA Calls ==
  /\ Head(<<"team", "workshare">>) = "team" /\ Tail(<<"team", "workshare">>) = <<"workshare">>
  /\ Head(<<"workshare">>) = "workshare" /\ Tail(<<"workshare">>) = << >>
  /\ Head(<<"user">>) = "user" /\ Tail(<<"user">>) = << >>
  /\ <<"team", "workshare">> # <<"workshare">> /\ <<"team", "workshare">> # <<"user">>
  /\ <<"workshare">> # <<"user">>
  /\ << >> \notin {<<"team", "workshare">>, <<"workshare">>, <<"user">>}
OBVIOUS

LEMMA AllocInit == Init => AllocInv
BY Names, Calls, ConstantsAssumption
DEF Init, AllocInv, TypeOK, CallInv, ReservedInv, FreshInv, LocksDistinct, Allocating, Opening,
    Words, GLOBAL_LOCK, HAL_FIRST_FREE_LOCK_ID, NEXT_LOCK_LOCK, Unset

\* The reserved words.
LEMMA ReservedWords ==
  /\ NEXT_LOCK_LOCK = 0 /\ GLOBAL_LOCK = 5 /\ Unset = 0
  /\ NEXT_LOCK_LOCK \in Words /\ GLOBAL_LOCK \in Words
BY ConstantsAssumption DEF NEXT_LOCK_LOCK, GLOBAL_LOCK, HAL_FIRST_FREE_LOCK_ID, Unset, Words

-----------------------------------------------------------------------------
(* Each action keeps the invariant. *)

LEMMA TeamStartKeeps ==
  ASSUME AllocInv, NEW t \in Threads, TeamStart(t)
  PROVE  AllocInv'
<1> USE DEF AllocInv, Goto
<1> USE Calls, ReservedWords
<1>1. TypeOK'
  BY ConstantsAssumption DEF TeamStart, TypeOK, TakeWord
<1>2. CallInv'
  <2>1. todo'[t] = <<"team", "workshare">> /\ pc'[t] = "alloc" /\ regions' >= 1
        /\ holds' = holds /\ word' = word /\ reg' = reg /\ next' = next
    BY ConstantsAssumption DEF TeamStart, TypeOK
  <2>2. \A u \in Threads \ {t} : todo'[u] = todo[u] /\ pc'[u] = pc[u]
    BY DEF TeamStart, TypeOK
  <2>3. QED
    BY <2>1, <2>2 DEF CallInv, TypeOK, Opening
<1>3. ReservedInv'
  BY DEF TeamStart, ReservedInv, TypeOK, CallInv, Allocating, Opening, TakeWord
<1>4. FreshInv'
  <2>1. regions' = regions + 1 /\ regions \in Nat /\ next' = next /\ word' = word
    BY DEF TeamStart, TypeOK
  <2>2. \A u \in Threads \ {t} : todo'[u] = todo[u] /\ ~Opening(u)
    BY DEF TeamStart, TypeOK, ReservedInv, TakeWord
  <2>3. todo'[t] = <<"team", "workshare">>
    BY DEF TeamStart, TypeOK
  <2>4. \A l \in RegionLocks : l[2] \in Nat
    BY Names
  <2>5. \A l \in RegionLocks : l[2] >= regions' => word'[l] = Unset
    BY <2>1, <2>4 DEF FreshInv
  <2>6. \A u \in Threads : todo'[u] # <<"workshare">>
    BY <2>2, <2>3 DEF Opening
  <2>7. QED
    BY <2>1, <2>4, <2>5, <2>6 DEF FreshInv
<1>5. LocksDistinct'
  BY Names DEF TeamStart, LocksDistinct, TypeOK, TakeWord
<1>6. QED
  BY <1>1, <1>2, <1>3, <1>4, <1>5

LEMMA InitLockKeeps ==
  ASSUME AllocInv, NEW t \in Threads, omp_init_lock(t)
  PROVE  AllocInv'
<1> USE DEF AllocInv, Goto
<1> USE Calls, ReservedWords
<1>1. TypeOK'
  BY DEF omp_init_lock, TypeOK
<1>2. CallInv'
  BY DEF omp_init_lock, CallInv, TypeOK, Opening
<1>3. ReservedInv'
  BY DEF omp_init_lock, ReservedInv, TypeOK, CallInv, Allocating, Opening
<1>4. FreshInv'
  BY Names DEF omp_init_lock, FreshInv, TypeOK, CallInv, ReservedInv, Opening
<1>5. LocksDistinct'
  BY Names DEF omp_init_lock, LocksDistinct, TypeOK
<1>6. QED
  BY <1>1, <1>2, <1>3, <1>4, <1>5

LEMMA AllocLockKeeps ==
  ASSUME AllocInv, NEW t \in Threads, AllocLock(t)
  PROVE  AllocInv'
<1> USE DEF AllocInv, Goto
<1> USE Calls, ReservedWords
<1>1. TypeOK'
  BY DEF AllocLock, TypeOK, TakeWord
<1>2. CallInv'
  BY DEF AllocLock, CallInv, TypeOK, Opening, TakeWord
<1>3. ReservedInv'
  BY DEF AllocLock, ReservedInv, TypeOK, CallInv, Allocating, Opening, TakeWord
<1>4. FreshInv'
  BY Names DEF AllocLock, FreshInv, TypeOK, CallInv, ReservedInv, Opening, TakeWord
<1>5. LocksDistinct'
  BY Names DEF AllocLock, LocksDistinct, TypeOK, TakeWord
<1>6. QED
  BY <1>1, <1>2, <1>3, <1>4, <1>5

LEMMA AllocLoadKeeps ==
  ASSUME AllocInv, NEW t \in Threads, AllocLoad(t)
  PROVE  AllocInv'
<1> USE DEF AllocInv, Goto
<1> USE Calls, ReservedWords
<1>1. TypeOK'
  BY DEF AllocLoad, TypeOK
<1>2. CallInv'
  BY DEF AllocLoad, CallInv, TypeOK, Opening
<1>3. ReservedInv'
  BY DEF AllocLoad, ReservedInv, TypeOK, CallInv, Allocating, Opening
<1>4. FreshInv'
  BY Names DEF AllocLoad, FreshInv, TypeOK, CallInv, ReservedInv, Opening
<1>5. LocksDistinct'
  BY Names DEF AllocLoad, LocksDistinct, TypeOK
<1>6. QED
  BY <1>1, <1>2, <1>3, <1>4, <1>5

LEMMA TeamStartedKeeps ==
  ASSUME AllocInv, NEW t \in Threads, TeamStarted(t)
  PROVE  AllocInv'
<1> USE DEF AllocInv, Goto
<1> USE Calls, ReservedWords
<1>1. TypeOK'
  BY DEF TeamStarted, TypeOK, FreeWord
<1>2. CallInv'
  BY DEF TeamStarted, CallInv, TypeOK, Opening, FreeWord
<1>3. ReservedInv'
  <2>1. ~Opening(t)' /\ \A u \in Threads \ {t} : ~Opening(u)
    BY DEF TeamStarted, ReservedInv, TypeOK, CallInv, Opening
  <2>2. \A u \in Threads : ~Opening(u)'
    BY <2>1 DEF TeamStarted, Opening, TypeOK
  <2>3. QED
    BY <2>2 DEF TeamStarted, ReservedInv, TypeOK, Allocating, FreeWord
<1>4. FreshInv'
  BY Names DEF TeamStarted, FreshInv, TypeOK, CallInv, ReservedInv, Opening, FreeWord
<1>5. LocksDistinct'
  BY Names DEF TeamStarted, LocksDistinct, TypeOK, FreeWord
<1>6. QED
  BY <1>1, <1>2, <1>3, <1>4, <1>5

LEMMA SetLockKeeps ==
  ASSUME AllocInv, NEW t \in Threads, NEW l \in RegionLocks, SetLock(t, l)
  PROVE  AllocInv'
<1> USE DEF AllocInv, Goto
<1> USE Calls, ReservedWords
<1> l \in LockNames
  BY Names
<1>1. TypeOK'
  BY DEF SetLock, TypeOK, TakeWord
<1>2. CallInv'
  BY DEF SetLock, CallInv, TypeOK, Opening, TakeWord
<1>3. ReservedInv'
  BY DEF SetLock, ReservedInv, TypeOK, CallInv, Allocating, Opening, TakeWord
<1>4. FreshInv'
  BY Names DEF SetLock, FreshInv, TypeOK, CallInv, ReservedInv, Opening, TakeWord
<1>5. LocksDistinct'
  BY Names DEF SetLock, LocksDistinct, TypeOK, TakeWord
<1>6. QED
  BY <1>1, <1>2, <1>3, <1>4, <1>5

LEMMA UnsetLockKeeps ==
  ASSUME AllocInv, NEW t \in Threads, UnsetLock(t)
  PROVE  AllocInv'
<1> USE DEF AllocInv, Goto
<1> USE Calls, ReservedWords
<1>1. TypeOK'
  BY DEF UnsetLock, TypeOK, FreeWord
<1>2. CallInv'
  BY DEF UnsetLock, CallInv, TypeOK, Opening, FreeWord
<1>3. ReservedInv'
  <2>1. word[holds[t]] > GLOBAL_LOCK
    <3>1. holds[t] \in LockNames /\ holds[t] # << >>
      BY Names DEF UnsetLock, RegionLocks
    <3>2. QED
      BY <3>1 DEF TypeOK, CallInv, LocksDistinct
  <2>2. \A w \in {NEXT_LOCK_LOCK, GLOBAL_LOCK} : sem'[w] = sem[w]
    BY <2>1 DEF UnsetLock, TypeOK, FreeWord
  <2>3. QED
    BY <2>2 DEF UnsetLock, ReservedInv, Allocating, Opening
<1>4. FreshInv'
  BY Names DEF UnsetLock, FreshInv, TypeOK, CallInv, ReservedInv, Opening, FreeWord
<1>5. LocksDistinct'
  BY Names DEF UnsetLock, LocksDistinct, TypeOK, FreeWord
<1>6. QED
  BY <1>1, <1>2, <1>3, <1>4, <1>5

\* What is done to the variable of a user lock leaves the lock words alone.
LEMMA UserLockKeeps ==
  ASSUME AllocInv, NEW t \in Threads,
         \/ omp_unset_lock(t) \/ TestStore(t)
         \/ \E l \in UserLocks : omp_set_lock(t, l) \/ omp_test_lock(t, l)
  PROVE  AllocInv'
<1> USE DEF AllocInv
<1>1. /\ UNCHANGED <<sem, next, word, regions, todo>>
      /\ var' \in [UserLocks -> Nat] /\ reg' \in [Threads -> Nat]
      /\ pc' \in [Threads -> {"run", "alloc", "load", "store", "started", "tested"}]
      /\ pc'[t] \in {"run", "tested"} /\ pc[t] \in {"run", "tested"}
      /\ \A u \in Threads \ {t} : pc'[u] = pc[u] /\ reg'[u] = reg[u]
  <2>1. CASE omp_unset_lock(t)
    BY <2>1 DEF omp_unset_lock, TypeOK
  <2>2. CASE TestStore(t)
    BY <2>2 DEF TestStore, Goto, TypeOK
  <2>3. ASSUME NEW l \in UserLocks, omp_set_lock(t, l)
        PROVE  UNCHANGED <<sem, next, word, regions, todo, var, reg, pc>> /\ pc[t] = "run"
    BY <2>3 DEF omp_set_lock
  <2>4. ASSUME NEW l \in UserLocks, omp_test_lock(t, l)
        PROVE  /\ UNCHANGED <<sem, next, word, regions, todo, var>>
               /\ reg' = [reg EXCEPT ![t] = var[l]] /\ var[l] \in Nat
               /\ pc' = [pc EXCEPT ![t] = "tested"] /\ pc[t] = "run"
    BY <2>4 DEF omp_test_lock, Goto, TypeOK
  <2>5. QED
    BY <2>1, <2>2, <2>3, <2>4 DEF TypeOK
<1>2. /\ holds' \in [Threads -> LockNames \cup {<< >>}]
      /\ \A u \in Threads : holds'[u] # << >> => word[holds'[u]] # Unset
  <2>1. UserLocks \subseteq LockNames
    BY Names
  <2>2. PICK x \in LockNames \cup {<< >>} :
          holds' = [holds EXCEPT ![t] = x] /\ (x # << >> => word[x] # Unset)
    <3>1. CASE TestStore(t)
      BY <3>1 DEF TestStore, TypeOK, CallInv
    <3>2. CASE ~TestStore(t)
      BY <2>1, <3>2 DEF omp_set_lock, omp_test_lock, omp_unset_lock
    <3>3. QED
      BY <3>1, <3>2
  <2>3. QED
    BY <2>1, <2>2 DEF TypeOK, CallInv
<1>3. TypeOK'
  BY <1>1, <1>2 DEF TypeOK
<1>4. CallInv'
  BY <1>1, <1>2 DEF CallInv, Opening
<1>5. ReservedInv' /\ FreshInv' /\ LocksDistinct'
  BY <1>1 DEF ReservedInv, FreshInv, LocksDistinct, Allocating, Opening
<1>6. QED
  BY <1>3, <1>4, <1>5

\* What the last step of an allocation does, whatever it is for.
LEMMA StoreStep ==
  ASSUME AllocInv, NEW t \in Threads, AllocStore(t)
  PROVE  /\ todo[t] \in {<<"team", "workshare">>, <<"workshare">>, <<"user">>}
         /\ reg[t] = next /\ Allocating(t)
         /\ word' = Grant(t, Head(todo[t]), next) /\ next' = NextAfter(Head(todo[t]), next)
         /\ sem' = [sem EXCEPT ![NEXT_LOCK_LOCK] = 0]
         /\ \A u \in Threads \ {t} : pc'[u] = pc[u] /\ todo'[u] = todo[u]
         /\ todo'[t] = Tail(todo[t])
         /\ pc'[t] = CASE Head(todo[t]) = "team" -> "alloc"
                       [] Head(todo[t]) = "workshare" -> "started"
                       [] Head(todo[t]) = "user" -> "run"
         /\ pc' \in [Threads -> {"run", "alloc", "load", "store", "started", "tested"}]
         /\ todo' \in [Threads -> {<< >>, <<"team", "workshare">>, <<"workshare">>, <<"user">>}]
         /\ var' \in [UserLocks -> Nat]
         /\ UNCHANGED <<regions, reg, holds>>
<1>1. pc[t] = "store" /\ reg[t] = next
      /\ todo[t] \in {<<"team", "workshare">>, <<"workshare">>, <<"user">>}
  BY DEF AllocInv, TypeOK, CallInv, AllocStore
<1>2. pc' = [pc EXCEPT ![t] = CASE Head(todo[t]) = "team" -> "alloc"
                                [] Head(todo[t]) = "workshare" -> "started"
                                [] Head(todo[t]) = "user" -> "run"]
      /\ todo' = [todo EXCEPT ![t] = Tail(todo[t])]
  BY DEF AllocInv, TypeOK, AllocStore, Goto
<1>3. Tail(todo[t]) \in {<< >>, <<"workshare">>}
      /\ Head(todo[t]) \in {"team", "workshare", "user"}
  BY <1>1, Calls
<1>4. pc' \in [Threads -> {"run", "alloc", "load", "store", "started", "tested"}]
  BY <1>2, <1>3 DEF AllocInv, TypeOK
<1>5. todo' \in [Threads -> {<< >>, <<"team", "workshare">>, <<"workshare">>, <<"user">>}]
  BY <1>2, <1>3 DEF AllocInv, TypeOK
<1>6. var' \in [UserLocks -> Nat]
  BY DEF AllocInv, TypeOK, AllocStore
<1>7. QED
  BY <1>1, <1>2, <1>4, <1>5, <1>6 DEF AllocInv, TypeOK, AllocStore, FreeWord, Allocating

\* A region is given two words that follow all others, for locks that had none.
LEMMA RegionGrant ==
  ASSUME AllocInv, NEW t \in Threads, AllocStore(t), todo[t] # <<"user">>
  PROVE  /\ next' = next + 2
         /\ todo[t] = <<"team", "workshare">> => pc'[t] = "alloc" /\ todo'[t] = <<"workshare">>
         /\ todo[t] = <<"workshare">> => pc'[t] = "started" /\ todo'[t] = << >>
         /\ \E l, m \in RegionLocks :
              /\ l # m /\ l[2] = regions /\ m[2] = regions
              /\ word[l] = Unset /\ word[m] = Unset
              /\ word' = [word EXCEPT ![l] = next + 2, ![m] = next + 3]
              /\ todo[t] = <<"team", "workshare">> =>
                   /\ l \notin {<<"business", regions>>, <<"enter", regions>>}
                   /\ m \notin {<<"business", regions>>, <<"enter", regions>>}
<1>1. regions \in 1 .. MaxRegions
  <2>1. Opening(t)
    BY StoreStep DEF Opening
  <2>2. regions \in 0 .. MaxRegions /\ regions >= 1
    BY <2>1 DEF AllocInv, TypeOK, CallInv
  <2>3. QED
    BY <2>2, ConstantsAssumption
<1>2. CASE todo[t] = <<"team", "workshare">>
  <2> DEFINE l == <<"critical", regions>>
             m == <<"atomic", regions>>
  <2>1. word' = [word EXCEPT ![l] = next + 2, ![m] = next + 3]
    <3>1. word' = Grant(t, "team", next) /\ next \in Nat
      BY <1>2, StoreStep, Calls DEF AllocInv, TypeOK
    <3>2. Grant(t, "team", next) = [word EXCEPT ![l] = next + 2, ![m] = (next + 2) + 1]
      BY DEF Grant
    <3>3. (next + 2) + 1 = next + 3
      BY <3>1
    <3>4. QED
      BY <3>1, <3>2, <3>3
  <2>2. l \in RegionLocks /\ m \in RegionLocks /\ l # m /\ l[2] = regions /\ m[2] = regions
    BY <1>1, Names
  <2>3. l \notin {<<"business", regions>>, <<"enter", regions>>}
        /\ m \notin {<<"business", regions>>, <<"enter", regions>>}
    OBVIOUS
  <2>4. word[l] = Unset /\ word[m] = Unset
    BY <1>2, <2>2 DEF AllocInv, FreshInv
  <2>5. next' = next + 2 /\ pc'[t] = "alloc" /\ todo'[t] = <<"workshare">>
    BY <1>2, StoreStep, Calls DEF NextAfter
  <2> HIDE DEF l, m
  <2>6. QED
    BY <1>2, <2>1, <2>2, <2>3, <2>4, <2>5, Calls
<1>3. CASE todo[t] = <<"workshare">>
  <2> DEFINE l == <<"business", regions>>
             m == <<"enter", regions>>
  <2>1. word' = [word EXCEPT ![l] = next + 2, ![m] = next + 3]
    <3>1. word' = Grant(t, "workshare", next) /\ next \in Nat
      BY <1>3, StoreStep, Calls DEF AllocInv, TypeOK
    <3>2. Grant(t, "workshare", next) = [word EXCEPT ![l] = next + 2, ![m] = (next + 2) + 1]
      BY DEF Grant
    <3>3. (next + 2) + 1 = next + 3
      BY <3>1
    <3>4. QED
      BY <3>1, <3>2, <3>3
  <2>2. l \in RegionLocks /\ m \in RegionLocks /\ l # m /\ l[2] = regions /\ m[2] = regions
    BY <1>1, Names
  <2>3. word[l] = Unset /\ word[m] = Unset
    BY <1>3 DEF AllocInv, FreshInv
  <2>4. next' = next + 2 /\ pc'[t] = "started" /\ todo'[t] = << >>
    BY <1>3, StoreStep, Calls DEF NextAfter
  <2> HIDE DEF l, m
  <2>5. QED
    BY <1>3, <2>1, <2>2, <2>3, <2>4, Calls
<1>4. QED
  BY <1>2, <1>3, StoreStep

\* A user lock is given the next word.
LEMMA UserGrant ==
  ASSUME AllocInv, NEW t \in Threads, AllocStore(t), todo[t] = <<"user">>
  PROVE  /\ next' = next + 1 /\ pc'[t] = "run" /\ todo'[t] = << >>
         /\ <<"user", t>> \in UserLocks /\ word[<<"user", t>>] = Unset
         /\ word' = [word EXCEPT ![<<"user", t>>] = next]
<1>1. t \in InitLockCallers /\ word[<<"user", t>>] = Unset
  BY DEF AllocInv, CallInv
<1>2. next' = next + 1 /\ pc'[t] = "run" /\ todo'[t] = << >>
  BY StoreStep, Calls DEF NextAfter
<1>3. word' = [word EXCEPT ![<<"user", t>>] = next]
  BY StoreStep, Calls DEF Grant
<1>4. QED
  BY <1>1, <1>2, <1>3, Names

\* Only the thread that allocates and its call change; it leaves the allocator.
LEMMA StoreKeepsCalls ==
  ASSUME AllocInv, NEW t \in Threads, AllocStore(t)
  PROVE  /\ ReservedInv' /\ ~Allocating(t)' /\ \A u \in Threads : Opening(u)' <=> Opening(u)
         /\ pc'[t] # "store" /\ (pc'[t] \in {"run", "started", "tested"} <=> todo'[t] = << >>)
         /\ todo'[t] # <<"user">> /\ todo'[t] # <<"team", "workshare">>
<1>1. /\ todo'[t] = << >> => pc'[t] \in {"run", "started"}
      /\ todo'[t] # << >> => todo'[t] = <<"workshare">> /\ pc'[t] = "alloc"
      /\ Opening(t)' <=> Opening(t)
  <2>1. CASE todo[t] = <<"team", "workshare">>
    BY <2>1, RegionGrant, Calls DEF Opening
  <2>2. CASE todo[t] = <<"workshare">>
    BY <2>2, RegionGrant, Calls DEF Opening
  <2>3. CASE todo[t] = <<"user">>
    BY <2>3, UserGrant, Calls DEF Opening, AllocStore
  <2>4. QED
    BY <2>1, <2>2, <2>3, StoreStep
<1>2. \A u \in Threads : Opening(u)' <=> Opening(u)
  BY <1>1, StoreStep DEF Opening
<1>3. ~Allocating(t)' /\ \A u \in Threads : ~Allocating(u)'
  BY <1>1, StoreStep, Calls DEF AllocInv, ReservedInv, Allocating
<1>4. sem'[GLOBAL_LOCK] = sem[GLOBAL_LOCK]
  BY StoreStep, ReservedWords DEF AllocInv, TypeOK
<1>5. ReservedInv'
  BY <1>2, <1>3, <1>4, ReservedWords DEF AllocInv, ReservedInv
<1>6. QED
  BY <1>1, <1>2, <1>3, <1>5, Calls

\* The region being opened is one of those the names are made for.
LEMMA OpenRegion ==
  ASSUME AllocInv, NEW t \in Threads, Opening(t)
  PROVE  <<"business", regions>> \in RegionLocks /\ <<"enter", regions>> \in RegionLocks
<1>1. regions \in 0 .. MaxRegions /\ regions >= 1
  BY DEF AllocInv, TypeOK, CallInv
<1>2. regions \in 1 .. MaxRegions
  BY <1>1, ConstantsAssumption
<1>3. QED
  BY <1>2, Names

LEMMA AllocStoreKeeps ==
  ASSUME AllocInv, NEW t \in Threads, AllocStore(t)
  PROVE  AllocInv'
<1> USE ReservedWords
<1>1. /\ \A u \in Threads \ {t} : pc'[u] = pc[u] /\ todo'[u] = todo[u]
      /\ pc' \in [Threads -> {"run", "alloc", "load", "store", "started", "tested"}]
      /\ todo' \in [Threads -> {<< >>, <<"team", "workshare">>, <<"workshare">>, <<"user">>}]
      /\ regions' = regions /\ reg' = reg /\ holds' = holds
      /\ sem' \in [Words -> {0, 1}] /\ var' \in [UserLocks -> Nat]
  BY StoreStep DEF AllocInv, TypeOK
<1>2. /\ ReservedInv' /\ ~Allocating(t)' /\ \A u \in Threads : Opening(u)' <=> Opening(u)
      /\ pc'[t] # "store" /\ (pc'[t] \in {"run", "started", "tested"} <=> todo'[t] = << >>)
      /\ todo'[t] # <<"user">> /\ todo'[t] # <<"team", "workshare">>
      /\ Allocating(t)
  BY StoreKeepsCalls, StoreStep
<1>3. CASE todo[t] = <<"user">>
  <2> DEFINE l == <<"user", t>>
  <2>1. /\ next' = next + 1 /\ pc'[t] = "run" /\ todo'[t] = << >>
        /\ l \in UserLocks /\ word[l] = Unset /\ word' = [word EXCEPT ![l] = next]
    BY <1>3, UserGrant
  <2>2. l \notin RegionLocks /\ l \in LockNames /\ word \in [LockNames -> Nat] /\ next \in Nat
        /\ next > GLOBAL_LOCK
    BY <2>1, Names DEF AllocInv, TypeOK, FreshInv
  <2>3. \A u \in Threads \ {t} : <<"user", u>> # l
    OBVIOUS
  <2>4. /\ word' \in [LockNames -> Nat] /\ word'[l] = next
        /\ \A m \in LockNames : m # l => word'[m] = word[m]
    BY <2>1, <2>2
  <2> HIDE DEF l
  <2>5. TypeOK'
    BY <2>1, <2>4, <1>1 DEF AllocInv, TypeOK
  <2>6. CallInv'
    <3>1. \A u \in Threads : pc'[u] # "store"
      BY <1>1, <1>2 DEF AllocInv, ReservedInv, Allocating
    <3>2. \A u \in Threads : todo'[u] = <<"user">> =>
            u \in InitLockCallers /\ word'[<<"user", u>>] = Unset
      BY <2>1, <2>3, <2>4, <1>1, <1>2, Names DEF AllocInv, CallInv
    <3>3. \A u \in Threads : holds'[u] # << >> => word'[holds'[u]] # Unset
      <4>1. \A n \in LockNames : word[n] # Unset => word'[n] # Unset
        BY <2>2, <2>4
      <4>2. \A u \in Threads : holds[u] # << >> => holds[u] \in LockNames /\ word[holds[u]] # Unset
        BY DEF AllocInv, TypeOK, CallInv
      <4>3. QED
        BY <1>1, <4>1, <4>2
    <3>4. QED
      BY <3>1, <3>2, <3>3, <1>1, <1>2 DEF AllocInv, CallInv
  <2>7. FreshInv'
    <3>1. /\ \A m \in RegionLocks : word'[m] = word[m]
          /\ \A m \in UserLocks : word'[m] = word[m] \/ word'[m] = next
      BY <2>1, <2>2, <2>4, Names
    <3>2. /\ next' > GLOBAL_LOCK
          /\ \A m \in RegionLocks : word'[m] <= next' + 1
          /\ \A m \in UserLocks : word'[m] < next'
      BY <2>1, <2>2, <3>1, Names DEF AllocInv, TypeOK, FreshInv
    <3>3. \A u \in Threads : todo'[u] # << >> => u # t /\ todo'[u] = todo[u]
      BY <2>1, <1>1
    <3>4. \A u \in Threads : todo'[u] = <<"workshare">> =>
            <<"business", regions>> \in RegionLocks /\ <<"enter", regions>> \in RegionLocks
      BY <3>3, Calls, OpenRegion DEF Opening
    <3>5. QED
      BY <3>1, <3>2, <3>3, <3>4, <1>1, Calls DEF AllocInv, FreshInv
  <2>8. LocksDistinct'
    BY <2>1, <2>2, <2>4, Names DEF AllocInv, TypeOK, FreshInv, LocksDistinct
  <2>9. QED
    BY <2>5, <2>6, <2>7, <2>8, <1>2 DEF AllocInv
<1>4. CASE todo[t] # <<"user">>
  <2>1. PICK l \in RegionLocks, m \in RegionLocks :
          /\ l # m /\ l[2] = regions /\ m[2] = regions
          /\ word[l] = Unset /\ word[m] = Unset
          /\ word' = [word EXCEPT ![l] = next + 2, ![m] = next + 3]
          /\ todo[t] = <<"team", "workshare">> =>
               /\ l \notin {<<"business", regions>>, <<"enter", regions>>}
               /\ m \notin {<<"business", regions>>, <<"enter", regions>>}
    BY <1>4, RegionGrant
  <2>2. next' = next + 2 /\ next \in Nat /\ next > GLOBAL_LOCK
        /\ word \in [LockNames -> Nat]
        /\ l \in LockNames /\ m \in LockNames /\ l \notin UserLocks /\ m \notin UserLocks
    BY <1>4, <2>1, RegionGrant, Names DEF AllocInv, TypeOK, FreshInv
  <2>3. /\ word' \in [LockNames -> Nat] /\ word'[l] = next + 2 /\ word'[m] = next + 3
        /\ \A n \in LockNames : n # l /\ n # m => word'[n] = word[n]
    BY <2>1, <2>2
  <2>4. Opening(t)
    BY <1>4, StoreStep DEF Opening
  <2>5. TypeOK'
    BY <2>2, <2>3, <1>1 DEF AllocInv, TypeOK
  <2>6. CallInv'
    <3>1. \A u \in Threads : pc'[u] # "store"
      BY <1>1, <1>2 DEF AllocInv, ReservedInv, Allocating
    <3>2. \A u \in Threads : todo'[u] = <<"user">> =>
            u \in InitLockCallers /\ word'[<<"user", u>>] = Unset
      <4>1. ASSUME NEW u \in Threads, todo'[u] = <<"user">>
            PROVE  u \in InitLockCallers /\ word[<<"user", u>>] = Unset
        BY <1>1, <1>2, <4>1 DEF AllocInv, CallInv
      <4>2. \A n \in UserLocks : word'[n] = word[n]
        BY <2>2, <2>3, Names
      <4>3. QED
        BY <4>1, <4>2, Names
    <3>3. \A u \in Threads : holds'[u] # << >> => word'[holds'[u]] # Unset
      <4>1. \A n \in LockNames : word[n] # Unset => word'[n] # Unset
        BY <2>2, <2>3
      <4>2. \A u \in Threads : holds[u] # << >> => holds[u] \in LockNames /\ word[holds[u]] # Unset
        BY DEF AllocInv, TypeOK, CallInv
      <4>3. QED
        BY <1>1, <4>1, <4>2
    <3>4. QED
      BY <3>1, <3>2, <3>3, <1>1, <1>2 DEF AllocInv, CallInv
  <2>7. FreshInv'
    <3>1. /\ next' > GLOBAL_LOCK
          /\ \A n \in RegionLocks : word'[n] <= next' + 1
          /\ \A n \in UserLocks : word'[n] < next'
      <4>1. /\ \A n \in RegionLocks : word[n] \in Nat /\ word[n] <= next + 1
            /\ \A n \in UserLocks : word'[n] = word[n] /\ word[n] \in Nat /\ word[n] < next
        BY <2>2, <2>3, Names DEF AllocInv, FreshInv
      <4>2. \A n \in RegionLocks : word'[n] = next + 2 \/ word'[n] = next + 3 \/ word'[n] = word[n]
        BY <2>3, Names
      <4>3. QED
        BY <2>2, <4>1, <4>2, ReservedWords
    <3>2. \A n \in RegionLocks : n[2] > regions' => word'[n] = Unset
      <4>1. regions \in Nat /\ \A n \in RegionLocks : n[2] > regions => n # l /\ n # m
        BY <2>1, ConstantsAssumption DEF AllocInv, TypeOK
      <4>2. QED
        BY <1>1, <2>3, <4>1, Names DEF AllocInv, FreshInv
    <3>3. \A u \in Threads : todo'[u] \in {<<"team", "workshare">>, <<"workshare">>} => u = t
      BY <2>4, <1>2 DEF AllocInv, ReservedInv, Opening
    <3>4. todo'[t] # <<"team", "workshare">>
      BY <1>2
    <3>5. ASSUME todo'[t] = <<"workshare">>
          PROVE  word'[<<"business", regions>>] = Unset /\ word'[<<"enter", regions>>] = Unset
      <4>1. todo[t] = <<"team", "workshare">>
        BY <1>4, <3>5, RegionGrant, StoreStep, Calls
      <4>2. <<"business", regions>> \in RegionLocks /\ <<"enter", regions>> \in RegionLocks
        BY <2>4, OpenRegion
      <4>3. word[<<"business", regions>>] = Unset /\ word[<<"enter", regions>>] = Unset
        BY <4>1, <4>2 DEF AllocInv, FreshInv
      <4>4. QED
        BY <2>1, <2>3, <4>1, <4>2, <4>3, Names
    <3>6. QED
      BY <3>1, <3>2, <3>3, <3>4, <3>5, <1>1 DEF FreshInv
  <2>8. LocksDistinct'
    <3>1. \A n \in RegionLocks : n # l /\ n # m => word'[n] = word[n] /\ word[n] <= next + 1
      BY <2>3, Names DEF AllocInv, FreshInv
    <3>2. \A n \in UserLocks : word'[n] = word[n]
      BY <2>2, <2>3, Names
    <3>3. \A n \in LockNames : word'[n] \in Nat /\ word[n] \in Nat
      BY <2>2, <2>3
    <3>4. \A n \in LockNames : word'[n] # Unset => word'[n] > GLOBAL_LOCK
      BY <2>2, <2>3 DEF AllocInv, LocksDistinct
    <3>5. ASSUME NEW n \in RegionLocks, NEW k \in RegionLocks, n # k, word'[n] # Unset
          PROVE  word'[n] # word'[k]
      <4>1. CASE n \in {l, m} \/ k \in {l, m}
        BY <2>2, <2>3, <3>1, <3>3, <3>5, <4>1, Names
      <4>2. CASE n \notin {l, m} /\ k \notin {l, m}
        BY <3>1, <3>5, <4>2, Names DEF AllocInv, LocksDistinct
      <4>3. QED
        BY <4>1, <4>2
    <3>6. ASSUME NEW n \in UserLocks, NEW k \in UserLocks, n # k, word'[n] # Unset
          PROVE  word'[n] # word'[k]
      BY <3>2, <3>6, Names DEF AllocInv, LocksDistinct
    <3>7. QED
      BY <3>4, <3>5, <3>6, Names DEF LocksDistinct
  <2>9. QED
    BY <2>5, <2>6, <2>7, <2>8, <1>2 DEF AllocInv
<1>5. QED
  BY <1>3, <1>4

LEMMA AllocStep == AllocInv /\ [Next]_vars => AllocInv'
<1> SUFFICES ASSUME AllocInv, [Next]_vars PROVE AllocInv'
  OBVIOUS
<1>1. CASE UNCHANGED vars
  BY <1>1 DEF vars, AllocInv, TypeOK, CallInv, ReservedInv, FreshInv, LocksDistinct,
              Allocating, Opening
<1>2. ASSUME NEW t \in Threads,
             TeamStart(t) \/ omp_init_lock(t) \/ AllocLock(t) \/ AllocLoad(t) \/ AllocStore(t)
               \/ TeamStarted(t) \/ UnsetLock(t)
      PROVE  AllocInv'
  BY <1>2, TeamStartKeeps, InitLockKeeps, AllocLockKeeps, AllocLoadKeeps, AllocStoreKeeps,
     TeamStartedKeeps, UnsetLockKeeps
<1>3. ASSUME NEW t \in Threads, NEW l \in RegionLocks, SetLock(t, l) PROVE AllocInv'
  BY <1>3, SetLockKeeps
<1>4. ASSUME NEW t \in Threads,
             \/ omp_unset_lock(t) \/ TestStore(t)
             \/ \E l \in UserLocks : omp_set_lock(t, l) \/ omp_test_lock(t, l)
      PROVE  AllocInv'
  BY <1>4, UserLockKeeps
<1>5. QED
  BY <1>1, <1>2, <1>3, <1>4 DEF Next

LEMMA AllocInvariance == Spec => []AllocInv
<1>1. QED
  BY AllocInit, AllocStep, PTL DEF Spec

\* Type correctness, with the place of every thread in its call.
THEOREM LocksTypeOK == Spec => []TypeOK
<1>1. AllocInv => TypeOK
  BY DEF AllocInv
<1>2. QED
  BY <1>1, AllocInvariance, PTL

\* gomp_team_start, gomp_new_work_share and gomp_hal_init_lock never run the
\* read-modify-write of *next_lock at the same time.
THEOREM AllocatorIsExclusive == Spec => []AllocatorExclusive
<1>1. AllocInv => AllocatorExclusive
  BY DEF AllocInv, ReservedInv, AllocatorExclusive, Allocating
<1>2. QED
  BY <1>1, AllocInvariance, PTL

\* The words handed out for regions are distinct, so are those for user locks,
\* and none is a reserved word, in spite of the two ways *next_lock is used.
THEOREM LocksAreDistinct == Spec => []LocksDistinct
<1>1. AllocInv => LocksDistinct
  BY DEF AllocInv
<1>2. QED
  BY <1>1, AllocInvariance, PTL

\* What the run locks_regions checks of the allocator: the calls that hold
\* different locks never run its read-modify-write at once, and the words it
\* hands out are distinct.
THEOREM AllocationIsSound == Spec => []AllocationSound
<1>1. TypeOK /\ AllocatorExclusive /\ LocksDistinct => AllocationSound
  BY DEF AllocationSound
<1>2. QED
  BY <1>1, LocksTypeOK, AllocatorIsExclusive, LocksAreDistinct, PTL

-----------------------------------------------------------------------------
(* Space: how far *next_lock has come, from what was opened and created. *)

\* The semaphore memory is large enough for the program: four words for each
\* region and one for each user lock.  The code does not check it.
WordsFit == /\ IsFiniteSet(InitLockCallers)
            /\ SemWords >= GLOBAL_LOCK + 3 + 4 * MaxRegions + Cardinality(InitLockCallers)

Granted == {t \in InitLockCallers : word[<<"user", t>>] # Unset}
\* The words thread t is still to be given for the region it opens.
Rest(t) == IF todo[t] = <<"team", "workshare">> THEN 4
           ELSE IF todo[t] = <<"workshare">> THEN 2 ELSE 0
SpaceInv ==
  /\ next <= GLOBAL_LOCK + 1 + 4 * regions + Cardinality(Granted)
  /\ \A t \in Threads : next + Rest(t) <= GLOBAL_LOCK + 1 + 4 * regions + Cardinality(Granted)

LEMMA GrantedCount ==
  ASSUME WordsFit
  PROVE  /\ IsFiniteSet(Granted) /\ Cardinality(Granted) \in Nat
         /\ Cardinality(Granted) <= Cardinality(InitLockCallers)
         /\ Cardinality(InitLockCallers) \in Nat
<1>1. Granted \subseteq InitLockCallers
  BY DEF Granted
<1>2. QED
  BY <1>1, FS_Subset, FS_CardinalityType DEF WordsFit

\* The words fit as long as the count holds.
LEMMA SpaceSuffices == ASSUME WordsFit, AllocInv, SpaceInv PROVE WordsSuffice
<1>1. /\ next \in Nat /\ regions \in Nat /\ regions <= MaxRegions /\ MaxRegions \in Nat
      /\ SemWords \in Nat
  BY ConstantsAssumption DEF AllocInv, TypeOK
<1>2. next + 1 < SemWords
  BY <1>1, GrantedCount, ReservedWords DEF WordsFit, SpaceInv
<1>3. \A l \in LockNames : word[l] \in Nat /\ word[l] <= next + 1
  BY <1>1, Names DEF AllocInv, TypeOK, FreshInv
<1>4. QED
  BY <1>1, <1>2, <1>3 DEF WordsSuffice

LEMMA SpaceInit == ASSUME WordsFit, Init PROVE SpaceInv
<1>1. \A t \in InitLockCallers : word[<<"user", t>>] = Unset
  BY Names DEF Init
<1>2. Cardinality(Granted) = 0
  BY <1>1, FS_EmptySet DEF Granted
<1>3. \A t \in Threads : Rest(t) = 0
  BY Calls DEF Init, Rest
<1>4. QED
  BY <1>2, <1>3, ReservedWords DEF Init, SpaceInv

LEMMA SpaceStep == ASSUME WordsFit, AllocInv, SpaceInv, [Next]_vars PROVE SpaceInv'
<1> USE ReservedWords
<1> DEFINE Bound == GLOBAL_LOCK + 1 + 4 * regions + Cardinality(Granted)
<1>1. /\ Cardinality(Granted) \in Nat /\ regions \in Nat /\ next \in Nat
      /\ \A t \in Threads : Rest(t) \in {0, 2, 4}
  BY GrantedCount, ConstantsAssumption DEF AllocInv, TypeOK, Rest
<1>2. ASSUME UNCHANGED <<next, word>>, regions' = regions,
             \A t \in Threads : Rest(t)' = Rest(t) \/ Rest(t)' = 0
      PROVE  SpaceInv'
  <2>1. Granted' = Granted
    BY <1>2 DEF Granted
  <2>2. QED
    BY <1>1, <1>2, <2>1 DEF SpaceInv
<1>3. ASSUME NEW t \in Threads, TeamStart(t) PROVE SpaceInv'
  <2>1. Granted' = Granted /\ next' = next /\ regions' = regions + 1
    BY <1>3 DEF TeamStart, Granted
  <2>2. \A u \in Threads : Rest(u)' = Rest(u) \/ Rest(u)' = 4
    BY <1>3 DEF TeamStart, Rest, AllocInv, TypeOK
  <2>3. QED
    BY <1>1, <2>1, <2>2 DEF SpaceInv
<1>4. ASSUME NEW t \in Threads, AllocStore(t), todo[t] = <<"user">> PROVE SpaceInv'
  <2>1. /\ next' = next + 1 /\ todo'[t] = << >> /\ word[<<"user", t>>] = Unset
        /\ word' = [word EXCEPT ![<<"user", t>>] = next] /\ next > GLOBAL_LOCK
        /\ <<"user", t>> \in LockNames /\ t \in InitLockCallers
    BY <1>4, UserGrant, Names DEF AllocInv, FreshInv, CallInv
  <2>2. Granted' = Granted \cup {t} /\ t \notin Granted
    <3>1. \A u \in InitLockCallers :
            <<"user", u>> \in LockNames /\ (u # t => <<"user", u>> # <<"user", t>>)
      BY Names
    <3>2. word'[<<"user", t>>] # Unset
      BY <1>1, <2>1 DEF AllocInv, TypeOK
    <3>3. \A u \in InitLockCallers : u # t => word'[<<"user", u>>] = word[<<"user", u>>]
      BY <2>1, <3>1 DEF AllocInv, TypeOK
    <3>4. QED
      BY <2>1, <3>2, <3>3 DEF Granted
  <2>3. Cardinality(Granted)' = Cardinality(Granted) + 1
    BY <2>2, GrantedCount, FS_AddElement
  <2>4. regions' = regions /\ \A u \in Threads : Rest(u)' = Rest(u) \/ Rest(u)' = 0
    BY <1>4, <2>1, StoreStep, Calls DEF Rest
  <2>5. QED
    BY <1>1, <2>1, <2>3, <2>4 DEF SpaceInv
<1>5. ASSUME NEW t \in Threads, AllocStore(t), todo[t] # <<"user">> PROVE SpaceInv'
  <2>1. next' = next + 2 /\ regions' = regions
    BY <1>5, RegionGrant, StoreStep
  <2>2. Rest(t) >= Rest(t)' + 2
    BY <1>5, RegionGrant, StoreStep, Calls DEF Rest
  <2>3. Opening(t) /\ \A u \in Threads \ {t} : ~Opening(u)
    BY <1>5, StoreStep DEF AllocInv, ReservedInv, Opening
  <2>4. \A u \in Threads \ {t} : Rest(u)' = 0
    BY <1>5, <2>3, StoreStep DEF Rest, Opening
  <2>5. Granted' = Granted
    <3>1. PICK l \in RegionLocks, m \in RegionLocks :
            word' = [word EXCEPT ![l] = next + 2, ![m] = next + 3]
      BY <1>5, RegionGrant
    <3>2. \A u \in InitLockCallers :
            <<"user", u>> \in LockNames /\ <<"user", u>> # l /\ <<"user", u>> # m
      BY Names
    <3>3. \A u \in InitLockCallers : word'[<<"user", u>>] = word[<<"user", u>>]
      BY <3>1, <3>2 DEF AllocInv, TypeOK
    <3>4. QED
      BY <3>3 DEF Granted
  <2>6. Rest(t)' \in {0, 2, 4}
    BY DEF Rest
  <2>7. QED
    BY <1>1, <2>1, <2>2, <2>4, <2>5, <2>6 DEF SpaceInv
<1>6. ASSUME NEW t \in Threads,
             \/ omp_init_lock(t) \/ AllocLock(t) \/ AllocLoad(t) \/ TeamStarted(t)
             \/ UnsetLock(t) \/ omp_unset_lock(t) \/ TestStore(t)
      PROVE  SpaceInv'
  <2>1. \A u \in Threads : Rest(u)' = Rest(u) \/ Rest(u)' = 0
    BY <1>6, Calls DEF omp_init_lock, AllocLock, AllocLoad, TeamStarted, UnsetLock,
                       omp_unset_lock, TestStore, Rest, AllocInv, TypeOK
  <2>2. QED
    BY <1>2, <1>6, <2>1 DEF omp_init_lock, AllocLock, AllocLoad, TeamStarted, UnsetLock,
                            omp_unset_lock, TestStore
<1>7. ASSUME NEW t \in Threads, NEW l \in LockNames,
             SetLock(t, l) \/ omp_set_lock(t, l) \/ omp_test_lock(t, l)
      PROVE  SpaceInv'
  BY <1>2, <1>7 DEF SetLock, omp_set_lock, omp_test_lock, Rest
<1>8. CASE UNCHANGED vars
  BY <1>2, <1>8 DEF vars, Rest
<1>9. QED
  BY <1>3, <1>4, <1>5, <1>6, <1>7, <1>8, Names DEF Next

LEMMA SpaceInvariance == ASSUME WordsFit PROVE Spec => []SpaceInv
<1>1. Init => SpaceInv
  BY SpaceInit
<1>2. AllocInv /\ SpaceInv /\ [Next]_vars => SpaceInv'
  BY SpaceStep
<1>3. QED
  BY <1>1, <1>2, AllocInvariance, PTL DEF Spec

\* No lock lies outside the semaphore memory, if it has four words for each
\* region and one for each user lock: words are never given back.
THEOREM WordsAlwaysSuffice == ASSUME WordsFit PROVE Spec => []WordsSuffice
<1>1. AllocInv /\ SpaceInv => WordsSuffice
  BY SpaceSuffices
<1>2. QED
  BY <1>1, AllocInvariance, SpaceInvariance, PTL

-----------------------------------------------------------------------------
(* Exclusion: the word of a region lock that is held is set. *)

HeldInv == \A t \in Threads : holds[t] \in RegionLocks => sem[word[holds[t]]] = 1
ExclusionInv == HeldInv /\ RegionExclusion

\* A lock that was given a word was given one of the memory, not a reserved one.
LEMMA HeldWords ==
  ASSUME WordsFit, AllocInv, SpaceInv, NEW l \in LockNames, word[l] # Unset
  PROVE  word[l] \in Words /\ word[l] > GLOBAL_LOCK
BY SpaceSuffices, ConstantsAssumption DEF WordsSuffice, Words, AllocInv, TypeOK, LocksDistinct

\* So was the region lock a thread is inside.
LEMMA InsideWords ==
  ASSUME WordsFit, AllocInv, SpaceInv, NEW t \in Threads, holds[t] \in RegionLocks
  PROVE  /\ holds[t] \in LockNames /\ word[holds[t]] # Unset
         /\ word[holds[t]] \in Words /\ word[holds[t]] > GLOBAL_LOCK
<1>1. holds[t] \in LockNames /\ holds[t] # << >>
  BY Names DEF RegionLocks
<1>2. word[holds[t]] # Unset
  BY <1>1 DEF AllocInv, CallInv
<1>3. QED
  BY <1>1, <1>2, HeldWords

\* A word once handed out is never handed out again.
LEMMA WordsKept ==
  ASSUME AllocInv, NEW t \in Threads, AllocStore(t)
  PROVE  \A l \in LockNames : word[l] # Unset => word'[l] = word[l]
<1>1. CASE todo[t] = <<"user">>
  BY <1>1, UserGrant DEF AllocInv, TypeOK
<1>2. CASE todo[t] # <<"user">>
  BY <1>2, RegionGrant DEF AllocInv, TypeOK
<1>3. QED
  BY <1>1, <1>2

\* An action that leaves the region locks held and the words alone keeps exclusion.
LEMMA ExclusionFrame ==
  ASSUME WordsFit, AllocInv, SpaceInv, ExclusionInv,
         \A t \in Threads : holds'[t] \in RegionLocks => holds'[t] = holds[t],
         \A l \in LockNames : word[l] # Unset => word'[l] = word[l],
         \A w \in Words : w > GLOBAL_LOCK => sem'[w] = sem[w]
  PROVE  ExclusionInv'
<1>1. \A t \in Threads : holds'[t] \in RegionLocks =>
        /\ holds'[t] = holds[t] /\ word'[holds[t]] = word[holds[t]]
        /\ word[holds[t]] \in Words /\ word[holds[t]] > GLOBAL_LOCK
  BY InsideWords
<1>2. HeldInv'
  BY <1>1 DEF ExclusionInv, HeldInv
<1>3. RegionExclusion'
  BY <1>1 DEF ExclusionInv, RegionExclusion
<1>4. QED
  BY <1>2, <1>3 DEF ExclusionInv

LEMMA SetLockExcludes ==
  ASSUME WordsFit, AllocInv, SpaceInv, ExclusionInv,
         NEW t \in Threads, NEW l \in RegionLocks, SetLock(t, l)
  PROVE  ExclusionInv'
<1> DEFINE w == word[l]
<1>1. /\ w \in Words /\ sem[w] = 0 /\ sem' = [sem EXCEPT ![w] = 1] /\ word' = word
      /\ holds' = [holds EXCEPT ![t] = l]
  BY HeldWords, Names DEF SetLock, TakeWord
<1>2. holds'[t] = l /\ \A u \in Threads \ {t} : holds'[u] = holds[u]
  BY <1>1 DEF AllocInv, TypeOK
<1>3. sem'[w] = 1 /\ \A v \in Words : sem[v] = 1 => sem'[v] = 1
  BY <1>1 DEF AllocInv, TypeOK
<1>4. \A u \in Threads : holds[u] \in RegionLocks => word[holds[u]] \in Words
  BY InsideWords
<1>5. \A u \in Threads : holds[u] \in RegionLocks => word[holds[u]] # w
  BY <1>1 DEF ExclusionInv, HeldInv
<1> HIDE DEF w
<1>6. HeldInv'
  <2>1. ASSUME NEW u \in Threads, u # t, holds'[u] \in RegionLocks
        PROVE  sem'[word[holds'[u]]] = 1
    <3>1. holds'[u] = holds[u]
      BY <1>2, <2>1
    <3>2. sem[word[holds[u]]] = 1 /\ word[holds[u]] \in Words
      BY <1>4, <2>1, <3>1 DEF ExclusionInv, HeldInv
    <3>3. QED
      BY <1>3, <3>1, <3>2
  <2>2. sem'[word[holds'[t]]] = 1
    BY <1>2, <1>3 DEF w
  <2>3. QED
    BY <1>1, <2>1, <2>2 DEF HeldInv
<1>7. RegionExclusion'
  <2>1. ASSUME NEW u \in Threads, NEW v \in Threads, u # v,
               holds'[u] \in RegionLocks, holds'[v] \in RegionLocks
        PROVE  word[holds'[u]] # word[holds'[v]]
    <3>1. CASE u = t
      BY <1>2, <1>5, <2>1, <3>1 DEF w
    <3>2. CASE v = t
      BY <1>2, <1>5, <2>1, <3>2 DEF w
    <3>3. CASE u # t /\ v # t
      BY <1>2, <2>1, <3>3 DEF ExclusionInv, RegionExclusion
    <3>4. QED
      BY <3>1, <3>2, <3>3
  <2>2. QED
    BY <1>1, <2>1 DEF RegionExclusion
<1>8. QED
  BY <1>6, <1>7 DEF ExclusionInv

LEMMA UnsetLockExcludes ==
  ASSUME WordsFit, AllocInv, SpaceInv, ExclusionInv, NEW t \in Threads, UnsetLock(t)
  PROVE  ExclusionInv'
<1> DEFINE w == word[holds[t]]
<1>1. /\ sem' = [sem EXCEPT ![w] = 0] /\ word' = word /\ holds[t] \in RegionLocks
      /\ holds' = [holds EXCEPT ![t] = << >>]
  BY DEF UnsetLock, FreeWord
<1>2. holds'[t] \notin RegionLocks /\ \A u \in Threads \ {t} : holds'[u] = holds[u]
  <2>1. << >> \notin RegionLocks
    BY DEF RegionLocks
  <2>2. QED
    BY <1>1, <2>1 DEF AllocInv, TypeOK
<1>3. \A u \in Threads \ {t} : holds[u] \in RegionLocks =>
        word[holds[u]] # w /\ word[holds[u]] \in Words
  BY <1>1, InsideWords DEF ExclusionInv, RegionExclusion
<1>4. \A v \in Words : v # w => sem'[v] = sem[v]
  BY <1>1 DEF AllocInv, TypeOK
<1> HIDE DEF w
<1>5. HeldInv'
  BY <1>1, <1>2, <1>3, <1>4 DEF ExclusionInv, HeldInv
<1>6. RegionExclusion'
  BY <1>1, <1>2 DEF ExclusionInv, RegionExclusion
<1>7. QED
  BY <1>5, <1>6 DEF ExclusionInv

LEMMA ExclusionStep ==
  ASSUME WordsFit, AllocInv, SpaceInv, ExclusionInv, [Next]_vars PROVE ExclusionInv'
<1> USE ReservedWords
<1>1. ASSUME NEW t \in Threads,
             TeamStart(t) \/ omp_init_lock(t) \/ AllocLock(t) \/ AllocLoad(t) \/ TeamStarted(t)
      PROVE  ExclusionInv'
  <2>1. holds' = holds /\ word' = word
    BY <1>1 DEF TeamStart, omp_init_lock, AllocLock, AllocLoad, TeamStarted
  <2>2. \A w \in Words : w > GLOBAL_LOCK => sem'[w] = sem[w]
    BY <1>1 DEF TeamStart, omp_init_lock, AllocLock, AllocLoad, TeamStarted, TakeWord, FreeWord,
                AllocInv, TypeOK
  <2>3. QED
    BY <2>1, <2>2, ExclusionFrame
<1>2. ASSUME NEW t \in Threads, AllocStore(t) PROVE ExclusionInv'
  <2>1. holds' = holds /\ \A w \in Words : w > GLOBAL_LOCK => sem'[w] = sem[w]
    BY <1>2, StoreStep DEF AllocInv, TypeOK
  <2>2. \A l \in LockNames : word[l] # Unset => word'[l] = word[l]
    BY <1>2, WordsKept
  <2>3. QED
    BY <2>1, <2>2, ExclusionFrame
<1>3. ASSUME NEW t \in Threads,
             \/ omp_unset_lock(t) \/ TestStore(t)
             \/ \E l \in UserLocks : omp_set_lock(t, l) \/ omp_test_lock(t, l)
      PROVE  ExclusionInv'
  <2>1. UNCHANGED <<sem, word>>
    BY <1>3 DEF omp_set_lock, omp_test_lock, omp_unset_lock, TestStore
  <2>2. \A u \in Threads : holds'[u] \in RegionLocks => holds'[u] = holds[u]
    <3>1. << >> \notin RegionLocks /\ \A l \in UserLocks : l \notin RegionLocks
      BY Names DEF RegionLocks
    <3>2. QED
      BY <1>3, <3>1 DEF omp_set_lock, omp_test_lock, omp_unset_lock, TestStore, AllocInv, TypeOK
  <2>3. QED
    BY <2>1, <2>2, ExclusionFrame
<1>4. CASE UNCHANGED vars
  <2>1. holds' = holds /\ word' = word /\ sem' = sem
    BY <1>4 DEF vars
  <2>2. QED
    BY <2>1, ExclusionFrame
<1>5. QED
  BY <1>1, <1>2, <1>3, <1>4, SetLockExcludes, UnsetLockExcludes DEF Next

\* One thread at a time is inside the critical, atomic and work-share sections
\* of a region, whatever threads do with user locks, and although a user lock is
\* given a word that a work share has: the calls on it never reach the word.
THEOREM RegionsExclude == ASSUME WordsFit PROVE Spec => []RegionExclusion
<1>1. Init => ExclusionInv
  <2>1. << >> \notin RegionLocks
    BY DEF RegionLocks
  <2>2. QED
    BY <2>1 DEF Init, ExclusionInv, HeldInv, RegionExclusion
<1>2. AllocInv /\ SpaceInv /\ ExclusionInv /\ [Next]_vars => ExclusionInv'
  BY ExclusionStep
<1>3. ExclusionInv => RegionExclusion
  BY DEF ExclusionInv
<1>4. QED
  BY <1>1, <1>2, <1>3, AllocInvariance, SpaceInvariance, PTL DEF Spec
==============================================================================
