--------------------------- MODULE MSGBarrierProofs ---------------------------
(***************************************************************************)
(* Proofs about the software barrier, for every team size the layout of    *)
(* bar.h supports, every flag width of at least one bit and every number   *)
(* of rounds.                                                              *)
(***************************************************************************)
EXTENDS MSGBarrier, TLAPS

\* The words of the two flag arrays exist, and are pairwise different as long
\* as the team is small enough for the layout of bar.h.
LEMMA FlagAddresses ==
  ASSUME FlagsDisjoint
  PROVE  /\ \A s \in Slaves : SLAVE_FLAG(s) \in Words /\ MASTER_FLAG(s) \in Words
         /\ \A s, t \in Slaves : SLAVE_FLAG(s) # MASTER_FLAG(t)
         /\ \A s, t \in Slaves : s # t => /\ SLAVE_FLAG(s) # SLAVE_FLAG(t)
                                          /\ MASTER_FLAG(s) # MASTER_FLAG(t)
<1> DEFINE K == DefaultMaxProc \div SIZEOF_WORD
<1>1. K \in Nat
  BY ConstantsAssumption DEF SIZEOF_WORD
<1>2. /\ N \in Nat /\ N <= K + 1
      /\ Words = 0 .. K + N
      /\ \A s : MASTER_FLAG(s) = K + s
  BY ConstantsAssumption DEF FlagsDisjoint, Words, MASTER_FLAG
<1> HIDE DEF K
<1>3. QED
  BY <1>1, <1>2 DEF Slaves, SLAVE_FLAG

\* The master is a thread and not a slave; everybody else is a slave.
LEMMA TeamMembers ==
  /\ MASTER \in Threads /\ MASTER \notin Slaves
  /\ \A s \in Slaves : s \in Threads /\ s \in Nat /\ s >= 1 /\ s < N
  /\ \A t \in Threads : t = MASTER \/ t \in Slaves
  /\ N \in Nat /\ N >= 1
BY ConstantsAssumption DEF MASTER, Threads, Slaves

\* Flag arithmetic: an increment stays a word and changes the flag.
LEMMA FlagIncrement ==
  ASSUME NEW v \in FlagValues
  PROVE  (v + 1) % FlagMod \in FlagValues /\ (v + 1) % FlagMod # v
<1>1. FlagMod \in Nat /\ FlagMod >= 2 /\ v \in Nat /\ v < FlagMod
  BY ConstantsAssumption DEF FlagValues
<1>2. CASE v + 1 < FlagMod
  <2>1. (v + 1) % FlagMod = v + 1
    BY <1>1, <1>2
  <2>2. QED
    BY <1>1, <1>2, <2>1 DEF FlagValues
<1>3. CASE v + 1 = FlagMod
  <2>1. (v + 1) % FlagMod = 0
    BY <1>1, <1>3
  <2>2. QED
    BY <1>1, <1>3, <2>1 DEF FlagValues
<1>4. QED
  BY <1>1, <1>2, <1>3

BarrierInv == TypeOK /\ HandshakeInv

\* Init establishes the invariant.
LEMMA InvInit == ASSUME FlagsDisjoint PROVE Init => BarrierInv
<1> SUFFICES ASSUME Init PROVE BarrierInv
  OBVIOUS
<1> USE ConstantsAssumption, FlagAddresses, TeamMembers DEF Init
<1>1. TypeOK
  BY DEF TypeOK, FlagValues
<1>2. MasterInv /\ CallsInv
  BY DEF MasterInv, CallsInv
<1>3. ASSUME NEW s \in Slaves PROVE NotNotified(s)
  BY <1>3 DEF NotNotified, Collected, Released, ReleasedRounds
<1>4. QED
  BY <1>1, <1>2, <1>3 DEF BarrierInv, HandshakeInv, PhaseInv

\* While the master handles a flag, its loop index names a slave.
LEMMA IndexIsSlave ==
  ASSUME BarrierInv, i < N
  PROVE  i \in Slaves /\ i + 1 \in 1 .. N
BY TeamMembers DEF BarrierInv, TypeOK, Slaves

\* gomp_hal_barrier preserves the invariant.
LEMMA Invgomp_hal_barrier ==
  ASSUME FlagsDisjoint, BarrierInv, NEW t \in Threads, gomp_hal_barrier(t)
  PROVE  BarrierInv'
<1> USE FlagAddresses, TeamMembers, IndexIsSlave DEF BarrierInv, HandshakeInv, Goto
<1>1. TypeOK'
  BY FlagIncrement, ConstantsAssumption DEF TypeOK, gomp_hal_barrier, MasterInv, FlagValues
<1>2. MasterInv'
  BY DEF TypeOK, MasterInv, PhaseInv, NotNotified, Notified, Held, LetGo, gomp_hal_barrier, FlagValues
<1>3. CallsInv'
  BY DEF TypeOK, CallsInv, gomp_hal_barrier
<1>4. ASSUME NEW s \in Slaves PROVE PhaseInv(s)'
  BY <1>4, FlagIncrement DEF TypeOK, MasterInv, PhaseInv, gomp_hal_barrier,
     NotNotified, Notified, Held, LetGo, Collected, Released, ReleasedRounds
<1>5. QED
  BY <1>1, <1>2, <1>3, <1>4

\* SlaveRead preserves the invariant.
LEMMA InvSlaveRead ==
  ASSUME FlagsDisjoint, BarrierInv, NEW t \in Slaves, SlaveRead(t)
  PROVE  BarrierInv'
<1> USE FlagAddresses, TeamMembers, IndexIsSlave DEF BarrierInv, HandshakeInv, Goto
<1>1. TypeOK'
  BY FlagIncrement, ConstantsAssumption DEF TypeOK, SlaveRead, MasterInv, FlagValues
<1>2. MasterInv'
  BY DEF TypeOK, MasterInv, PhaseInv, NotNotified, Notified, Held, LetGo, SlaveRead, FlagValues
<1>3. CallsInv'
  BY DEF TypeOK, CallsInv, SlaveRead
<1>4. ASSUME NEW s \in Slaves PROVE PhaseInv(s)'
  BY <1>4, FlagIncrement DEF TypeOK, MasterInv, PhaseInv, SlaveRead,
     NotNotified, Notified, Held, LetGo, Collected, Released, ReleasedRounds
<1>5. QED
  BY <1>1, <1>2, <1>3, <1>4

\* SlaveNotify preserves the invariant.
LEMMA InvSlaveNotify ==
  ASSUME FlagsDisjoint, BarrierInv, NEW t \in Slaves, SlaveNotify(t)
  PROVE  BarrierInv'
<1> USE FlagAddresses, TeamMembers, IndexIsSlave DEF BarrierInv, HandshakeInv, Goto
<1>1. TypeOK'
  BY FlagIncrement, ConstantsAssumption DEF TypeOK, SlaveNotify, MasterInv, FlagValues
<1>2. MasterInv'
  BY DEF TypeOK, MasterInv, PhaseInv, NotNotified, Notified, Held, LetGo, SlaveNotify, FlagValues
<1>3. CallsInv'
  BY DEF TypeOK, CallsInv, SlaveNotify
<1>4. ASSUME NEW s \in Slaves PROVE PhaseInv(s)'
  BY <1>4, FlagIncrement DEF TypeOK, MasterInv, PhaseInv, SlaveNotify,
     NotNotified, Notified, Held, LetGo, Collected, Released, ReleasedRounds
<1>5. QED
  BY <1>1, <1>2, <1>3, <1>4

\* SlaveExit preserves the invariant.
LEMMA InvSlaveExit ==
  ASSUME FlagsDisjoint, BarrierInv, NEW t \in Slaves, SlaveExit(t)
  PROVE  BarrierInv'
<1> USE FlagAddresses, TeamMembers, IndexIsSlave DEF BarrierInv, HandshakeInv, Goto
<1>1. TypeOK'
  BY FlagIncrement, ConstantsAssumption DEF TypeOK, SlaveExit, MasterInv, FlagValues
<1>2. MasterInv'
  BY DEF TypeOK, MasterInv, PhaseInv, NotNotified, Notified, Held, LetGo, SlaveExit, FlagValues
<1>3. CallsInv'
  BY DEF TypeOK, CallsInv, SlaveExit
<1>4. ASSUME NEW s \in Slaves PROVE PhaseInv(s)'
  BY <1>4, FlagIncrement DEF TypeOK, MasterInv, PhaseInv, SlaveExit,
     NotNotified, Notified, Held, LetGo, Collected, Released, ReleasedRounds
<1>5. QED
  BY <1>1, <1>2, <1>3, <1>4

\* WaitPoll preserves the invariant.
LEMMA InvWaitPoll ==
  ASSUME FlagsDisjoint, BarrierInv, WaitPoll
  PROVE  BarrierInv'
<1> USE FlagAddresses, TeamMembers, IndexIsSlave DEF BarrierInv, HandshakeInv, Goto
<1>1. TypeOK'
  BY FlagIncrement, ConstantsAssumption DEF TypeOK, WaitPoll, MasterInv, FlagValues
<1>2. MasterInv'
  BY DEF TypeOK, MasterInv, PhaseInv, NotNotified, Notified, Held, LetGo, WaitPoll, FlagValues
<1>3. CallsInv'
  BY DEF TypeOK, CallsInv, WaitPoll
<1>4. ASSUME NEW s \in Slaves PROVE PhaseInv(s)'
  BY <1>4, FlagIncrement DEF TypeOK, MasterInv, PhaseInv, WaitPoll,
     NotNotified, Notified, Held, LetGo, Collected, Released, ReleasedRounds
<1>5. QED
  BY <1>1, <1>2, <1>3, <1>4

\* WaitReset preserves the invariant.
LEMMA InvWaitReset ==
  ASSUME FlagsDisjoint, BarrierInv, WaitReset
  PROVE  BarrierInv'
<1> USE FlagAddresses, TeamMembers, IndexIsSlave DEF BarrierInv, HandshakeInv, Goto
<1>1. TypeOK'
  BY FlagIncrement, ConstantsAssumption DEF TypeOK, WaitReset, MasterInv, FlagValues
<1>2. MasterInv'
  BY DEF TypeOK, MasterInv, PhaseInv, NotNotified, Notified, Held, LetGo, WaitReset, FlagValues
<1>3. CallsInv'
  BY DEF TypeOK, CallsInv, WaitReset
<1>4. ASSUME NEW s \in Slaves PROVE PhaseInv(s)'
  BY <1>4, FlagIncrement DEF TypeOK, MasterInv, PhaseInv, WaitReset,
     NotNotified, Notified, Held, LetGo, Collected, Released, ReleasedRounds
<1>5. QED
  BY <1>1, <1>2, <1>3, <1>4

\* ReleaseLoad preserves the invariant.
LEMMA InvReleaseLoad ==
  ASSUME FlagsDisjoint, BarrierInv, ReleaseLoad
  PROVE  BarrierInv'
<1> USE FlagAddresses, TeamMembers, IndexIsSlave DEF BarrierInv, HandshakeInv, Goto
<1>1. TypeOK'
  BY FlagIncrement, ConstantsAssumption DEF TypeOK, ReleaseLoad, MasterInv, FlagValues
<1>2. MasterInv'
  BY DEF TypeOK, MasterInv, PhaseInv, NotNotified, Notified, Held, LetGo, ReleaseLoad, FlagValues
<1>3. CallsInv'
  BY DEF TypeOK, CallsInv, ReleaseLoad
<1>4. ASSUME NEW s \in Slaves PROVE PhaseInv(s)'
  BY <1>4, FlagIncrement DEF TypeOK, MasterInv, PhaseInv, ReleaseLoad,
     NotNotified, Notified, Held, LetGo, Collected, Released, ReleasedRounds
<1>5. QED
  BY <1>1, <1>2, <1>3, <1>4

\* ReleaseStore preserves the invariant.
LEMMA InvReleaseStore ==
  ASSUME FlagsDisjoint, BarrierInv, ReleaseStore
  PROVE  BarrierInv'
<1> USE FlagAddresses, TeamMembers, IndexIsSlave DEF BarrierInv, HandshakeInv, Goto
<1>1. TypeOK'
  BY FlagIncrement, ConstantsAssumption DEF TypeOK, ReleaseStore, MasterInv, FlagValues
<1>2. MasterInv'
  BY DEF TypeOK, MasterInv, PhaseInv, NotNotified, Notified, Held, LetGo, ReleaseStore, FlagValues
<1>3. CallsInv'
  BY DEF TypeOK, CallsInv, ReleaseStore
<1>4. ASSUME NEW s \in Slaves PROVE PhaseInv(s)'
  BY <1>4, FlagIncrement DEF TypeOK, MasterInv, PhaseInv, ReleaseStore,
     NotNotified, Notified, Held, LetGo, Collected, Released, ReleasedRounds
<1>5. QED
  BY <1>1, <1>2, <1>3, <1>4

\* Every step of the specification preserves the invariant.
LEMMA InvNext ==
  ASSUME FlagsDisjoint, BarrierInv, [Next]_vars
  PROVE  BarrierInv'
<1>1. CASE MasterStep
  BY <1>1, TeamMembers, Invgomp_hal_barrier, InvWaitPoll, InvWaitReset,
     InvReleaseLoad, InvReleaseStore
  DEF MasterStep, MSGBarrier_Wait, MSGBarrier_Release
<1>2. ASSUME NEW s \in Slaves, SlaveStep(s) PROVE BarrierInv'
  BY <1>2, TeamMembers, Invgomp_hal_barrier, InvSlaveRead, InvSlaveNotify, InvSlaveExit
  DEF SlaveStep, MSGBarrier_SlaveEnter
<1>3. CASE Done \/ UNCHANGED vars
  <2>1. UNCHANGED <<mem, pc, g, i, tmp, arrived, left>>
    BY <1>3 DEF Done, vars
  <2>2. QED
    BY <2>1 DEF BarrierInv, TypeOK, HandshakeInv, MasterInv, CallsInv, PhaseInv,
       NotNotified, Notified, Held, LetGo, Collected, Released, ReleasedRounds
<1>4. QED
  BY <1>1, <1>2, <1>3 DEF Next

\* The invariant holds throughout.
LEMMA BarrierInvariance == ASSUME FlagsDisjoint PROVE Spec => []BarrierInv
<1>1. Init => BarrierInv
  BY InvInit
<1>2. BarrierInv /\ [Next]_vars => BarrierInv'
  BY InvNext
<1>3. QED
  BY <1>1, <1>2, PTL DEF Spec

\* Type correctness of the software barrier: in particular the master's loop
\* index never leaves 1..N and the exit counts of bar_sw.c stay words.
THEOREM BarrierTypeOK == ASSUME FlagsDisjoint PROVE Spec => []TypeOK
<1>1. BarrierInv => TypeOK
  BY DEF BarrierInv
<1>2. QED
  BY <1>1, BarrierInvariance, PTL

\* Every slave's flag handshake stays in one of its four phases, in any
\* interleaving of MSGBarrier_SlaveEnter, MSGBarrier_Wait and
\* MSGBarrier_Release over consecutive barriers.
THEOREM BarrierHandshake == ASSUME FlagsDisjoint PROVE Spec => []HandshakeInv
<1>1. BarrierInv => HandshakeInv
  BY DEF BarrierInv
<1>2. QED
  BY <1>1, BarrierInvariance, PTL

\* What the phases say of the counts: a slave has left at most as often as the
\* master has arrived, and is at most one barrier behind.
LEMMA CountsFromPhases ==
  ASSUME BarrierInv, NEW s \in Slaves
  PROVE  /\ arrived[MASTER] \in Nat /\ arrived[s] \in Nat
         /\ left[MASTER] <= arrived[s]
         /\ left[s] <= arrived[MASTER]
         /\ \A u \in Slaves : left[s] <= arrived[u]
<1>1. ASSUME NEW u \in Slaves
      PROVE  /\ left[u] \in Nat /\ arrived[u] \in Nat
             /\ left[MASTER] \in Nat /\ arrived[MASTER] \in Nat
             /\ left[MASTER] <= arrived[u]
             /\ left[u] <= arrived[MASTER]
             /\ left[u] <= left[MASTER] + 1
             /\ left[u] = left[MASTER] + 1 => pc[MASTER] \in {"load", "store"}
             /\ pc[MASTER] \in {"load", "store"} => arrived[u] >= left[MASTER] + 1
  BY <1>1, TeamMembers
  DEF BarrierInv, TypeOK, HandshakeInv, MasterInv, CallsInv, PhaseInv,
      NotNotified, Notified, Held, LetGo, Collected, Released, ReleasedRounds
<1>2. QED
  BY <1>1

\* No thread returns from its k-th gomp_hal_barrier before every thread of the
\* team has entered its k-th call, for every team the flag layout supports.
THEOREM BarrierIsSafe == ASSUME FlagsDisjoint PROVE Spec => []BarrierSafety
<1>1. ASSUME BarrierInv PROVE BarrierSafety
  <2>1. ASSUME NEW t \in Threads, NEW u \in Threads PROVE left[t] <= arrived[u]
    <3>1. left[MASTER] <= arrived[MASTER]
      BY <1>1, TeamMembers DEF BarrierInv, TypeOK, HandshakeInv, CallsInv
    <3>2. QED
      BY <1>1, <2>1, <3>1, TeamMembers, CountsFromPhases
  <2>2. QED
    BY <2>1 DEF BarrierSafety
<1>2. QED
  BY <1>1, BarrierInvariance, PTL

-----------------------------------------------------------------------------
\* A thread that comes out of the barrier takes the abstract Leave step.
LEMMA LeaveStep ==
  ASSUME BarrierInv, NEW t \in Threads, pc[t] # "run",
         \A u \in Threads : arrived[u] >= arrived[t],
         left' = [left EXCEPT ![t] = @ + 1], UNCHANGED arrived
  PROVE  Abs!Leave(t)
<1>1. left[t] \in Nat /\ arrived[t] = left[t] + 1
  BY DEF BarrierInv, TypeOK, HandshakeInv, CallsInv
<1>2. left' = [left EXCEPT ![t] = arrived[t]]
  BY <1>1
<1>3. QED
  BY <1>1, <1>2 DEF Abs!Leave

\* When slave t sees its flag change, every thread has arrived.
LEMMA SlaveExitIsLate ==
  ASSUME BarrierInv, NEW t \in Slaves, SlaveExit(t)
  PROVE  \A u \in Threads : arrived[u] >= arrived[t]
<1>1. LetGo(t)
  BY DEF BarrierInv, HandshakeInv, PhaseInv, NotNotified, Notified, Held, SlaveExit
<1>2. arrived[t] = left[t] + 1 /\ left[t] \in Nat /\ left[MASTER] \in Nat
  BY TeamMembers DEF BarrierInv, TypeOK, HandshakeInv, CallsInv, SlaveExit
<1>3. arrived[t] = ReleasedRounds(t)
  BY <1>1, <1>2 DEF LetGo
<1>4. arrived[MASTER] >= arrived[t]
  BY <1>3, <1>2, TeamMembers
  DEF BarrierInv, TypeOK, HandshakeInv, CallsInv, ReleasedRounds, Released
<1>5. ASSUME NEW u \in Slaves PROVE arrived[u] >= arrived[t]
  BY <1>5, <1>3, <1>2, TeamMembers
  DEF BarrierInv, TypeOK, HandshakeInv, CallsInv, PhaseInv, ReleasedRounds,
      Released, Collected, NotNotified, Notified, Held, LetGo
<1>6. QED
  BY <1>4, <1>5, TeamMembers

\* When the master's release loop ends, every thread has arrived.
LEMMA MasterExitIsLate ==
  ASSUME BarrierInv, pc[MASTER] = "load"
  PROVE  \A u \in Threads : arrived[u] >= arrived[MASTER]
BY TeamMembers
DEF BarrierInv, TypeOK, HandshakeInv, CallsInv, PhaseInv, ReleasedRounds,
    Released, Collected, NotNotified, Notified, Held, LetGo

\* Every step of the software barrier is a step of the abstract barrier.
LEMMA StepSimulation ==
  ASSUME BarrierInv, [Next]_vars
  PROVE  [Abs!Next]_(Abs!abstractVars)
<1> USE TeamMembers
<1>1. ASSUME NEW t \in Threads, gomp_hal_barrier(t) PROVE Abs!Next
  <2>1. Abs!Arrive(t)
    BY <1>1 DEF BarrierInv, TypeOK, HandshakeInv, CallsInv, gomp_hal_barrier, Abs!Arrive
  <2>2. QED
    BY <2>1 DEF Abs!Next
<1>2. ASSUME NEW s \in Slaves, SlaveExit(s) PROVE Abs!Next
  <2>1. Abs!Leave(s)
    BY <1>2, SlaveExitIsLate, LeaveStep DEF SlaveExit
  <2>2. QED
    BY <2>1 DEF Abs!Next
<1>3. CASE ReleaseLoad
  <2>1. CASE i < N
    BY <1>3, <2>1 DEF ReleaseLoad, Abs!abstractVars
  <2>2. CASE i = N
    <3>1. Abs!Leave(MASTER)
      BY <1>3, <2>2, MasterExitIsLate, LeaveStep DEF ReleaseLoad
    <3>2. QED
      BY <3>1 DEF Abs!Next
  <2>3. QED
    BY <1>3, <2>1, <2>2 DEF ReleaseLoad
<1>4. CASE WaitPoll \/ WaitReset \/ ReleaseStore \/ Done \/ UNCHANGED vars
  BY <1>4 DEF WaitPoll, WaitReset, ReleaseStore, Done, vars, Abs!abstractVars
<1>5. ASSUME NEW s \in Slaves, SlaveRead(s) \/ SlaveNotify(s)
      PROVE  UNCHANGED Abs!abstractVars
  BY <1>5 DEF SlaveRead, SlaveNotify, Abs!abstractVars
<1>6. QED
  BY <1>1, <1>2, <1>3, <1>4, <1>5
  DEF Next, MasterStep, SlaveStep, MSGBarrier_Wait, MSGBarrier_Release,
      MSGBarrier_SlaveEnter

\* The software barrier of bar_sw.c implements the abstract team barrier.
THEOREM BarrierRefinement == ASSUME FlagsDisjoint PROVE Spec => ImplementsBarrier
<1>1. Init => Abs!Init
  BY DEF Init, Abs!Init
<1>2. BarrierInv /\ [Next]_vars => [Abs!Next]_(Abs!abstractVars)
  BY StepSimulation
<1>3. QED
  BY <1>1, <1>2, BarrierInvariance, PTL DEF Spec, ImplementsBarrier, Abs!Spec
==============================================================================
