------------------------------ MODULE MSGBarrier ------------------------------
(***************************************************************************)
(* The software master/slave barrier of the VSOC OpenMP runtime            *)
(* (libgomp/config/vsoc/bar_sw.c, bar.h), run by the threads of one team.  *)
(*                                                                         *)
(* Thread 0 is the master (proc_ids[0]); threads 1..N-1 are the slaves.    *)
(* The flags live in words of the shared TCDM.  Every load and every store *)
(* of a flag is a step of its own, so the cores interleave as they do on   *)
(* the platform; spinning on an unchanged flag is stuttering.              *)
(***************************************************************************)
EXTENDS Naturals

CONSTANTS N,             \* nthreads of the team, the master included
          DefaultMaxProc,\* DEFAULT_MAXPROC, 64 in libgomp_config.h
          FlagMod,       \* flags are words: 2^32 in the code
          MaxRounds      \* bound: barriers executed by each thread

SIZEOF_WORD == 4

Threads == 0 .. N-1
Slaves == 1 .. N-1
MASTER == 0

\* bar.h lays both flag arrays out from BARRIER_BASE.  The master array starts
\* DEFAULT_MAXPROC *bytes* after the slave array.  Offsets are in words here.
SLAVE_FLAG(x) == x
MASTER_FLAG(x) == (DefaultMaxProc \div SIZEOF_WORD) + x

Words == 0 .. (DefaultMaxProc \div SIZEOF_WORD) + N
FlagValues == 0 .. FlagMod-1

ASSUME ConstantsAssumption ==
  /\ N \in Nat \ {0}
  /\ DefaultMaxProc \in Nat
  /\ FlagMod \in Nat /\ FlagMod >= 2
  /\ MaxRounds \in Nat

\* The two flag arrays share no word that this team uses.
FlagsDisjoint == N <= (DefaultMaxProc \div SIZEOF_WORD) + 1

VARIABLES
  mem,      \* the flag words, BARRIER_BASE onwards
  pc,       \* where each thread is
  g,        \* g[s]: "start value" read by slave s on entry
  i,        \* loop index of the master
  tmp,      \* the master's register inside (*exit)++
  arrived,  \* history: barriers entered, per thread
  left      \* history: barriers returned from, per thread

vars == <<mem, pc, g, i, tmp, arrived, left>>

Init == /\ mem = [w \in Words |-> 0]
        /\ pc = [t \in Threads |-> "run"]
        /\ g = [s \in Slaves |-> 0]
        /\ i = 1
        /\ tmp = 0
        /\ arrived = [t \in Threads |-> 0]
        /\ left = [t \in Threads |-> 0]

Goto(t, label) == pc' = [pc EXCEPT ![t] = label]

\* A thread calls gomp_hal_barrier: the master goes to MSGBarrier_Wait, a
\* slave to MSGBarrier_SlaveEnter.
gomp_hal_barrier(t) ==
  /\ pc[t] = "run"
  /\ arrived[t] < MaxRounds
  /\ arrived' = [arrived EXCEPT ![t] = @ + 1]
  /\ Goto(t, IF t = MASTER THEN "wait" ELSE "read")
  /\ i' = IF t = MASTER THEN 1 ELSE i
  /\ UNCHANGED <<mem, g, tmp, left>>

-----------------------------------------------------------------------------
\* MSGBarrier_SlaveEnter

\* volatile _DTYPE g = *flag;
SlaveRead(s) ==
  /\ pc[s] = "read"
  /\ g' = [g EXCEPT ![s] = mem[SLAVE_FLAG(s)]]
  /\ Goto(s, "notify")
  /\ UNCHANGED <<mem, i, tmp, arrived, left>>

\* *(MASTER_FLAG(myid)) = 1;
SlaveNotify(s) ==
  /\ pc[s] = "notify"
  /\ mem' = [mem EXCEPT ![MASTER_FLAG(s)] = 1]
  /\ Goto(s, "spin")
  /\ UNCHANGED <<g, i, tmp, arrived, left>>

\* while(1) { if (g == *exit) continue; break; }
SlaveExit(s) ==
  /\ pc[s] = "spin"
  /\ g[s] # mem[SLAVE_FLAG(s)]
  /\ left' = [left EXCEPT ![s] = @ + 1]
  /\ Goto(s, "run")
  /\ UNCHANGED <<mem, g, i, tmp, arrived>>

MSGBarrier_SlaveEnter(s) == SlaveRead(s) \/ SlaveNotify(s) \/ SlaveExit(s)

-----------------------------------------------------------------------------
\* MSGBarrier_Wait

\* while( !(*(MASTER_FLAG(curr_proc_id))) ) for slave i, or the loop is over.
WaitPoll ==
  /\ pc[MASTER] = "wait"
  /\ \/ /\ i < N
        /\ mem[MASTER_FLAG(i)] # 0
        /\ Goto(MASTER, "reset")
        /\ i' = i
     \/ /\ i = N
        /\ Goto(MASTER, "load")
        /\ i' = 1
  /\ UNCHANGED <<mem, g, tmp, arrived, left>>

\* Mutant: the master does not reset the flag it has consumed.
Bug_WaitWithoutReset ==
  /\ pc[MASTER] = "reset"
  /\ i' = i + 1
  /\ Goto(MASTER, "wait")
  /\ UNCHANGED <<mem, g, tmp, arrived, left>>

\* Reset flag
WaitReset ==
  /\ pc[MASTER] = "reset"
  /\ mem' = [mem EXCEPT ![MASTER_FLAG(i)] = 0]
  /\ i' = i + 1
  /\ Goto(MASTER, "wait")
  /\ UNCHANGED <<g, tmp, arrived, left>>

MSGBarrier_Wait == WaitPoll \/ WaitReset

-----------------------------------------------------------------------------
\* MSGBarrier_Release: (*exit)++ is a load and a store; the loop ends at i = N.

ReleaseLoad ==
  /\ pc[MASTER] = "load"
  /\ \/ /\ i < N
        /\ tmp' = mem[SLAVE_FLAG(i)]
        /\ Goto(MASTER, "store")
        /\ left' = left
     \/ /\ i = N
        /\ left' = [left EXCEPT ![MASTER] = @ + 1]
        /\ Goto(MASTER, "run")
        /\ tmp' = tmp
  /\ UNCHANGED <<mem, g, i, arrived>>

\* Mutant: the loop over the slaves does not advance.
Bug_ReleaseSameSlave ==
  /\ pc[MASTER] = "store"
  /\ mem' = [mem EXCEPT ![SLAVE_FLAG(i)] = (tmp + 1) % FlagMod]
  /\ Goto(MASTER, "load")
  /\ UNCHANGED <<g, i, tmp, arrived, left>>

ReleaseStore ==
  /\ pc[MASTER] = "store"
  /\ mem' = [mem EXCEPT ![SLAVE_FLAG(i)] = (tmp + 1) % FlagMod]
  /\ i' = i + 1
  /\ Goto(MASTER, "load")
  /\ UNCHANGED <<g, tmp, arrived, left>>

MSGBarrier_Release == ReleaseLoad \/ ReleaseStore

-----------------------------------------------------------------------------
MasterStep == gomp_hal_barrier(MASTER) \/ MSGBarrier_Wait \/ MSGBarrier_Release
SlaveStep(s) == gomp_hal_barrier(s) \/ MSGBarrier_SlaveEnter(s)

\* The team has executed all its barriers: the run is over.
Done == /\ \A t \in Threads : left[t] = MaxRounds
        /\ UNCHANGED vars

Next == \/ MasterStep
        \/ \E s \in Slaves : SlaveStep(s)
        \/ Done

Spec == Init /\ [][Next]_vars

\* Every core is clocked, so each one keeps executing.
FairSpec == Spec /\ WF_vars(MasterStep) /\ \A s \in Slaves : WF_vars(SlaveStep(s))

-----------------------------------------------------------------------------
TypeOK ==
  /\ mem \in [Words -> FlagValues]
  /\ pc \in [Threads -> {"run", "read", "notify", "spin",
                         "wait", "reset", "load", "store"}]
  /\ g \in [Slaves -> FlagValues]
  /\ i \in 1 .. N
  /\ tmp \in FlagValues
  /\ arrived \in [Threads -> Nat]
  /\ left \in [Threads -> Nat]

\* No thread returns from its k-th gomp_hal_barrier before every thread of
\* the team has entered its own k-th call.
BarrierSafety == \A t, u \in Threads : left[t] <= arrived[u]

\* The software barrier implements the abstract team barrier.
Abs == INSTANCE AbstractBarrier
ImplementsBarrier == Abs!Spec

\* Every thread gets out of every barrier of the team: neither the polling
\* master nor a spinning slave ever waits for a flag that has been consumed.
AllLeave == <>(\A t \in Threads : left[t] = MaxRounds)
-----------------------------------------------------------------------------
\* Where the master stands with slave s in its current barrier.
Collected(s) == \/ pc[MASTER] \in {"wait", "reset"} /\ s < i
                \/ pc[MASTER] \in {"load", "store"}
Released(s) == pc[MASTER] \in {"load", "store"} /\ s < i

\* Barriers slave s has been let out of.
ReleasedRounds(s) == left[MASTER] + (IF Released(s) THEN 1 ELSE 0)

\* Slave s is outside a barrier, or inside it and not yet visible to the master.
NotNotified(s) ==
  /\ pc[s] \in {"run", "read", "notify"}
  /\ mem[MASTER_FLAG(s)] = 0
  /\ pc[s] = "notify" => g[s] = mem[SLAVE_FLAG(s)]
  /\ left[s] = ReleasedRounds(s)
  /\ ~Collected(s) \/ Released(s)

\* Slave s has raised its flag; the master has not consumed it.
Notified(s) ==
  /\ pc[s] = "spin"
  /\ mem[MASTER_FLAG(s)] = 1
  /\ g[s] = mem[SLAVE_FLAG(s)]
  /\ left[s] = ReleasedRounds(s)
  /\ ~Collected(s) \/ Released(s)

\* The master has consumed the flag of slave s and has not released it.
Held(s) ==
  /\ pc[s] = "spin"
  /\ mem[MASTER_FLAG(s)] = 0
  /\ g[s] = mem[SLAVE_FLAG(s)]
  /\ left[s] = ReleasedRounds(s)
  /\ Collected(s) /\ ~Released(s)

\* The master has released slave s, which has not looked yet.
LetGo(s) ==
  /\ pc[s] = "spin"
  /\ mem[MASTER_FLAG(s)] = 0
  /\ g[s] # mem[SLAVE_FLAG(s)]
  /\ left[s] + 1 = ReleasedRounds(s)
  /\ ~Collected(s) \/ Released(s)

\* The handshake of slave s with the master is in one of the four phases.
PhaseInv(s) == NotNotified(s) \/ Notified(s) \/ Held(s) \/ LetGo(s)

\* The master's control state agrees with its loop index and the flag it handles.
MasterInv ==
  /\ pc[MASTER] \in {"run", "wait", "reset", "load", "store"}
  /\ pc[MASTER] \in {"reset", "store"} => i < N
  /\ pc[MASTER] = "reset" => mem[MASTER_FLAG(i)] = 1
  /\ pc[MASTER] = "store" => tmp = mem[SLAVE_FLAG(i)]

CallsInv == \A t \in Threads : arrived[t] = left[t] + (IF pc[t] = "run" THEN 0 ELSE 1)

\* The handshake of every slave with the master is in one of its four phases:
\* a flag of MSGBarrier_SlaveEnter is raised, consumed and answered exactly
\* once per barrier.  This is the inductive invariant behind BarrierSafety.
HandshakeInv == MasterInv /\ CallsInv /\ \A s \in Slaves : PhaseInv(s)
==============================================================================
