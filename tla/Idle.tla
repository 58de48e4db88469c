--------------------------------- MODULE Idle ---------------------------------
(***************************************************************************)
(* How a core goes to sleep and wakes: the addresses of the simulation     *)
(* support (sim_support.cpp, appsupport.c), the threads idle_mngr and      *)
(* sync_mngr of the hardware synchroniser, which drive the interrupt line  *)
(* of each core, its stop and wake-up by events (module HWS), and the      *)
(* port of the core, which fetches nothing while the line is up.           *)
(*                                                                         *)
(* Edge is a clock edge: the threads sync_mngr, idle_mngr, signal, notify  *)
(* and programme of cl_hws run in this order, and the last write of a line *)
(* holds.  Between two edges the cores run, and their messages take effect *)
(* at once; a core is answered at the next edge.                           *)
(***************************************************************************)
EXTENDS Naturals, FiniteSets

CONSTANTS Cores,    \* N_CORES of them
          Wakers,   \* what wakes cores: a subset of {"messages", "events"}
          MaxSyncs  \* bound: calls of sync_cores by a core

ASSUME ConstantsAssumption ==
  /\ IsFiniteSet(Cores) /\ Cores # {} /\ MaxSyncs \in Nat
  /\ Wakers \subseteq {"messages", "events"}

VARIABLES
  waker,      \* programs use wake_up and wake_all, or the events of the HWS
  at, op,     \* at[c]: "run", or in access op[c]: "wait" for the answer, "answered"
  stop, idle, \* the cores with ARM11_STOP, with ARM11_IDLE
  line,       \* the cores whose line slave_int is up
  event,      \* event[c]: a notify on its way: "asked", "stop" (next edge), "in"
  mngr,       \* sync_mngr: "scan", or "release" at the next edge
  sent, idle_cores, \* sent_idle; idle_cores
  \* history
  entered, left, \* calls of sync_cores by each core, and returns
  rounds,        \* synchronisations done
  called         \* cores that were stopped when they were woken and have not run since

syncVars == <<idle, mngr, sent, idle_cores, entered, rounds>>
vars == <<waker, at, op, stop, line, event, left, called, syncVars>>

Init ==
  /\ waker \in Wakers
  /\ at = [c \in Cores |-> "run"] /\ op = [c \in Cores |-> "none"]
  /\ stop = {} /\ idle = {} /\ line = {}
  /\ event = [c \in Cores |-> "none"]
  /\ mngr = "scan" /\ sent = {} /\ idle_cores = 0
  /\ entered = [c \in Cores |-> 0] /\ left = [c \in Cores |-> 0]
  /\ rounds = 0 /\ called = {}

------------------------------------------------------------------------------
\* The cores.

Access(c, what) ==
  /\ at[c] = "run"
  /\ at' = [at EXCEPT ![c] = "wait"] /\ op' = [op EXCEPT ![c] = what]

StopCore(c) ==
  /\ Access(c, "stop") /\ waker = "messages"
  /\ stop' = stop \union {c}
  /\ UNCHANGED <<waker, line, event, left, called, syncVars>>

SyncCores(c) ==
  /\ Access(c, "sync") /\ entered[c] < MaxSyncs
  /\ idle' = idle \union {c}
  /\ entered' = [entered EXCEPT ![c] = @ + 1]
  /\ UNCHANGED <<waker, stop, line, event, left, called, mngr, sent, idle_cores, rounds>>

\* wake_up one core or wake_all: a core that is not stopped does not notice.
WakeUp(c, S) ==
  /\ Access(c, "wake") /\ waker = "messages"
  /\ stop' = stop \ S
  /\ called' = called \union (S \cap stop)
  /\ UNCHANGED <<waker, line, event, left, syncVars>>

\* notify_event of the HWS: stopped by it until the event fires.
NotifyEvent(c) ==
  /\ Access(c, "event") /\ waker = "events"
  /\ event' = [event EXCEPT ![c] = "asked"]
  /\ UNCHANGED <<waker, stop, line, left, called, syncVars>>

\* The next fetch after an answer, once the line is down.
Continue(c) ==
  /\ at[c] = "answered" /\ c \notin line
  /\ at' = [at EXCEPT ![c] = "run"] /\ op' = [op EXCEPT ![c] = "none"]
  /\ left' = IF op[c] = "sync" THEN [left EXCEPT ![c] = @ + 1] ELSE left
  /\ called' = called \ {c}
  /\ UNCHANGED <<waker, stop, line, event, syncVars>>

------------------------------------------------------------------------------
\* A clock edge.

Fresh == idle \ sent

Zero == 0

Scan ==
  /\ mngr = "scan"
  /\ sent' = sent \union Fresh
  /\ idle_cores' = idle_cores + Cardinality(Fresh)
  /\ mngr' = IF idle_cores' = Cardinality(Cores) THEN "release" ELSE "scan"
  /\ UNCHANGED <<idle, rounds>>

Release ==
  /\ mngr = "release" /\ mngr' = "scan"
  /\ sent' = {} /\ idle_cores' = Zero /\ idle' = {}
  /\ rounds' = rounds + 1

\* Mutant: only ARM11_STOP drives the line.
Bug_IdleLine(i) == stop

\* Mutant: only ARM11_IDLE drives the line.
Bug_StopLine(i) == i

\* Mutant: a line is raised by a flag, and not lowered without.
Bug_HeldLine(i) == line \union stop \union i

\* What idle_mngr writes to the lines, over the writes of sync_mngr.
IdleLine(i) == stop \union i

\* Mutant: programme and notify wake before signal stops.
Bug_AfterEvents(S, stopping, woken) == (S \ woken) \union stopping

\* signal stops cores, and then notify and programme wake those of the mask.
AfterEvents(S, stopping, woken) == (S \union stopping) \ woken

Answer(c) ==
  IF at[c] = "wait" /\ event[c] # "asked" THEN "answered" ELSE at[c]

\* accepted: requests signal takes; woken: the cores of an event that fires,
\* which have all been accepted, the last one an edge ago.
Edge(accepted, woken) ==
  LET stopping == {c \in Cores : event[c] = "stop"}
  IN /\ accepted \subseteq {c \in Cores : event[c] = "asked"}
     /\ woken \subseteq {c \in Cores : event[c] \in {"stop", "in"}}
     /\ Scan \/ Release
     /\ stop' = AfterEvents(stop, stopping, woken)
     /\ line' = AfterEvents(IdleLine(idle'), stopping, woken)
     /\ event' = [c \in Cores |->
          CASE c \in accepted -> "stop"
            [] c \in woken -> "none"
            [] c \in stopping \ woken -> "in"
            [] OTHER -> event[c]]
     /\ called' = called \union woken
     /\ at' = [c \in Cores |-> IF c \in accepted THEN "wait" ELSE Answer(c)]
     /\ UNCHANGED <<waker, op, entered, left>>

Clock == \E accepted, woken \in SUBSET Cores : Edge(accepted, woken)

Next ==
  \/ Clock
  \/ \E c \in Cores :
       \/ StopCore(c) \/ SyncCores(c) \/ NotifyEvent(c) \/ Continue(c)
       \/ WakeUp(c, Cores) \/ \E d \in Cores : WakeUp(c, {d})

\* The clock runs, and a core that is not held goes on.
Spec == Init /\ [][Next]_vars /\ WF_vars(Clock) /\ \A c \in Cores : WF_vars(Continue(c))

------------------------------------------------------------------------------
TypeOK ==
  /\ waker \in {"messages", "events"}
  /\ at \in [Cores -> {"run", "wait", "answered"}]
  /\ op \in [Cores -> {"none", "stop", "sync", "wake", "event"}]
  /\ stop \subseteq Cores /\ idle \subseteq Cores /\ line \subseteq Cores
  /\ event \in [Cores -> {"none", "asked", "stop", "in"}]
  /\ mngr \in {"scan", "release"} /\ sent \subseteq Cores
  /\ idle_cores \in 0 .. Cardinality(Cores)
  /\ entered \in [Cores -> Nat] /\ left \in [Cores -> Nat]
  /\ rounds \in Nat /\ called \subseteq Cores

\* No core leaves its k-th sync_cores before every core has entered its k-th:
\* also when the line is driven by two threads at the same edge, and when other
\* cores stop and are woken meanwhile.
SyncTogether == \A c, d \in Cores : left[c] <= entered[d]

\* idle_cores, which decides the release, counts the cores seen idle since the
\* last one, each once.
IdleCount == idle_cores = Cardinality(sent) /\ sent \subseteq idle

\* A synchronisation holds all cores together, and by a count that is right.
SyncSound == TypeOK /\ IdleCount /\ SyncTogether

\* A core that stopped itself, or that an event stopped, runs again only after
\* it has been woken while stopped.
Asleep(c) == at[c] # "run" /\ op[c] \in {"stop", "event"}
SleepsUntilWoken == [][\A c \in Cores : Asleep(c) /\ ~Asleep(c)' => c \in called]_vars

\* A core that was woken while it was stopped runs.
WokenRuns == \A c \in Cores : (c \in called) ~> (c \notin called)

\* When all have entered a synchronisation each core leaves it.
InSync(c) == at[c] # "run" /\ op[c] = "sync"
SyncEnds == \A c \in Cores :
  (InSync(c) /\ \A d \in Cores : entered[d] >= entered[c]) ~> ~InSync(c)
=============================================================================
