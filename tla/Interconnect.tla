------------------------------ MODULE Interconnect ------------------------------
(***************************************************************************)
(* The three clocked crossbars of the cluster, which share one scheme: the *)
(* TCDM interconnect "lic" (cl_lic.cpp), the peripheral interconnect "pic" *)
(* (cl_pic.cpp) and the shared instruction crossbar "shi"                  *)
(* (cl_xbar_sharedI.cpp), with the handshake of their slaves (cl_memory,   *)
(* cl_semaphore, cache_module) and of a core's port (libsimsoc).           *)
(*                                                                         *)
(* A clock cycle is a sequence of phases.  At the edge the arbiter, the    *)
(* cores and the slaves run; they read signals of the last cycle, so their *)
(* order does not matter.  Then, some delta cycles later, the state        *)
(* machines and the pollers see the edges, the slaves see the requests,    *)
(* and the cores whose port is free may raise a new one.  TCDM banks and   *)
(* instruction caches have a clock of twice the rate: in the middle of the *)
(* cycle they, and the state machines they wake, run once more.            *)
(* Round-robin scheduling only (XBAR_TCDM_SCHED is 1).                     *)
(***************************************************************************)
EXTENDS Naturals, FiniteSets

CONSTANTS N,         \* number of masters
          Kinds,     \* which crossbars: a subset of {"lic", "pic", "shi"}
          Banks,     \* slave ports
          BankOf,    \* BankOf[a]: the slave port of address a
          LockAddrs, \* lic: test-and-set space; pic: semaphore memory
          Ops,       \* Ops[k][c]: the accesses master c may make through k
          Latency    \* Latency[k]: wait states of the slaves of k

Masters == 0 .. N - 1
Addrs == DOMAIN BankOf
Free == [on |-> FALSE, addr |-> 0, rw |-> FALSE, data |-> 0]
None == 0      \* no lock has address 0

ASSUME ConstantsAssumption ==
  /\ N \in Nat \ {0} /\ Kinds \subseteq {"lic", "pic", "shi"}
  /\ Banks \subseteq Nat /\ IsFiniteSet(Banks)
  /\ Addrs \subseteq Nat \ {0} /\ BankOf \in [Addrs -> Banks] /\ LockAddrs \subseteq Addrs
  /\ \A k \in Kinds : /\ Latency[k] \subseteq Nat
                      /\ \A c \in Masters : Ops[k][c] \subseteq [addr : Addrs, rw : BOOLEAN, data : {0, 1}]

\* How the crossbars are used.  The slaves with the double clock answer in step
\* with the masters; a lock is cleared by writing 0; one master at most uses a
\* test-and-set bank of the lic, for which no exclusion is claimed.  Any number
\* of masters contend for the semaphores, behind the pic.
ASSUME UsageAssumption ==
  /\ \A k \in Kinds \ {"pic"} : \A n \in Latency[k] : n % 2 = 0
  /\ \A k \in Kinds : \A c \in Masters : \A o \in Ops[k][c] :
       k # "shi" /\ o.addr \in LockAddrs /\ o.rw => o.data = 0
  /\ "lic" \in Kinds => \A c, d \in Masters : \A o \in Ops["lic"][c] : \A q \in Ops["lic"][d] :
       o.addr \in LockAddrs /\ BankOf[q.addr] = BankOf[o.addr] => c = d

VARIABLES
  kind,
  phase, todo,          \* position in the cycle; slaves whose machine has not run
  half,                 \* this is the edge in the middle of the cycle
  \* signals and variables of the crossbar
  req, served, poll,    \* per master; poll: what its poller waits for
  table, idc,           \* per slave: masters in req_table, masters in idc_fsm
  busy, go, pending, isTas, next, nextToServe,
  cs,                   \* state of the slave's machine
  request, pinout,      \* request_slave and pinout_slave
  \* slaves and masters
  slave, edge, mem,     \* slave thread, edge of its ready signal, memory
  port, ready,          \* per master: request_core with pinout_core, ready_core
  \* history
  holds,    \* holds[c]: the lock c has read as free and not released
  applied,  \* applied[c]: accesses a slave made for c's present request
  passed    \* passed[c]: grants to others while c's request was waiting

arbVars == <<table, busy, pending, isTas, nextToServe, go>>
vars == <<kind, phase, half, todo, req, served, poll, idc, next, arbVars, cs, request, pinout,
          slave, edge, mem, port, ready, holds, applied, passed>>

Init ==
  /\ kind \in Kinds
  /\ phase = "issue" /\ half = FALSE /\ todo = {}
  /\ req = [c \in Masters |-> FALSE] /\ served = [c \in Masters |-> FALSE]
  /\ poll = [c \in Masters |-> "edge"]
  /\ table = [b \in Banks |-> {}] /\ idc = [b \in Banks |-> {}]
  /\ busy = [b \in Banks |-> FALSE] /\ go = [b \in Banks |-> "off"]
  /\ pending = [b \in Banks |-> FALSE] /\ isTas = [b \in Banks |-> FALSE]
  /\ next = [b \in Banks |-> 0] /\ nextToServe = [b \in Banks |-> 0]
  /\ cs = [b \in Banks |-> "IDLE"]
  /\ request = [b \in Banks |-> FALSE] /\ pinout = [b \in Banks |-> Free]
  /\ slave = [b \in Banks |-> [at |-> "wait", left |-> 0, acc |-> Free]]
  /\ edge = [b \in Banks |-> "none"]
  /\ mem = [a \in Addrs |-> IF a \in LockAddrs THEN 0 ELSE a % 2]   \* the program image
  /\ port = [c \in Masters |-> Free] /\ ready = [c \in Masters |-> FALSE]
  /\ holds = [c \in Masters |-> None]
  /\ applied = [c \in Masters |-> 0] /\ passed = [c \in Masters |-> 0]

------------------------------------------------------------------------------
\* The clock edge.

\* The first member of S at or after position p, going round.
FirstFrom(S, p) ==
  CHOOSE c \in S : \A d \in S : (c + N - (p % N)) % N <= (d + N - (p % N)) % N

\* A poller of the pic that waits for the clock runs at the same edge as the
\* arbiter, before it (early) or after it.
Polled == {c \in Masters : poll[c] = "clock"}
Asking(early) ==
  {c \in Masters : ~served[c] /\ (IF c \in early THEN port[c].on ELSE req[c])}

\* Mutant: multicast in the pic too (PIC_MCAST).
Bug_Multicasts == TRUE

Multicasts == kind \in {"lic", "shi"}

\* The masters the arbiter grants slave b: the first in turn if the slave is
\* free, and those that ask for the same word as it.  Without a grant the
\* compared address is 0 and the compared master 0.
Granted(b, tab) ==
  IF ~busy[b] /\ tab # {} /\ (kind = "shi" => ~pending[b])
  THEN {FirstFrom(tab, nextToServe[b])} ELSE {}
\* Mutant: any read of the slave joins.
Bug_Joined(b, tab, asking) ==
  IF ~Multicasts \/ pending[b] \/ Granted(b, tab) = {} THEN {}
  ELSE {c \in tab \cap asking : ~port[c].rw /\ \A g \in Granted(b, tab) : ~port[g].rw}
Joined(b, tab, asking) ==
  LET grant == Granted(b, tab)
      hpServed == IF grant = {} THEN 0 ELSE CHOOSE c \in grant : TRUE
      hpAddr == IF grant = {} THEN 0 ELSE port[hpServed].addr
      hpRw == IF grant = {} THEN FALSE ELSE port[hpServed].rw
  IN IF ~Multicasts \/ pending[b] \/ hpRw THEN {}
     ELSE {c \in tab \cap asking : c # hpServed /\ ~port[c].rw /\ port[c].addr = hpAddr}

\* The table of slave b with the masters that ask now, and those it is granted to.
Tab(early, b) == table[b] \cup {c \in Asking(early) : BankOf[port[c].addr] = b}
New(early, b) == Granted(b, Tab(early, b)) \cup Joined(b, Tab(early, b), Asking(early))

\* The clock of the banks and caches, between two edges of the arbiter's.
DoubleClock == kind \in {"lic", "shi"}
HalfEdge ==
  /\ phase = "issue" /\ DoubleClock
  /\ phase' = "slaves" /\ half' = TRUE
  /\ UNCHANGED <<kind, todo, req, served, poll, idc, next, arbVars, cs, request, pinout,
                 slave, edge, mem, port, ready, holds, applied, passed>>

\* arbiter()
Arbiter ==
  /\ phase = (IF DoubleClock THEN "edge" ELSE "issue")
  /\ half' = FALSE
  /\ \E early \in SUBSET Polled :
       /\ table' = [b \in Banks |-> Tab(early, b)]
       /\ isTas' = [b \in Banks |-> kind = "lic" /\ \E c \in Asking(early) :
                      port[c].addr \in LockAddrs /\ ~port[c].rw /\ BankOf[port[c].addr] = b]
       /\ idc' = [b \in Banks |-> idc[b] \cup New(early, b)]
       /\ served' = [c \in Masters |-> served[c] \/ \E b \in Banks : c \in New(early, b)]
       /\ nextToServe' = [b \in Banks |-> IF Granted(b, Tab(early, b)) = {} THEN nextToServe[b]
                            ELSE FirstFrom(Tab(early, b), nextToServe[b]) + 1]
       /\ pending' = [b \in Banks |-> {c \in Tab(early, b) \ (idc[b] \cup New(early, b)) :
                                         kind = "shi" \/ ~served[c]} # {}]
       /\ busy' = [b \in Banks |-> busy[b] \/ Tab(early, b) # {}]
       /\ go' = [b \in Banks |-> IF Tab(early, b) = {} THEN "off"
                                 ELSE IF go[b] = "off" THEN "rise" ELSE "on"]
       /\ passed' = [c \in Masters |-> passed[c] +
            Cardinality({b \in Banks : /\ c \in Tab(early, b) \ New(early, b)
                                       /\ c \notin idc[b] /\ New(early, b) # {}})]
  /\ req' = [c \in Masters |-> IF c \in Polled THEN port[c].on ELSE req[c]]
  /\ poll' = [c \in Masters |-> IF c \notin Polled THEN poll[c]
                                ELSE IF port[c].on THEN "served" ELSE "edge"]
  /\ phase' = "cores"
  /\ UNCHANGED <<kind, todo, next, cs, request, pinout, slave, edge, mem, port, ready,
                 holds, applied>>

\* working_processD(): a master that sees ready takes the answer and lowers
\* its request.  A read of a lock that answers 0 has acquired it.
Took(c) == ready[c] /\ port[c].on
IsLock(a) == kind # "shi" /\ a \in LockAddrs
Cores ==
  /\ phase = "cores"
  /\ port' = [c \in Masters |-> IF Took(c) THEN [port[c] EXCEPT !.on = FALSE] ELSE port[c]]
  /\ holds' = [c \in Masters |->
                 IF ~Took(c) \/ ~IsLock(port[c].addr) THEN holds[c]
                 ELSE IF ~port[c].rw /\ port[c].data = 0 THEN port[c].addr ELSE holds[c]]
  /\ applied' = [c \in Masters |-> IF Took(c) THEN 0 ELSE applied[c]]
  /\ passed' = [c \in Masters |-> IF Took(c) THEN 0 ELSE passed[c]]
  /\ phase' = "slaves"
  /\ UNCHANGED <<kind, half, todo, req, served, poll, idc, next, arbVars, cs, request, pinout,
                 slave, edge, mem, ready>>

\* working() of cl_memory and cl_semaphore, from its clocked wait: count the
\* wait states, make the access and raise ready; lower it one cycle later.
\* A bank takes the word to write from the port at that moment; a read of the
\* semaphore memory sets the word (Semaphore_mem, external).
Accessing(b) == slave[b].at = "sampled" /\ slave[b].left = 0
Slaves ==
  /\ phase = "slaves"
  /\ edge' = [b \in Banks |-> IF Accessing(b) THEN "up"
                              ELSE IF slave[b].at = "answered" THEN "down" ELSE "none"]
  /\ slave' = [b \in Banks |->
                 CASE Accessing(b) -> [slave[b] EXCEPT !.at = "answered"]
                   [] slave[b].at = "answered" -> [slave[b] EXCEPT !.at = "wait", !.acc = Free]
                   [] slave[b].at = "sampled" /\ slave[b].left > 0 ->
                        [slave[b] EXCEPT !.left = @ - 1]
                   [] OTHER -> slave[b]]
  /\ pinout' = [b \in Banks |-> IF Accessing(b) /\ ~slave[b].acc.rw
                                THEN [slave[b].acc EXCEPT !.data = mem[slave[b].acc.addr]]
                                ELSE pinout[b]]
  /\ mem' = [a \in Addrs |->
               LET b == BankOf[a] IN
               IF ~Accessing(b) \/ slave[b].acc.addr # a THEN mem[a]
               ELSE IF slave[b].acc.rw THEN pinout[b].data
               ELSE IF kind = "pic" /\ a \in LockAddrs THEN 1 ELSE mem[a]]
  /\ applied' = [c \in Masters |->
                   applied[c] + Cardinality({b \in Banks : Accessing(b) /\ c \in idc[b]})]
  /\ phase' = "fsm" /\ todo' = Banks
  /\ UNCHANGED <<kind, half, req, served, poll, idc, next, arbVars, cs, request, port, ready,
                 holds, passed>>

------------------------------------------------------------------------------
\* The state machine of slave b, in the delta cycles after the edge.

\* Answering the masters being served, when the slave raises ready: of the
\* pins written to a master's port, it uses the data.
Answer(b, word) ==
  /\ port' = [c \in Masters |-> IF c \in idc[b] THEN [port[c] EXCEPT !.data = word] ELSE port[c]]
  /\ ready' = [c \in Masters |-> ready[c] \/ c \in idc[b]]

\* Mutant: the next master without a look at the table.
Bug_NextPending(b) == (next[b] + 1) % N

NextPending(b) ==     \* the next master in turn that is left in the table
  LET left == table[b] \ idc[b] IN
  IF left = {} THEN next[b] ELSE FirstFrom(left, next[b] + 1)

\* Mutant: the poller does not look at the request again.
Bug_Repoll(c) == "served"
Repoll(c) ==
  CASE kind = "lic" -> "edge"
    [] kind = "pic" -> "clock"
    [] kind = "shi" -> IF port[c].on THEN "served" ELSE "edge"

\* Clearing the masters served, when the slave lowers ready, and going to
\* IDLE or serving the next pending one.  served and req fall; the pollers
\* that wait for served go on: those of the lic wait for the next rising edge
\* of the request, those of the pic for the clock, those of the shi look at
\* the request again.
Finish(b, chain) ==
  LET done == idc[b]
      nx == NextPending(b)
      chained == chain /\ pending[b]
  IN /\ ready' = [c \in Masters |-> ready[c] /\ c \notin done]
     /\ req' = [c \in Masters |-> IF c \in done THEN kind = "shi" /\ port[c].on ELSE req[c]]
     /\ poll' = [c \in Masters |-> IF c \in done /\ served[c] THEN Repoll(c) ELSE poll[c]]
     /\ table' = [table EXCEPT ![b] = @ \ done]
     /\ idc' = [idc EXCEPT ![b] = IF chained THEN {nx} ELSE {}]
     /\ served' = [c \in Masters |-> \/ served[c] /\ c \notin done
                                     \/ chained /\ c = nx]
     /\ request' = [request EXCEPT ![b] = chained]
     /\ IF chained
        THEN /\ next' = [next EXCEPT ![b] = nx]
             /\ nextToServe' = [nextToServe EXCEPT ![b] = nx]
             /\ pinout' = [pinout EXCEPT ![b] = port[nx]]
             /\ cs' = [cs EXCEPT ![b] = IF port[nx].rw THEN "WRITE" ELSE "READ"]
             /\ passed' = [c \in Masters |-> IF c \in table[b] \ (done \cup {nx})
                                             THEN passed[c] + 1 ELSE passed[c]]
             /\ UNCHANGED <<busy, go>>
        ELSE /\ busy' = [busy EXCEPT ![b] = FALSE]
             /\ go' = [go EXCEPT ![b] = "off"]
             /\ cs' = [cs EXCEPT ![b] = "IDLE"]
             /\ UNCHANGED <<next, nextToServe, pinout, passed>>
     /\ UNCHANGED <<pending, isTas, port>>

\* What is left alone unless a step below says otherwise.
Rest == <<kind, phase, half, slave, edge, mem, holds, applied>>
Turn(b) == phase = "fsm" /\ b \in todo /\ (\A x \in todo : b <= x) /\ todo' = todo \ {b}

Start(b) ==      \* IDLE, on the rising edge of go_fsm
  /\ Turn(b) /\ cs[b] = "IDLE" /\ go[b] = "rise"
  /\ LET word == port[FirstFrom(idc[b], 0)] IN
     /\ pinout' = [pinout EXCEPT ![b] = word]
     /\ cs' = [cs EXCEPT ![b] = IF word.rw THEN "WRITE"
                                ELSE IF isTas[b] THEN "TAS" ELSE "READ"]
  /\ request' = [request EXCEPT ![b] = TRUE]
  /\ go' = [go EXCEPT ![b] = "on"]
  /\ UNCHANGED <<Rest, req, served, poll, table, busy, pending, isTas, nextToServe, idc, next,
                 port, ready, passed>>

Read(b) ==
  /\ Turn(b) /\ cs[b] = "READ"
  /\ \/ /\ edge[b] = "up" /\ Answer(b, pinout[b].data)
        /\ UNCHANGED <<req, served, poll, arbVars, idc, next, cs, request, pinout, passed>>
     \/ edge[b] = "down" /\ Finish(b, TRUE)
  /\ UNCHANGED Rest

Write(b) ==
  /\ Turn(b) /\ cs[b] = "WRITE"
  /\ \/ /\ edge[b] = "up" /\ ready' = [c \in Masters |-> ready[c] \/ c \in idc[b]]
        /\ UNCHANGED <<port, req, served, poll, arbVars, idc, next, cs, request, pinout, passed>>
     \/ edge[b] = "down" /\ Finish(b, TRUE)
  /\ UNCHANGED Rest

\* TAS: keep the word read; when ready falls turn the request, which stays
\* up, into a write of 1; answer the kept word when that is done.  Pending
\* requests are left to the arbiter.
Tas(b) ==
  /\ Turn(b)
  /\ \/ /\ cs[b] = "TAS" /\ edge[b] = "down"
        /\ pinout' = [pinout EXCEPT ![b].data = 1, ![b].rw = TRUE]
        /\ cs' = [cs EXCEPT ![b] = IF pinout[b].data = 0 THEN "SET0" ELSE "SET1"]
        /\ UNCHANGED <<port, ready, req, served, poll, arbVars, idc, next, request, passed>>
     \/ /\ cs[b] \in {"SET0", "SET1"} /\ edge[b] = "up"
        /\ Answer(b, IF cs[b] = "SET0" THEN 0 ELSE 1)
        /\ UNCHANGED <<req, served, poll, arbVars, idc, next, cs, request, pinout, passed>>
     \/ cs[b] \in {"SET0", "SET1"} /\ edge[b] = "down" /\ Finish(b, FALSE)
  /\ UNCHANGED Rest

\* No event for the machine in this cycle.
Sleep(b) ==
  /\ Turn(b)
  /\ \/ cs[b] = "IDLE" /\ go[b] # "rise"
     \/ cs[b] \in {"READ", "WRITE", "SET0", "SET1"} /\ edge[b] = "none"
     \/ cs[b] = "TAS" /\ edge[b] # "down"
  /\ go' = [go EXCEPT ![b] = IF @ = "rise" THEN "on" ELSE @]
  /\ UNCHANGED <<Rest, req, served, poll, table, busy, pending, isTas, nextToServe, idc, next,
                 cs, request, pinout, port, ready, passed>>

Fsm(b) == Start(b) \/ Read(b) \/ Write(b) \/ Tas(b) \/ Sleep(b)

\* The slaves that wait for a request see it, two delta cycles later.
Sample ==
  /\ phase = "fsm" /\ todo = {}
  /\ \E n \in [Banks -> Latency[kind]] :
       /\ \A b \in Banks : (slave[b].at = "wait" /\ request[b]) \/ n[b] = 0
       /\ slave' = [b \in Banks |-> IF slave[b].at = "wait" /\ request[b]
                                    THEN [at |-> "sampled", left |-> n[b], acc |-> pinout[b]]
                                    ELSE slave[b]]
  /\ phase' = (IF half THEN "edge" ELSE "issue")
  /\ UNCHANGED <<kind, half, todo, req, served, poll, idc, next, arbVars, cs, request, pinout,
                 edge, mem, port, ready, holds, applied, passed>>

\* A master raises a request: programs read a lock they do not hold and
\* clear one they hold.  The poller sees the rising edge if it waits for it.
MayIssue(c, op) ==
  IF ~IsLock(op.addr) THEN TRUE
  ELSE IF op.rw THEN holds[c] = op.addr ELSE holds[c] = None
Issue(c, op) ==
  /\ phase = "issue" /\ ~port[c].on
  /\ MayIssue(c, op)
  /\ port' = [port EXCEPT ![c] = [on |-> TRUE, addr |-> op.addr, rw |-> op.rw, data |-> op.data]]
  /\ holds' = [holds EXCEPT ![c] = IF IsLock(op.addr) /\ op.rw THEN None ELSE @]
  /\ req' = [req EXCEPT ![c] = @ \/ poll[c] = "edge"]
  /\ poll' = [poll EXCEPT ![c] = IF @ = "edge" THEN "served" ELSE @]
  /\ UNCHANGED <<kind, phase, half, todo, served, idc, next, arbVars, cs, request, pinout,
                 slave, edge, mem, ready, applied, passed>>

Cycle == HalfEdge \/ Arbiter \/ Cores \/ Slaves \/ (\E b \in Banks : Fsm(b)) \/ Sample
Next == Cycle \/ \E c \in Masters : \E op \in Ops[kind][c] : Issue(c, op)

\* The clock does not stop; whether a master asks again is up to its program.
Spec == Init /\ [][Next]_vars /\ WF_vars(Cycle)

------------------------------------------------------------------------------
Word == [on : BOOLEAN, addr : Addrs \cup {0}, rw : BOOLEAN, data : {0, 1}]

\* The types of the variables.
TypeOK ==
  /\ kind \in Kinds /\ phase \in {"edge", "cores", "slaves", "fsm", "issue"} /\ half \in BOOLEAN
  /\ todo \subseteq Banks
  /\ req \in [Masters -> BOOLEAN] /\ served \in [Masters -> BOOLEAN]
  /\ poll \in [Masters -> {"edge", "served", "clock"}]
  /\ table \in [Banks -> SUBSET Masters] /\ idc \in [Banks -> SUBSET Masters]
  /\ busy \in [Banks -> BOOLEAN] /\ go \in [Banks -> {"off", "rise", "on"}]
  /\ pending \in [Banks -> BOOLEAN] /\ isTas \in [Banks -> BOOLEAN]
  /\ next \in [Banks -> Masters] /\ nextToServe \in [Banks -> 0 .. N]
  /\ cs \in [Banks -> {"IDLE", "READ", "WRITE", "TAS", "SET0", "SET1"}]
  /\ request \in [Banks -> BOOLEAN] /\ pinout \in [Banks -> Word]
  /\ slave \in [Banks -> [at : {"wait", "sampled", "answered"}, left : Nat, acc : Word]]
  /\ edge \in [Banks -> {"none", "up", "down"}] /\ mem \in [Addrs -> {0, 1}]
  /\ port \in [Masters -> Word] /\ ready \in [Masters -> BOOLEAN]
  /\ holds \in [Masters -> Addrs \cup {None}]
  /\ applied \in [Masters -> 0 .. 2] /\ passed \in [Masters -> Nat]

\* Accesses a slave makes for a request: a test-and-set of the lic is two.
Accesses(c) == IF kind = "lic" /\ IsLock(port[c].addr) /\ ~port[c].rw THEN 2 ELSE 1

\* A master that sees ready has had its own request done, once: a read
\* brings the word of its address, a write has arrived.  It sees ready at the
\* edge after the access, at which the slave lowers it again and another
\* master is put before the slave.
OwnAnswer ==
  phase = "cores" => \A c \in Masters : Took(c) =>
    /\ applied[c] = Accesses(c)
    /\ IF IsLock(port[c].addr) /\ ~port[c].rw THEN mem[port[c].addr] = 1
       ELSE mem[port[c].addr] = port[c].data

\* The lists of the arbiter and of the state machines agree: a master is
\* served only where it asks and in one place; a machine that is woken, or at
\* work, has somebody to serve; a slave that is not busy has nobody being
\* served and, once the arbiter has looked, nobody waiting.
ListsAgree ==
  /\ \A b \in Banks :
       /\ idc[b] \subseteq table[b]
       /\ \A c \in table[b] : port[c].on \/ ready[c]
       /\ \A d \in Banks \ {b} : table[b] \cap table[d] = {}
       /\ cs[b] # "IDLE" \/ go[b] = "rise" => idc[b] # {} /\ busy[b]
       /\ ~busy[b] => idc[b] = {}
  /\ phase = "cores" => \A b \in Banks :
       pending[b] = (table[b] \ idc[b] # {}) /\ busy[b] = (table[b] # {})

\* No request is lost between the pollers and the arbiter: a request that is
\* up is in req, or its poller will look at it at the next edge, or it is just
\* being answered.
RequestSeen == \A c \in Masters : port[c].on => req[c] \/ poll[c] = "clock" \/ ready[c]

\* Pollers, arbiter and machines, which hand a request on in different deltas of
\* the cycle, never disagree about it.
ListsSound == TypeOK /\ ListsAgree /\ RequestSeen

\* A master owns a lock word: it holds the lock, or is about to be told so, or
\* its release is on the way.
Winning(c, a) ==
  /\ port[c].on /\ port[c].addr = a /\ ~port[c].rw /\ applied[c] = Accesses(c)
  /\ IF ready[c] THEN port[c].data = 0
     ELSE IF kind = "lic" THEN cs[BankOf[a]] = "SET0" ELSE pinout[BankOf[a]].data = 0
Releasing(c, a) == port[c].on /\ port[c].addr = a /\ port[c].rw /\ applied[c] = 0
OwnersOf(a) == {c \in Masters : holds[c] = a \/ Winning(c, a) \/ Releasing(c, a)}

\* A word of the semaphore memory is set exactly when one of the masters that
\* contend for it owns it (TEST_AND_SET and SIGNAL of appsupport.c).  More
\* owners than one break exclusion; a set word without owner is never free again.
SemaphoresAccounted ==
  kind = "pic" => \A a \in LockAddrs : mem[a] = Cardinality(OwnersOf(a))

\* Round robin keeps its promise although the arbiter and the machine each
\* have a pointer of their own (next_to_serve, next) and the machine sets the
\* arbiter's: while a master waits at a slave, the slave is granted to others
\* at most N times.
BoundedBypass == \A c \in Masters : passed[c] <= N

\* Every request is answered, under the clock alone.
Answered == \A c \in Masters : port[c].on ~> ~port[c].on

\* Every master is served, and in its turn.
Served == []BoundedBypass /\ Answered
=============================================================================
