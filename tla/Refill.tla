-------------------------------- MODULE Refill --------------------------------
(***************************************************************************)
(* The way from the instruction caches and the data ports to the L3        *)
(* memory: the cache refill unit (cl_cru.cpp), which keeps the lines       *)
(* fetched last for all cores, the multiplexer of the L3 ports             *)
(* (cl_L3_mux_NM.cpp) and, in the platform with a shared cache, the one of *)
(* its banks (cl_miss_mux.cpp), which is the same machine with one port    *)
(* and twice the clock.                                                    *)
(*                                                                         *)
(* Full and Half are the edges of a cycle; what a change of ready or of    *)
(* go_fsm sets off in the deltas after an edge is done port by port, in    *)
(* any order (Settle), before the next edge.                               *)
(***************************************************************************)
EXTENDS Integers, FiniteSets

CONSTANTS Setups,  \* records [mux, depth, static, ports]: "L3" or "miss", CRU_DEPTH (0
                   \* without ENABLE_CRU), L3_MUX_STATIC_MAP, DRAM_MC_PORTS
          N, D,    \* instruction caches and data ports of the multiplexer
          Lines,   \* addresses of cache lines
          Burst,   \* words of a line (4 in the code)
          MaxWait  \* bound on the wait states of the memory

ASSUME ConstantsAssumption ==
  /\ N \in Nat \ {0} /\ D \in Nat /\ 0 \in Lines /\ Lines \subseteq Nat /\ Burst \in Nat \ {0}
  /\ \A s \in Setups : s.ports \in Nat \ {0} /\ s.depth \in Nat /\ (s.mux = "miss" => s.ports = 1 /\ s.depth = 0)

Count == N + D
Masters == 0 .. Count - 1
None == -1
NoWord == [line |-> 0, rw |-> FALSE]
Idle == [at |-> "idle", line |-> 0, beat |-> 0, fill |-> FALSE]

VARIABLES
  setup,
  half,      \* the next edge is the one in the middle of a cycle
  todo,      \* ports whose machine has an event to handle
  request, ask, \* request of a master and the line and direction asked for (reset after it)
  got,       \* words of it the master has taken
  ready, pin,   \* ready of a master and the word on its port (reset after it)
  cru,       \* state machines of the refill unit
  requestL3, \* request_L3 of the refill unit
  buffer,    \* buffer[i][k]: the line whose k-th word is in miss_buffer[i][k]
  currLine,  \* curr_buff_line
  req, served, done, poll, \* per master; poll is what req_polling waits for
  table, busy, idc, next, go, \* per port: req_table, busy_fsm, idc_fsm, next_to_serve, go_fsm
  fsm,       \* fsm[p]: state and beat of the machine of port p
  mem,       \* the memory behind port p; up: ready_from_L3
  \* history
  passed     \* grants to others since the master has been booked

cruVars == <<cru, requestL3, buffer, currLine>>
muxVars == <<req, served, done, poll, table, busy, idc, next, passed>>
vars == <<setup, half, todo, request, ask, got, ready, pin, cruVars, muxVars, go, fsm, mem>>

Ports == 0 .. setup.ports - 1
Caches == IF setup.mux = "miss" THEN Masters ELSE 0 .. N - 1
Slots == 0 .. setup.depth - 1
ByCru == IF setup.depth > 0 THEN Caches ELSE {}
Length(m) == IF m \in Caches THEN Burst ELSE 1
Word(line, beat) == line * Burst + beat

Init ==
  /\ setup \in Setups
  /\ half = FALSE /\ todo = {}
  /\ request = [m \in Masters |-> FALSE] /\ ask = [m \in Masters |-> NoWord]
  /\ got = [m \in Masters |-> 0]
  /\ ready = [m \in Masters |-> FALSE] /\ pin = [m \in Masters |-> None]
  /\ cru = [m \in Masters |-> Idle]
  /\ requestL3 = [m \in Masters |-> FALSE]
  /\ buffer = [i \in Slots |-> [k \in 0 .. Burst - 1 |-> None]] /\ currLine = 0
  /\ req = [m \in Masters |-> FALSE] /\ served = req /\ done = req
  /\ poll = [m \in Masters |-> "request"] /\ passed = [m \in Masters |-> 0]
  /\ table = [p \in Ports |-> {}] /\ busy = [p \in Ports |-> FALSE]
  /\ idc = [p \in Ports |-> 0] /\ next = idc /\ go = busy
  /\ fsm = [p \in Ports |-> [at |-> "idle", beat |-> 0]]
  /\ mem = [p \in Ports |-> [at |-> "idle", line |-> 0, beat |-> 0, left |-> 0, up |-> FALSE]]

------------------------------------------------------------------------------
\* The refill unit.

\* IsInMissBuffer: the buffer lines that hold the whole cache line.
IsInMissBuffer(line) == {i \in Slots : \A k \in 0 .. Burst - 1 : buffer[i][k] = line}

\* IDLE, on the rising edge of the cache's request.
Look(m) ==
  LET hits == IsInMissBuffer(ask'[m].line)
  IN IF hits # {}
     THEN /\ cru' = [cru EXCEPT ![m] = [at |-> "hit", beat |-> 0, fill |-> FALSE,
                                        line |-> CHOOSE i \in hits : \A j \in hits : i <= j]]
          /\ UNCHANGED <<requestL3, buffer, currLine>>
     ELSE /\ cru' = [cru EXCEPT ![m] = [at |-> "miss", beat |-> 0, fill |-> FALSE, line |-> 0]]
          /\ requestL3' = [requestL3 EXCEPT ![m] = TRUE]
          /\ UNCHANGED <<buffer, currLine>>

Reading == {m \in Masters : cru[m].at = "hit"}
\* Mutant: one more wait between two words.
Bug_Hit(m) ==
  LET x == cru[m] IN
  IF ~ready[m] /\ ~x.fill THEN [x |-> [x EXCEPT !.fill = TRUE], up |-> FALSE]
  ELSE IF ~ready[m] THEN [x |-> [x EXCEPT !.fill = FALSE], up |-> TRUE]
  ELSE [x |-> IF x.beat + 1 < Burst THEN [x EXCEPT !.beat = @ + 1] ELSE Idle, up |-> FALSE]
\* HIT, on a clock edge: ready goes up with a word, or down after it.
Hit(m) ==
  LET x == cru[m] IN
  IF ~ready[m] THEN [x |-> x, up |-> TRUE]
  ELSE [x |-> IF x.beat + 1 < Burst THEN [x EXCEPT !.beat = @ + 1] ELSE Idle, up |-> FALSE]
HitPin(m) ==
  IF Hit(m).up THEN Word(buffer[cru[m].line][cru[m].beat], cru[m].beat) ELSE None

\* MISS: does the word of m go into the buffer?
Fills(m) == IsInMissBuffer(ask[m].line) = {}

\* MISS, ready_L3 goes up.
Fill(m) ==
  LET k == cru[m].beat
      fill == Fills(m)
  IN /\ cru' = [cru EXCEPT ![m].fill = fill]
     /\ buffer' = IF fill THEN [buffer EXCEPT ![currLine][k] = ask[m].line] ELSE buffer
     /\ UNCHANGED <<requestL3, currLine>>

NextLine == (currLine + 1) % setup.depth

\* MISS, ready_L3 goes down.
Lower(m) ==
  /\ requestL3' = [requestL3 EXCEPT ![m] = FALSE]
  /\ IF cru[m].beat + 1 < Burst
     THEN cru' = [cru EXCEPT ![m].beat = @ + 1] /\ UNCHANGED currLine
     ELSE /\ cru' = [cru EXCEPT ![m] = Idle]
          /\ currLine' = IF cru[m].fill THEN NextLine ELSE currLine
  /\ UNCHANGED buffer

------------------------------------------------------------------------------
\* The multiplexer.

\* req_polling, on a rising edge of the request: nobody looks while the
\* previous one is being served.
Seen(m) ==
  IF poll[m] = "request"
  THEN req' = [req EXCEPT ![m] = TRUE] /\ poll' = [poll EXCEPT ![m] = "served"]
  ELSE UNCHANGED <<req, poll>>

\* GetMyPortId: the ports a master is booked for.
Books(p, m) ==
  setup.static => p = (IF m >= Count \div 2 THEN m - Count \div 2 ELSE m) % setup.ports

\* Mutant: fixed priority.
Bug_FirstFrom(S, n) == CHOOSE m \in S : \A k \in S : m <= k
FirstFrom(S, n) ==
  LET turn(m) == (m + Count - n) % Count IN CHOOSE m \in S : \A k \in S : turn(m) <= turn(k)

Free(m, given) == ~done[m] /\ m \notin given

\* The master port p chooses, after the ports before it have chosen given.
Choice(p, tab, given) ==
  LET S == {m \in tab[p] : ~busy[p] /\ Free(m, given)}
  IN IF S = {} THEN None ELSE FirstFrom(S, next[p])

\* arbiter
Arbiter ==
  \E grant \in [Ports -> Masters \cup {None}] :
    LET given == {grant[p] : p \in Ports} \ {None}
        lost(m) == {p \in Ports : m \in table'[p] /\ grant[p] \notin {None, m}}
    IN /\ table' = [p \in Ports |->
            table[p] \cup {m \in Masters : req[m] /\ ~served[m] /\ Books(p, m)}]
       /\ \A p \in Ports : grant[p] = Choice(p, table', {grant[q] : q \in 0 .. p - 1})
       /\ go' = [p \in Ports |-> grant[p] # None]
       /\ busy' = [p \in Ports |-> busy[p] \/ go'[p]]
       /\ idc' = [p \in Ports |-> IF go'[p] THEN grant[p] ELSE idc[p]]
       /\ next' = [p \in Ports |-> IF go'[p] THEN (grant[p] + 1) % Count ELSE next[p]]
       /\ served' = [m \in Masters |-> served[m] \/ m \in given]
       /\ done' = [m \in Masters |-> done[m] \/ m \in given]
       /\ passed' = [m \in Masters |->
            IF ~req[m] \/ served'[m] THEN 0 ELSE passed[m] + Cardinality(lost(m))]
       /\ UNCHANGED <<req, poll>>

\* Mutant: the booking at the other ports stays.
Bug_Unbook(m) == [p \in Ports |-> IF idc[p] = m THEN table[p] \ {m} ELSE table[p]]
Unbook(m) == [p \in Ports |-> table[p] \ {m}]
\* Mutant: the poller looks before served has fallen, and waits for it.
Bug_Repoll(m) == poll[m]
Repoll(m) == IF poll[m] = "served" /\ served[m] THEN "request" ELSE poll[m]
\* End of a burst: the resource is free, the poller looks for the next edge.
Finish(p, m) ==
  /\ req' = [req EXCEPT ![m] = FALSE] /\ served' = [served EXCEPT ![m] = FALSE]
  /\ done' = [done EXCEPT ![m] = FALSE] /\ busy' = [busy EXCEPT ![p] = FALSE]
  /\ poll' = [poll EXCEPT ![m] = Repoll(m)]
  /\ table' = Unbook(m)
  /\ fsm' = [fsm EXCEPT ![p] = [at |-> "idle", beat |-> 0]]
  /\ UNCHANGED <<idc, next, passed>>

\* IDLE, on the rising edge of go_fsm; the memory samples the request.
Go(p) ==
  /\ go[p] /\ fsm[p].at = "idle"
  /\ go' = [go EXCEPT ![p] = FALSE]
  /\ fsm' = [fsm EXCEPT ![p].at = IF ask[idc[p]].rw THEN "write" ELSE "read"]
  /\ \E n \in 0 .. MaxWait :
       mem' = [mem EXCEPT ![p] = [at |-> "wait", line |-> ask[idc[p]].line, beat |-> 0,
                                  left |-> n, up |-> FALSE]]
  /\ UNCHANGED <<request, got, ready, pin, cruVars, muxVars>>

\* READ and WRITE, ready_from_L3 goes up: the word, or the acceptance of it,
\* is passed on.
Up(p) ==
  LET m == idc[p] IN
  /\ ~go[p] /\ fsm[p].at # "idle" /\ mem[p].up
  /\ pin' = [pin EXCEPT ![m] = Word(mem[p].line, mem[p].beat)]
  /\ ready' = [ready EXCEPT ![m] = TRUE]
  /\ got' = IF m \in Caches THEN got ELSE [got EXCEPT ![m] = @ + 1]
  /\ IF m \in ByCru THEN Fill(m) ELSE UNCHANGED cruVars
  /\ UNCHANGED <<request, muxVars, go, fsm, mem>>

\* ready_from_L3 goes down.
Down(p) ==
  LET m == idc[p] IN
  /\ ~go[p] /\ fsm[p].at # "idle" /\ ~mem[p].up
  /\ ready' = [ready EXCEPT ![m] = FALSE] /\ pin' = [pin EXCEPT ![m] = None]
  /\ request' = IF m \in Caches THEN request ELSE [request EXCEPT ![m] = FALSE]
  /\ IF m \in ByCru THEN Lower(m) ELSE UNCHANGED cruVars
  /\ IF fsm[p].beat + 1 < Length(m)
     THEN fsm' = [fsm EXCEPT ![p].beat = @ + 1] /\ UNCHANGED muxVars
     ELSE Finish(p, m)
  /\ UNCHANGED <<got, go, mem>>

Settle(p) ==
  /\ p \in todo /\ todo' = todo \ {p}
  /\ Go(p) \/ Up(p) \/ Down(p)
  /\ UNCHANGED <<setup, half, ask>>

------------------------------------------------------------------------------
\* The clock, the masters and the memory.

\* One edge of the memory at a port: wait states, then a word every other
\* edge.
Step(x, m) ==
  CASE x.at = "idle" -> x
    [] x.at = "wait" /\ x.left > 0 -> [x EXCEPT !.left = @ - 1]
    [] x.at = "wait" /\ x.left = 0 -> [x EXCEPT !.at = "ready", !.up = TRUE]
    [] x.at = "ready" -> [x EXCEPT !.up = FALSE,
                                   !.at = IF x.beat + 1 < Length(m) THEN "wait" ELSE "idle",
                                   !.line = IF x.beat + 1 < Length(m) THEN @ ELSE 0,
                                   !.beat = (x.beat + 1) % Length(m)]

\* An edge of the core's clock.
Full ==
  /\ todo = {} /\ ~half /\ half' = TRUE
  /\ Arbiter
  /\ mem' = [p \in Ports |-> Step(mem[p], idc[p])]
  /\ todo' = {p \in Ports : go'[p] \/ mem'[p].up # mem[p].up}
  \* a cache that has taken its last word lowers its request
  /\ request' = [m \in Masters |-> request[m] /\ ~(m \in Caches /\ got[m] = Burst)]
  /\ cru' = [m \in Masters |-> IF m \in Reading THEN Hit(m).x ELSE cru[m]]
  /\ ready' = [m \in Masters |-> IF m \in Reading THEN Hit(m).up ELSE ready[m]]
  /\ pin' = [m \in Masters |-> IF m \in Reading THEN HitPin(m) ELSE pin[m]]
  /\ ask' = [m \in Masters |-> IF request'[m] THEN ask[m] ELSE NoWord]
  /\ got' = [m \in Masters |-> IF request'[m] THEN got[m] ELSE 0]
  /\ UNCHANGED <<setup, requestL3, buffer, currLine, fsm>>

\* An edge in the middle of a cycle: the caches take the words on their ports;
\* the multiplexer of the cache banks runs on this clock too.
Half ==
  /\ todo = {} /\ half /\ half' = FALSE
  /\ got' = [m \in Masters |-> IF m \in Caches /\ ready[m] THEN got[m] + 1 ELSE got[m]]
  /\ IF setup.mux = "miss" THEN Arbiter ELSE UNCHANGED <<muxVars, go>>
  /\ todo' = {p \in Ports : go'[p]}
  /\ UNCHANGED <<setup, request, ask, ready, pin, cruVars, fsm, mem>>

\* A master asks for a line or, on a data port, for a word.
Raise(m) ==
  /\ todo = {} /\ ~request[m] /\ (half => setup.mux = "miss")
  /\ request' = [request EXCEPT ![m] = TRUE] /\ got' = [got EXCEPT ![m] = 0]
  /\ \E l \in Lines : \E rw \in IF m \in Caches THEN {FALSE} ELSE BOOLEAN :
       ask' = [ask EXCEPT ![m] = [line |-> l, rw |-> rw]]
  /\ IF m \in ByCru THEN Look(m) ELSE UNCHANGED cruVars
  /\ IF m \notin ByCru \/ requestL3'[m] THEN Seen(m) ELSE UNCHANGED <<req, poll>>
  /\ UNCHANGED <<setup, half, todo, ready, pin, served, done, table, busy, idc, next, passed,
                 go, fsm, mem>>

Cycle == Full \/ Half \/ \E p \in Ports : Settle(p)
Next == Cycle \/ \E m \in Masters : Raise(m)

\* The clock does not stop; a master need not ask.
Spec == Init /\ [][Next]_vars /\ WF_vars(Cycle)

------------------------------------------------------------------------------
\* The types of the variables.
TypeOK ==
  /\ setup \in Setups /\ half \in BOOLEAN /\ todo \subseteq Ports
  /\ {request, ready, requestL3, req, served, done} \subseteq [Masters -> BOOLEAN]
  /\ ask \in [Masters -> [line : Lines \cup {0}, rw : BOOLEAN]]
  /\ got \in [Masters -> 0 .. Burst] /\ pin \in [Masters -> Int]
  /\ cru \in [Masters -> [at : {"idle", "hit", "miss"}, line : Slots \cup {0},
                          beat : 0 .. Burst - 1, fill : BOOLEAN]]
  /\ buffer \in [Slots -> [0 .. Burst - 1 -> Lines \cup {None}]]
  /\ currLine \in Slots \cup {0}
  /\ poll \in [Masters -> {"request", "served"}]
  /\ table \in [Ports -> SUBSET Masters] /\ {busy, go} \subseteq [Ports -> BOOLEAN]
  /\ {idc, next} \subseteq [Ports -> Masters]
  /\ fsm \in [Ports -> [at : {"idle", "read", "write"}, beat : 0 .. Burst - 1]]
  /\ passed \in [Masters -> Nat]
  /\ mem \in [Ports -> [at : {"idle", "wait", "ready"}, line : Lines \cup {0},
                        beat : 0 .. Burst - 1, left : 0 .. MaxWait, up : BOOLEAN]]

Right(m) == pin[m] = Word(ask[m].line, IF m \in Caches THEN got[m] ELSE 0)

\* Whatever other masters, ports and the buffer do, the word on a master's
\* port is the next one of what it asked for.  A core may read a line of the
\* buffer while it is refilled: the refill has to stay behind it.
RightWord == todo = {} /\ half => \A m \in Masters : ready[m] => request[m] /\ Right(m)

\* A request on the multiplexer is booked until it is served: no rising edge
\* comes while its poller waits for another event.
RequestSeen ==
  todo = {} => \A m \in Masters : (IF m \in ByCru THEN requestL3[m] ELSE request[m]) => req[m]

\* Every word of a burst comes from one port: a port in use has a master of
\* its own, and a master that is not asking is booked nowhere.
PortsAgree ==
  /\ \A m \in Masters : served[m] = (\E p \in Ports : busy[p] /\ idc[p] = m)
  /\ \A p, q \in Ports : p # q /\ busy[p] /\ busy[q] => idc[p] # idc[q]
  /\ \A p \in Ports : \A m \in table[p] : req[m] /\ Books(p, m)

\* Cores that miss the same line at the same time do not store it twice.
LinesUnique == \A l \in Lines : Cardinality(IsInMissBuffer(l)) <= 1

\* Pollers, arbiter, ports and refill unit agree who is served where, and the
\* buffer holds each line once.
BookingSound == TypeOK /\ RequestSeen /\ PortsAgree /\ LinesUnique

\* A booked master is passed by every other one at most once at each port.
BoundedBypass == \A m \in Masters :
  passed[m] <= (Count - 1) * (IF setup.static THEN 1 ELSE setup.ports)

\* Every request is answered.
Answered == \A m \in Masters : request[m] ~> ~request[m]

\* Every master is served, and in its turn.
Served == []BoundedBypass /\ Answered
=============================================================================
