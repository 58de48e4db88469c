---------------------------------- MODULE HWS ----------------------------------
(***************************************************************************)
(* The hardware synchroniser (cl_hws): events with an arrival counter and  *)
(* a wake-up mask, served by three clocked threads, and the cores that use *)
(* it through hws_support.c in the way of the OpenMP barriers of           *)
(* bar_hws.c.  The state of the events is held in sc_signals: a thread     *)
(* reads the values of the last cycle and the last write of a cycle wins.  *)
(* The SystemC kernel starts the threads of a clock edge in the reverse    *)
(* order of their declaration, hence signal, notify, programme.            *)
(***************************************************************************)
EXTENDS Naturals, FiniteSets

CONSTANTS Masters,    \* cores that open parallel regions
          Slaves,     \* Slaves[m]: the cores docked for master m
          NEvents,    \* N_HWS_EVENTS: 16 in the platform
          MaxBars,    \* bound: barriers inside one region
          MaxRegions  \* bound: regions of one master

Team(m) == {m} \cup Slaves[m]
Cores == UNION {Team(m) : m \in Masters}
Leader(c) == CHOOSE m \in Masters : c \in Team(m)
Events == 0 .. NEvents - 1
SW_BAR_ENABLE == NEvents    \* no event: the byte 0xFF on the port
NoCore == "none"
Reserved == 128             \* the bit of a counter that says the event is taken

\* The size of a team fits beside the reserved bit: MAX_SLAVES is 16.
ASSUME ConstantsAssumption ==
  /\ NoCore \notin Cores
  /\ NEvents \in Nat \ {0} /\ MaxBars \in Nat /\ MaxRegions \in Nat
  /\ \A m \in Masters : Slaves[m] \cap Masters = {}
  /\ \A m, n \in Masters : m # n => Slaves[m] \cap Slaves[n] = {}
  /\ \A m \in Masters : IsFiniteSet(Team(m)) /\ Cardinality(Team(m)) < Reserved

VARIABLES
  cur,      \* the signals as this clock edge reads them
  nxt,      \* the values written so far in this evaluation phase
  thread,   \* the thread that runs next; "cores" between two edges
  state,    \* state[c]: programme's state machine for core c
  reply,    \* reply[c]: the event granted to core c (got_event), or SW_BAR_ENABLE
  ev,       \* ev[c]: the events core c owns
  accept,   \* accept[c]: signal's state machine is in its second state
  stop,     \* ARM11_STOP[c]
  prg, slv, \* the core whose request is on the port, or NoCore
  sw,       \* sw[c]: the bus access core c makes next, or where it sleeps
  hw_event, \* hw_event[m]: the event of the region of m
  bars,     \* bars[m]: barriers in the region of m
  seen,     \* seen[c]: barriers core c has left in this region
  regions,  \* regions[m]: regions opened by m
  aborted   \* an assert of cl_hws has failed

hwvars == <<cur, nxt, thread, state, reply, ev, accept, stop>>
swvars == <<sw, hw_event, bars, seen, regions>>
vars == <<hwvars, swvars, prg, slv, aborted>>

Signals == [counter   : [Events -> 0 .. 255],
            set_value : [Events -> 0 .. 255],
            mask      : [Events -> SUBSET Cores],
            default   : [Events -> SUBSET Cores],
            notify    : [Events -> BOOLEAN]]

NoSignals == [counter   |-> [e \in Events |-> 0],
              set_value |-> [e \in Events |-> 0],
              mask      |-> [e \in Events |-> {}],
              default   |-> [e \in Events |-> {}],
              notify    |-> [e \in Events |-> FALSE]]

\* The slaves are docked: they notified the dock event and sleep.
Init ==
  /\ cur = NoSignals /\ nxt = NoSignals
  /\ thread = "cores"
  /\ state = [c \in Cores |-> "REQUEST_TYPE"]
  /\ reply = [c \in Cores |-> SW_BAR_ENABLE]
  /\ ev = [c \in Cores |-> {}]
  /\ accept = [c \in Cores |-> FALSE]
  /\ stop = [c \in Cores |-> c \notin Masters]
  /\ prg = NoCore /\ slv = NoCore
  /\ sw = [c \in Cores |-> IF c \in Masters THEN "start" ELSE "docked"]
  /\ hw_event = [m \in Masters |-> SW_BAR_ENABLE]
  /\ bars = [m \in Masters |-> 0]
  /\ seen = [c \in Cores |-> 0]
  /\ regions = [m \in Masters |-> 0]
  /\ aborted = FALSE

-----------------------------------------------------------------------------
(* The cores, between two clock edges. *)

Between == thread = "cores" /\ ~aborted

\* gomp_team_start: a master asks for the event of a new region, with
\* maybe_get_event.
TeamStart(m) ==
  /\ Between /\ sw[m] = "start" /\ regions[m] < MaxRegions
  /\ regions' = [regions EXCEPT ![m] = @ + 1]
  /\ seen' = [seen EXCEPT ![m] = 0]
  /\ \E b \in 0 .. MaxBars : bars' = [bars EXCEPT ![m] = b]
  /\ sw' = [sw EXCEPT ![m] = "ask_type"]
  /\ UNCHANGED <<hwvars, hw_event, prg, slv, aborted>>

ProgramAccess == {"ask_type", "ask_nsl", "ask_read", "release_type", "release_event",
                  "release_mask", "free_type", "free_event", "free_read"}
SlaveAccess == {"barrier", "join"}

\* A core puts its next access on the single port of its kind.
Issue(c) ==
  /\ Between
  /\ \/ sw[c] \in ProgramAccess /\ prg = NoCore /\ prg' = c /\ UNCHANGED slv
     \/ sw[c] \in SlaveAccess /\ slv = NoCore /\ slv' = c /\ UNCHANGED prg
  /\ UNCHANGED <<hwvars, swvars, aborted>>

NextBarrier(c) == IF seen'[c] < bars[Leader(c)] THEN "barrier" ELSE "join"

\* The interrupt line falls: the core runs on from where it slept.
Resume(c) ==
  /\ Between /\ ~stop[c]
  /\ \/ /\ sw[c] = "docked"
        /\ seen' = [seen EXCEPT ![c] = 0]
        /\ sw' = [sw EXCEPT ![c] = NextBarrier(c)]
     \/ /\ sw[c] = "in_barrier"
        /\ seen' = [seen EXCEPT ![c] = @ + 1]
        /\ sw' = [sw EXCEPT ![c] = NextBarrier(c)]
     \/ /\ sw[c] = "in_join"
        /\ seen' = [seen EXCEPT ![c] = @ + 1]
        /\ sw' = [sw EXCEPT ![c] = "free_type"]
  /\ UNCHANGED <<hwvars, hw_event, bars, regions, prg, slv, aborted>>

\* Mutant: notify runs before signal.
Bug_NotifyFirst(t) ==
  CASE t = "cores" -> "notify" [] t = "notify" -> "signal"
    [] t = "signal" -> "programme" [] t = "programme" -> "cores"

\* Mutant: signal runs last.
Bug_SignalLast(t) ==
  CASE t = "cores" -> "notify" [] t = "notify" -> "programme"
    [] t = "programme" -> "signal" [] t = "signal" -> "cores"

\* The order of the threads at a clock edge.
After(t) ==
  CASE t = "cores" -> "signal" [] t = "signal" -> "notify"
    [] t = "notify" -> "programme" [] t = "programme" -> "cores"

Turn(t) == ~aborted /\ thread = t /\ thread' = After(t)

\* The next clock edge: the signals take the values written last.
Clock ==
  /\ Turn("cores")
  /\ cur' = nxt
  /\ UNCHANGED <<nxt, state, reply, ev, accept, stop, swvars, prg, slv, aborted>>

-----------------------------------------------------------------------------
(* The thread signal(): arrivals at the slave port. *)

EventOf(c) == hw_event[Leader(c)]

\* A slave's notify_and_set in gomp_hal_barrier; the other calls are notify.
SetsMask(c) == sw[c] = "barrier" /\ c \notin Masters

\* Every counter is written back at every edge, changed or not.
SignalIdle ==
  /\ Turn("signal") /\ slv = NoCore
  /\ nxt' = [nxt EXCEPT !.counter = cur.counter]
  /\ UNCHANGED <<cur, state, reply, ev, accept, stop, swvars, prg, slv, aborted>>

\* An arrival is counted; the asserts: the event is reserved and not complete.
SignalArrive(c) ==
  LET e == EventOf(c)
      expected == e \in Events /\ cur.counter[e] > Reserved
  IN
  /\ Turn("signal") /\ slv = c /\ ~accept[c]
  /\ aborted' = ~expected
  /\ nxt' = IF expected
            THEN [nxt EXCEPT !.counter = [cur.counter EXCEPT ![e] = @ - 1],
                             !.mask[e] = IF SetsMask(c) THEN cur.mask[e] \cup {c} ELSE @]
            ELSE nxt
  /\ accept' = [accept EXCEPT ![c] = TRUE]
  /\ UNCHANGED <<cur, state, reply, ev, stop, swvars, prg, slv>>

\* The store completes and the core is stopped.
SignalStop(c) ==
  /\ Turn("signal") /\ slv = c /\ accept[c]
  /\ nxt' = [nxt EXCEPT !.counter = cur.counter]
  /\ accept' = [accept EXCEPT ![c] = FALSE]
  /\ stop' = [stop EXCEPT ![c] = TRUE]
  /\ slv' = NoCore
  /\ sw' = [sw EXCEPT ![c] = CASE @ = "barrier" -> "in_barrier"
                               [] @ = "join" /\ c \in Masters -> "in_join"
                               [] OTHER -> "docked"]
  /\ UNCHANGED <<cur, state, reply, ev, hw_event, bars, seen, regions, prg, aborted>>

-----------------------------------------------------------------------------
(* The thread notify(): wakes the cores in the mask of a complete event. *)

\* Mutant: the last arrival is not waited for.
Bug_CompleteEarly(e) == cur.counter[e] \in {Reserved, Reserved + 1} /\ cur.notify[e]

Complete(e) == cur.counter[e] = Reserved /\ cur.notify[e]

Notify ==
  LET done == {e \in Events : Complete(e)}
      On(new, old) == [e \in Events |-> IF e \in done THEN new[e] ELSE old[e]]
  IN
  /\ Turn("notify")
  /\ stop' = [c \in Cores |-> stop[c] /\ \A e \in done : c \notin cur.mask[e]]
  /\ nxt' = [nxt EXCEPT !.counter = On(cur.set_value, @),
                        !.mask = On(cur.default, @)]
  /\ UNCHANGED <<cur, state, reply, ev, accept, swvars, prg, slv, aborted>>

-----------------------------------------------------------------------------
(* The thread programme(): one state machine per core, at the master port. *)

ProgrammeIdle ==
  /\ Turn("programme") /\ prg = NoCore
  /\ UNCHANGED <<cur, nxt, state, reply, ev, accept, stop, swvars, prg, slv, aborted>>

\* A state that serves the access on the port and raises ready.
Serve(c, from, access, to) ==
  /\ Turn("programme") /\ prg = c /\ state[c] = from /\ sw[c] \in access
  /\ state' = [state EXCEPT ![c] = to]
  /\ UNCHANGED <<cur, accept, swvars, prg, slv, aborted>>

\* A state that lowers ready: the access is over and core c goes on.
Ack(c, from, to, next) ==
  /\ Turn("programme") /\ prg = c /\ state[c] = from
  /\ state' = [state EXCEPT ![c] = to]
  /\ prg' = NoCore
  /\ sw' = [sw EXCEPT ![c] = next]
  /\ UNCHANGED <<cur, nxt, reply, ev, accept, stop, bars, seen, regions, slv, aborted>>

RequestType(c) ==
  /\ Serve(c, "REQUEST_TYPE", {"ask_type", "release_type", "free_type"}, "REQUEST_ACC")
  /\ UNCHANGED <<nxt, reply, ev, stop>>

RequestAcc(c) ==
  /\ \/ sw[c] = "ask_type" /\ Ack(c, "REQUEST_ACC", "ASK_EVENT", "ask_nsl")
     \/ sw[c] = "release_type" /\ Ack(c, "REQUEST_ACC", "MANAGE_EVENT", "release_event")
     \/ sw[c] = "free_type" /\ Ack(c, "REQUEST_ACC", "MANAGE_EVENT", "free_event")
  /\ UNCHANGED hw_event

AskEvent(c) ==
  /\ Serve(c, "ASK_EVENT", {"ask_nsl"}, "ASK_ACC")
  /\ UNCHANGED <<nxt, reply, ev, stop>>

AskAcc(c) == Ack(c, "ASK_ACC", "WAIT_EVENT", "ask_read") /\ UNCHANGED hw_event

Free(e) == cur.counter[e] < Reserved

\* Mutant: the master is not counted.
Bug_ExpectSlaves(c) == Cardinality(Slaves[c])

\* The count written with the request: get_new_hw_event(num_threads+1).
Expected(c) == Cardinality(Team(c))

\* Event e becomes the core's, with the number of cores to expect.
Reserve(c, e) ==
  LET nsl == Reserved + Expected(c) IN
  /\ nxt' = [nxt EXCEPT !.counter[e] = nsl, !.set_value[e] = nsl]
  /\ ev' = [ev EXCEPT ![c] = @ \cup {e}]
  /\ reply' = [reply EXCEPT ![c] = e]

\* The first free event is granted.
Grant(c) ==
  /\ Serve(c, "WAIT_EVENT", {"ask_read"}, "WAIT_ACC")
  /\ \E e \in Events :
       Free(e) /\ (\A f \in Events : Free(f) => e <= f) /\ Reserve(c, e)
  /\ UNCHANGED stop

Refuse(c) ==
  /\ Serve(c, "WAIT_EVENT", {"ask_read"}, "WAIT_ACC")
  /\ \A e \in Events : ~Free(e)
  /\ reply' = [reply EXCEPT ![c] = SW_BAR_ENABLE]
  /\ UNCHANGED <<nxt, ev, stop>>

\* get_new_hw_event: the event granted or, maybe_get_event having given up,
\* SW_BAR_ENABLE; MSGBarrier_Release goes to the synchroniser in both cases.
WaitAcc(c) ==
  /\ Ack(c, "WAIT_ACC", "REQUEST_TYPE", "release_type")
  /\ hw_event' = [hw_event EXCEPT ![c] = reply[c]]

\* assert: the event named on the port is one of the core's own.
ManageEvent(c) ==
  LET own == hw_event[c] \in ev[c] IN
  /\ Turn("programme") /\ prg = c /\ state[c] = "MANAGE_EVENT"
  /\ aborted' = ~own
  /\ state' = IF own THEN [state EXCEPT ![c] = "MANAGE_ACC"] ELSE state
  /\ UNCHANGED <<cur, nxt, reply, ev, accept, stop, swvars, prg, slv>>

ManageAcc(c) ==
  /\ Ack(c, "MANAGE_ACC", "RELEASE_OR_FREE_EVENT",
         IF sw[c] = "release_event" THEN "release_mask" ELSE "free_read")
  /\ UNCHANGED hw_event

\* release: the slaves in the written mask are woken at once; from now on a
\* complete event wakes its owner.
ReleaseEvent(c) ==
  LET e == hw_event[c] IN
  /\ Serve(c, "RELEASE_OR_FREE_EVENT", {"release_mask"}, "RELEASE_OR_FREE_ACC")
  /\ nxt' = [nxt EXCEPT !.mask[e] = {c}, !.default[e] = {c}, !.notify[e] = TRUE]
  /\ stop' = [d \in Cores |-> stop[d] /\ d \notin Slaves[c]]
  /\ UNCHANGED <<reply, ev>>

FreeEvent(c) ==
  LET e == hw_event[c] IN
  /\ Serve(c, "RELEASE_OR_FREE_EVENT", {"free_read"}, "RELEASE_OR_FREE_ACC")
  /\ nxt' = [nxt EXCEPT !.mask[e] = {}, !.default[e] = {}, !.notify[e] = FALSE,
                        !.counter[e] = 0, !.set_value[e] = 0]
  /\ ev' = [ev EXCEPT ![c] = @ \ {e}]
  /\ UNCHANGED <<reply, stop>>

ReleaseOrFreeAcc(c) ==
  /\ Ack(c, "RELEASE_OR_FREE_ACC", "REQUEST_TYPE",
         CASE sw[c] = "free_read" -> "start"
           [] sw[c] # "free_read" /\ bars[c] > 0 -> "barrier"
           [] OTHER -> "join")
  /\ UNCHANGED hw_event

-----------------------------------------------------------------------------
SignalThread == SignalIdle \/ \E c \in Cores : SignalArrive(c) \/ SignalStop(c)

ProgrammeThread ==
  \/ ProgrammeIdle
  \/ \E c \in Masters :
       \/ RequestType(c) \/ RequestAcc(c) \/ AskEvent(c) \/ AskAcc(c)
       \/ Grant(c) \/ Refuse(c) \/ WaitAcc(c)
       \/ ManageEvent(c) \/ ManageAcc(c)
       \/ ReleaseEvent(c) \/ FreeEvent(c) \/ ReleaseOrFreeAcc(c)

Next ==
  \/ Clock \/ SignalThread \/ Notify \/ ProgrammeThread
  \/ \E m \in Masters : TeamStart(m)
  \/ \E c \in Cores : Issue(c) \/ Resume(c)

Spec == Init /\ [][Next]_vars

\* The clock never stops; the interconnect serves the cores that wait for a
\* port in turn, and a core whose interrupt line is low executes.
FairSpec ==
  /\ Spec
  /\ WF_vars(Clock \/ SignalThread \/ Notify \/ ProgrammeThread)
  /\ \A c \in Cores : SF_vars(Issue(c) \/ Resume(c))

-----------------------------------------------------------------------------
(* Properties. *)

TypeOK ==
  /\ cur \in Signals /\ nxt \in Signals
  /\ thread \in {"cores", "signal", "notify", "programme"}
  /\ reply \in [Cores -> 0 .. NEvents]
  /\ ev \in [Cores -> SUBSET Events]
  /\ accept \in [Cores -> BOOLEAN] /\ stop \in [Cores -> BOOLEAN]
  /\ prg \in Masters \cup {NoCore} /\ slv \in Cores \cup {NoCore}
  /\ hw_event \in [Masters -> 0 .. NEvents]
  /\ seen \in [Cores -> 0 .. MaxBars + 1]
  /\ aborted \in BOOLEAN

Owns(c, e) == e \in ev[c]

\* No event has two owners, and between two edges an event is reserved
\* exactly while it has one: the write-back of all counters by signal() never
\* undoes a grant or a free of programme() (cl_hws.cpp WAIT_EVENT, free).
EventsExclusive ==
  /\ \A e \in Events, c, d \in Cores : Owns(c, e) /\ Owns(d, e) => c = d
  /\ thread = "cores" =>
       \A e \in Events : nxt.counter[e] >= Reserved <=> \E c \in Cores : Owns(c, e)

\* One assert of cl_hws fails, that of MANAGE_EVENT, and only for a master that
\* was refused an event and releases its slaves nonetheless: nobody notifies an
\* event that is not reserved, or is complete, or manages an event of another.
Refused(m) == sw[m] = "release_event" /\ hw_event[m] = SW_BAR_ENABLE
AssertsHold == aborted => \E m \in Masters : Refused(m)

InRegion(c) == sw[c] \in {"barrier", "in_barrier", "join", "in_join"}

\* The notifications of core c that signal() has counted in this region; a
\* slave back in the dock has made all of them, one just woken none.
Arrived(c) ==
  CASE sw[c] = "docked" -> IF stop[c] THEN bars[Leader(c)] + 1 ELSE 0
    [] sw[c] # "docked" /\ (sw[c] \in {"in_barrier", "in_join"} \/ accept[c]) -> seen[c] + 1
    [] OTHER -> seen[c]

\* gomp_hal_barrier and MSGBarrier_Wait over an event are barriers: no core of
\* a team is past a barrier that another core of the team has not reached.
BarrierHolds ==
  \A m \in Masters : \A c, d \in Team(m) : InRegion(c) => seen[c] <= Arrived(d)

\* Every slave works inside the region of its master: it is not woken before
\* the release, and the master frees the event only when all slaves are docked.
SlavesInsideRegion ==
  \A m \in Masters : \A s \in Slaves[m] :
    sw[s] # "docked" => InRegion(m) \/ sw[m] = "release_mask"

\* A team that works over an event stays together, in its barriers and at the
\* ends of the region.
TeamsHeld == BarrierHolds /\ SlavesInsideRegion

\* Between two edges the counter of a released event is the number of cores of
\* the team that signal() has not counted in this barrier: the arrivals, the
\* reload by notify() and the wake-ups never drift apart.
Waiting(c) == accept[c] \/ (stop[c] /\ sw[c] \in {"in_barrier", "in_join", "docked"})
CounterExact ==
  \A m \in Masters :
    (thread = "cores" /\ InRegion(m) /\ (sw[m] = "in_join" => stop[m])) =>
      nxt.counter[hw_event[m]] = Reserved + Cardinality({c \in Team(m) : ~Waiting(c)})

\* What signal() asserts of the counters, and that they count what they should.
CountersSound == TypeOK /\ AssertsHold /\ CounterExact

\* Every region a master opens ends, as long as none is refused its event: no
\* wake-up is lost between the arrival of the last core, which is stopped one
\* cycle after it is counted, and notify().
RegionsEnd ==
  \A m \in Masters : sw[m] # "start" ~> sw[m] = "start" \/ \E n \in Masters : Refused(n)
=============================================================================
