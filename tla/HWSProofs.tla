------------------------------ MODULE HWSProofs ------------------------------
(***************************************************************************)
(* The hardware synchroniser keeps every team together, for any number of  *)
(* teams, cores, events, regions and barriers.  A master that is refused   *)
(* an event goes on without one and fails the assert of MANAGE_EVENT.      *)
(***************************************************************************)
EXTENDS HWS, FiniteSetTheorems, TLAPS

Asleep == {"in_barrier", "in_join", "docked"}
Region == {"barrier", "in_barrier", "join", "in_join"}
MasterSteps == {"start"} \cup ProgramAccess \cup Region
SlaveSteps == {"docked", "barrier", "in_barrier", "join"}

\* A state of programme() goes with these steps of its core.
Serves(s, a) ==
  \/ s = "REQUEST_TYPE" /\ a \in {"start", "ask_type", "release_type", "free_type"} \cup Region
  \/ s = "REQUEST_ACC" /\ a \in {"ask_type", "release_type", "free_type"}
  \/ s \in {"ASK_EVENT", "ASK_ACC"} /\ a = "ask_nsl"
  \/ s \in {"WAIT_EVENT", "WAIT_ACC"} /\ a = "ask_read"
  \/ s \in {"MANAGE_EVENT", "MANAGE_ACC"} /\ a \in {"release_event", "free_event"}
  \/ s \in {"RELEASE_OR_FREE_EVENT", "RELEASE_OR_FREE_ACC"} /\ a \in {"release_mask", "free_read"}

States == {"REQUEST_TYPE", "REQUEST_ACC", "ASK_EVENT", "ASK_ACC", "WAIT_EVENT", "WAIT_ACC",
           "MANAGE_EVENT", "MANAGE_ACC", "RELEASE_OR_FREE_EVENT", "RELEASE_OR_FREE_ACC"}

\* The types, with those of the history and of the two state machines.
Types ==
  /\ TypeOK
  /\ state \in [Cores -> States] /\ sw \in [Cores -> MasterSteps \cup {"docked"}]
  /\ bars \in [Masters -> 0 .. MaxBars] /\ regions \in [Masters -> Nat]

\* A core is where the machines of the synchroniser suppose it to be.
InStep ==
  /\ \A m \in Masters : Serves(state[m], sw[m])
  /\ \A c \in Cores \ Masters : sw[c] \in SlaveSteps
  /\ \A c \in Cores : /\ slv = c => sw[c] \in SlaveAccess
                      /\ accept[c] => slv = c
                      /\ stop[c] => sw[c] \in Asleep

\* Master m has been granted an event and has not freed it yet.
Holding(m) ==
  \/ state[m] = "WAIT_ACC" /\ reply[m] # SW_BAR_ENABLE
  \/ /\ sw[m] \in {"release_type", "release_event"}
     /\ hw_event[m] # SW_BAR_ENABLE \/ state[m] = "MANAGE_ACC"
  \/ sw[m] \in {"release_mask", "free_type", "free_event"}
  \/ sw[m] \in Region
  \/ sw[m] = "free_read" /\ state[m] = "RELEASE_OR_FREE_EVENT"
Held(m) == IF state[m] = "WAIT_ACC" THEN reply[m] ELSE hw_event[m]

Ownership ==
  /\ \A m \in Masters : IF Holding(m) THEN Held(m) \in Events /\ ev[m] = {Held(m)} ELSE ev[m] = {}
  /\ \A c \in Cores \ Masters : ev[c] = {}
  /\ \A m, n \in Masters : m # n => ev[m] \cap ev[n] = {}

\* The slaves of m are released and m has not been woken from the join.
Working(m) ==
  \/ sw[m] = "release_mask" /\ state[m] = "RELEASE_OR_FREE_ACC"
  \/ sw[m] \in {"barrier", "in_barrier", "join"}
  \/ sw[m] = "in_join" /\ stop[m]

Missing(m) == {c \in Team(m) : ~Waiting(c)}

\* The slaves that have arrived with notify_and_set.
Enrolled(m) == {s \in Slaves[m] : \/ sw[s] = "barrier" /\ accept[s]
                                  \/ sw[s] = "in_barrier" /\ stop[s]}

\* Core c, of a team with b barriers, takes part in barrier k; the join is
\* barrier b.
TakesPart(c, k, b) ==
  \/ sw[c] = "release_mask" /\ k = 0 /\ seen[c] = 0
  \/ sw[c] = "docked" /\ stop[c] /\ k = b
  \/ sw[c] = "docked" /\ ~stop[c] /\ k = 0
  \/ sw[c] = "barrier" /\ seen[c] = k /\ k < b
  \/ sw[c] = "in_barrier" /\ stop[c] /\ seen[c] = k /\ k < b
  \/ sw[c] = "in_barrier" /\ ~stop[c] /\ seen[c] + 1 = k
  \/ sw[c] \in {"join", "in_join"} /\ seen[c] = k /\ k = b

Together(m) == \E k \in 0 .. bars[m] : \A c \in Team(m) : TakesPart(c, k, bars[m])

Docked(m) == \A s \in Slaves[m] : sw[s] = "docked" /\ stop[s]

\* Master m is before the release of its slaves, and counts from zero.
Opening(m) ==
  sw[m] \in {"ask_type", "ask_nsl", "ask_read", "release_type", "release_event", "release_mask"}

Full(m) == Reserved + Cardinality(Team(m))

\* The team of m and its event agree.
TeamSound(m) ==
  /\ Opening(m) => seen[m] = 0
  /\ sw[m] = "in_join" => seen[m] = bars[m]
  /\ ~Working(m) => Docked(m) /\ \A e \in ev[m] : nxt.counter[e] = Full(m)
  /\ \A e \in ev[m] : nxt.set_value[e] = Full(m)
  /\ Working(m) =>
       /\ Together(m)
       /\ nxt.counter[hw_event[m]] = Reserved + Cardinality(Missing(m))
       /\ nxt.default[hw_event[m]] = {m}
       /\ nxt.mask[hw_event[m]] = {m} \cup Enrolled(m)

Teams == \A m \in Masters : TeamSound(m)

Owned(e) == \E m \in Masters : e \in ev[m]

\* What the threads of a clock edge know of the edge before.
Signalled ==
  /\ \A e \in Events : ~Owned(e) => nxt.counter[e] = 0
  /\ thread # "cores" => \A e \in Events : Free(e) <=> ~Owned(e)
  /\ thread = "signal" => cur = nxt
  /\ thread = "notify" =>
       /\ cur.set_value = nxt.set_value /\ cur.default = nxt.default
       /\ \A e \in Events : cur.counter[e] = Reserved =>
            /\ nxt.counter[e] = Reserved /\ cur.mask[e] = nxt.mask[e]
            /\ \A m \in Masters : e \in ev[m] => \A c \in Team(m) : stop[c]

Invariant ==
  /\ Types /\ (aborted => \E m \in Masters : Refused(m))
  /\ InStep /\ Ownership /\ Teams /\ Signalled

-----------------------------------------------------------------------------
(* The teams and the counts. *)

\* The teams are disjoint: every core has one leader.
LEMMA TeamFacts ==
  ASSUME NEW m \in Masters
  PROVE  /\ m \in Team(m) /\ m \in Cores /\ m \notin Slaves[m]
         /\ Team(m) \subseteq Cores /\ Slaves[m] \subseteq Cores \ Masters
         /\ Team(m) \ {m} = Slaves[m]
         /\ \A n \in Masters : n # m => Team(m) \cap Team(n) = {}
         /\ \A c \in Team(m) : Leader(c) = m
<1>1. m \in Team(m) /\ m \notin Slaves[m] /\ Team(m) \ {m} = Slaves[m]
  BY ConstantsAssumption DEF Team
<1>2. Team(m) \subseteq Cores
  BY DEF Cores
<1>3. Slaves[m] \subseteq Cores \ Masters
  BY <1>2, ConstantsAssumption DEF Team
<1>4. ASSUME NEW n \in Masters, n # m PROVE Team(m) \cap Team(n) = {}
  BY <1>4, ConstantsAssumption DEF Team
<1>5. ASSUME NEW c \in Team(m) PROVE Leader(c) = m
  BY <1>4 DEF Leader
<1>6. QED
  BY <1>1, <1>2, <1>3, <1>4, <1>5

\* Every core belongs to a team.
LEMMA LeaderFacts ==
  ASSUME NEW c \in Cores
  PROVE  /\ Leader(c) \in Masters /\ c \in Team(Leader(c))
         /\ c \notin Masters => c \in Slaves[Leader(c)]
         /\ c # NoCore
<1>1. PICK m \in Masters : c \in Team(m)
  BY DEF Cores
<1>2. Leader(c) = m
  BY <1>1, TeamFacts
<1>3. c \notin Masters => c \in Slaves[m]
  BY <1>1, TeamFacts
<1>4. QED
  BY <1>1, <1>2, <1>3, ConstantsAssumption

\* The number of cores in a part of a team.
LEMMA CountFacts ==
  ASSUME NEW m \in Masters, NEW S, S \subseteq Team(m)
  PROVE  /\ IsFiniteSet(S) /\ Cardinality(S) \in Nat
         /\ Cardinality(S) <= Cardinality(Team(m)) /\ Cardinality(S) < Reserved
         /\ Cardinality(S) = 0 <=> S = {}
         /\ \A c \in S : Cardinality(S \ {c}) = Cardinality(S) - 1
<1>1. IsFiniteSet(Team(m)) /\ Cardinality(Team(m)) < Reserved
  BY ConstantsAssumption
<1>2. IsFiniteSet(S) /\ Cardinality(S) <= Cardinality(Team(m))
  BY <1>1, FS_Subset
<1>3. Cardinality(S) \in Nat /\ Cardinality(Team(m)) \in Nat
  BY <1>1, <1>2, FS_CardinalityType
<1>4. Cardinality(S) = 0 <=> S = {}
  BY <1>2, FS_EmptySet
<1>5. ASSUME NEW c \in S PROVE Cardinality(S \ {c}) = Cardinality(S) - 1
  BY <1>2, FS_RemoveElement
<1>6. QED
  BY <1>1, <1>2, <1>3, <1>4, <1>5 DEF Reserved

\* The count of a whole team fits in the counter, and is not that of a
\* complete event.
LEMMA FullFacts ==
  ASSUME NEW m \in Masters
  PROVE  Full(m) \in 129 .. 255
<1>1. Cardinality(Team(m)) \in Nat /\ Cardinality(Team(m)) < Reserved /\ Cardinality(Team(m)) # 0
  BY CountFacts, TeamFacts
<1>2. QED
  BY <1>1 DEF Full, Reserved

\* The order of the threads.
LEMMA AfterFacts ==
  /\ After("cores") = "signal" /\ After("signal") = "notify"
  /\ After("notify") = "programme" /\ After("programme") = "cores"
BY DEF After

-----------------------------------------------------------------------------
(* Teams an action does not touch. *)

\* Nothing that concerns the team of m changes.
Unmoved(m) ==
  /\ \A c \in Team(m) : /\ sw'[c] = sw[c] /\ stop'[c] = stop[c]
                         /\ accept'[c] = accept[c] /\ seen'[c] = seen[c]
  /\ bars'[m] = bars[m] /\ hw_event'[m] = hw_event[m] /\ ev'[m] = ev[m]
  /\ state[m] = "RELEASE_OR_FREE_ACC" <=> state'[m] = "RELEASE_OR_FREE_ACC"
  /\ \A e \in ev[m] : /\ nxt'.counter[e] = nxt.counter[e] /\ nxt'.set_value[e] = nxt.set_value[e]
                       /\ nxt'.mask[e] = nxt.mask[e] /\ nxt'.default[e] = nxt.default[e]

\* Where a team is, and what it waits for, is a matter of its own state.
LEMMA WorkingFrame ==
  ASSUME NEW m \in Masters, Unmoved(m)
  PROVE  /\ Working(m)' = Working(m) /\ Missing(m)' = Missing(m)
         /\ Enrolled(m)' = Enrolled(m) /\ Docked(m)' = Docked(m)
         /\ Opening(m)' = Opening(m) /\ Together(m)' = Together(m)
<1>1. m \in Team(m) /\ Slaves[m] \subseteq Team(m)
  BY DEF Team
<1>2. Working(m)' = Working(m) /\ Opening(m)' = Opening(m)
  BY <1>1 DEF Unmoved, Working, Opening
<1>3. \A c \in Team(m) : Waiting(c)' = Waiting(c)
  BY DEF Unmoved, Waiting
<1>4. Missing(m)' = Missing(m)
  BY <1>3 DEF Missing
<1>5. Enrolled(m)' = Enrolled(m)
  BY <1>1 DEF Enrolled, Unmoved
<1>6. Docked(m)' = Docked(m)
  BY <1>1 DEF Docked, Unmoved
<1>7. ASSUME NEW c \in Team(m), NEW k PROVE TakesPart(c, k, bars[m])' = TakesPart(c, k, bars[m])
  BY DEF Unmoved, TakesPart
<1>8. Together(m)' = Together(m)
  BY <1>7 DEF Together, Unmoved
<1>9. QED
  BY <1>2, <1>4, <1>5, <1>6, <1>8

\* A team whose part of the state does not change stays sound.
LEMMA TeamFrame ==
  ASSUME NEW m \in Masters, TeamSound(m), Unmoved(m), Working(m) => hw_event[m] \in ev[m]
  PROVE  TeamSound(m)'
<1>1. m \in Team(m)
  BY DEF Team
<1>2. Full(m)' = Full(m)
  BY DEF Full
<1>3. Opening(m)' => seen'[m] = 0
  BY <1>1, WorkingFrame DEF TeamSound, Unmoved
<1>4. sw'[m] = "in_join" => seen'[m] = bars'[m]
  BY <1>1 DEF TeamSound, Unmoved
<1>5. ~Working(m)' => Docked(m)' /\ \A e \in ev'[m] : nxt'.counter[e] = Full(m)
  BY WorkingFrame DEF TeamSound, Unmoved
<1>6. \A e \in ev'[m] : nxt'.set_value[e] = Full(m)
  BY DEF TeamSound, Unmoved
<1>7. Working(m)' =>
        /\ Together(m)'
        /\ nxt'.counter[hw_event'[m]] = Reserved + Cardinality(Missing(m)')
        /\ nxt'.default[hw_event'[m]] = {m}
        /\ nxt'.mask[hw_event'[m]] = {m} \cup Enrolled(m)'
  BY WorkingFrame DEF TeamSound, Unmoved
<1>8. QED
  BY <1>3, <1>4, <1>5, <1>6, <1>7 DEF TeamSound, Full

\* A team at rest stays sound when its slaves stay in the dock and its event,
\* if it has one, expects the whole team.
LEMMA TeamAtRest ==
  ASSUME NEW m \in Masters, TeamSound(m), ~Working(m), ~Working(m)',
         \A s \in Slaves[m] : sw'[s] = sw[s] /\ stop'[s] = stop[s],
         Opening(m)' => seen'[m] = 0,
         sw'[m] = "in_join" => seen'[m] = bars'[m],
         \A e \in ev'[m] : nxt'.counter[e] = Full(m) /\ nxt'.set_value[e] = Full(m)
  PROVE  TeamSound(m)'
<1>1. Docked(m)'
  BY DEF TeamSound, Docked
<1>2. QED
  BY <1>1 DEF TeamSound, Full

\* A working master owns the event its team uses.
LEMMA WorkingOwns ==
  ASSUME InStep, Ownership, NEW m \in Masters, Working(m)
  PROVE  hw_event[m] \in Events /\ ev[m] = {hw_event[m]}
<1>1. Holding(m) /\ Held(m) = hw_event[m]
  BY DEF InStep, Serves, Working, Holding, Held, Region
<1>2. QED
  BY <1>1 DEF Ownership

\* The teams of the other masters do not see a step of programme() for c.
LEMMA OthersFrame ==
  ASSUME Invariant, NEW c \in Masters, NEW m \in Masters, m # c,
         \A d \in Cores : d # c => sw'[d] = sw[d] /\ state'[d] = state[d],
         \A d \in Team(m) : stop'[d] = stop[d] /\ accept'[d] = accept[d] /\ seen'[d] = seen[d],
         bars'[m] = bars[m], hw_event'[m] = hw_event[m], ev'[m] = ev[m],
         \A e \in ev[m] : /\ nxt'.counter[e] = nxt.counter[e]
                          /\ nxt'.set_value[e] = nxt.set_value[e]
                          /\ nxt'.mask[e] = nxt.mask[e] /\ nxt'.default[e] = nxt.default[e]
  PROVE  TeamSound(m)'
<1>1. Team(m) \subseteq Cores /\ c \notin Team(m) /\ m \in Cores
  BY TeamFacts
<1>2. Unmoved(m)
  BY <1>1 DEF Unmoved
<1>3. Working(m) => hw_event[m] \in ev[m]
  BY WorkingOwns DEF Invariant
<1>4. QED
  BY <1>2, <1>3, TeamFrame DEF Invariant, Teams

\* A step of programme() that writes no signal and leaves the events with
\* their owners keeps the invariant.
LEMMA QuietStep ==
  ASSUME Invariant, NEW c \in Masters, thread' = "cores", Types', ~aborted',
         UNCHANGED <<nxt, ev, accept, stop, slv, bars, seen>>,
         \A d \in Cores : d # c => /\ sw'[d] = sw[d] /\ state'[d] = state[d]
                                  /\ reply'[d] = reply[d],
         \A m \in Masters : m # c => hw_event'[m] = hw_event[m],
         sw[c] \notin Region, sw'[c] \notin Region, ~Working(c), ~Working(c)',
         Opening(c)' => Opening(c), Serves(state'[c], sw'[c]),
         Holding(c)' <=> Holding(c), Holding(c) => Held(c)' = Held(c)
  PROVE  Invariant'
<1>1. c \in Cores
  BY TeamFacts
<1>2. sw[c] \notin Asleep /\ sw[c] \notin SlaveAccess
  BY DEF Invariant, InStep, Serves, Region, Asleep, SlaveAccess
<1>3. InStep'
  <2>1. ASSUME NEW m \in Masters PROVE Serves(state'[m], sw'[m])
    <3>1. m \in Cores
      BY TeamFacts
    <3>2. QED
      BY <3>1 DEF Invariant, InStep
  <2>2. ASSUME NEW d \in Cores \ Masters PROVE sw'[d] \in SlaveSteps
    BY DEF Invariant, InStep
  <2>3. ASSUME NEW d \in Cores
        PROVE  /\ slv' = d => sw'[d] \in SlaveAccess
               /\ accept'[d] => slv' = d
               /\ stop'[d] => sw'[d] \in Asleep
    BY <1>2 DEF Invariant, InStep
  <2>4. QED
    BY <2>1, <2>2, <2>3 DEF InStep
<1>4. Ownership'
  <2>1. ASSUME NEW m \in Masters, m # c
        PROVE  Holding(m)' = Holding(m) /\ Held(m)' = Held(m)
    <3>1. m \in Cores
      BY TeamFacts
    <3>2. QED
      BY <2>1, <3>1 DEF Holding, Held
  <2>2. ASSUME NEW m \in Masters
        PROVE  IF Holding(m)' THEN Held(m)' \in Events /\ ev'[m] = {Held(m)'} ELSE ev'[m] = {}
    BY <2>1 DEF Invariant, Ownership
  <2>3. QED
    BY <2>2 DEF Invariant, Ownership
<1>5. Teams'
  <2>1. ASSUME NEW m \in Masters PROVE TeamSound(m)'
    <3>1. CASE m = c
      <4>1. TeamSound(c)
        BY DEF Invariant, Teams
      <4>2. \A s \in Slaves[c] : sw'[s] = sw[s] /\ stop'[s] = stop[s]
        BY TeamFacts
      <4>3. (Opening(c)' => seen'[c] = 0) /\ sw'[c] # "in_join"
        BY <4>1 DEF TeamSound, Region
      <4>4. \A e \in ev'[c] : nxt'.counter[e] = Full(c) /\ nxt'.set_value[e] = Full(c)
        BY <4>1 DEF TeamSound
      <4>5. QED
        BY <3>1, <4>1, <4>2, <4>3, <4>4, TeamAtRest
    <3>2. CASE m # c
      BY <3>2, OthersFrame
    <3>3. QED
      BY <3>1, <3>2
  <2>2. QED
    BY <2>1 DEF Teams
<1>6. Signalled'
  BY DEF Invariant, Signalled, Owned
<1>7. QED
  BY <1>3, <1>4, <1>5, <1>6 DEF Invariant

-----------------------------------------------------------------------------
(* The thread programme(). *)

\* The types after an access is served or acknowledged.
LEMMA QuietTypes ==
  ASSUME Types, NEW c \in Masters, thread' = "cores",
         UNCHANGED <<cur, nxt, ev, accept, stop, slv, bars, seen, regions>>,
         NEW s \in States, state' = [state EXCEPT ![c] = s],
         NEW a \in MasterSteps, sw' = [sw EXCEPT ![c] = a],
         NEW r \in 0 .. NEvents, reply' = [reply EXCEPT ![c] = r],
         NEW h \in 0 .. NEvents, hw_event' = [hw_event EXCEPT ![c] = h],
         prg' \in Masters \cup {NoCore}, aborted' \in BOOLEAN
  PROVE  Types'
<1>1. state' \in [Cores -> States] /\ sw' \in [Cores -> MasterSteps \cup {"docked"}]
  BY DEF Types
<1>2. reply' \in [Cores -> 0 .. NEvents] /\ hw_event' \in [Masters -> 0 .. NEvents]
  BY DEF Types, TypeOK
<1>3. TypeOK'
  BY <1>2 DEF Types, TypeOK
<1>4. QED
  BY <1>1, <1>3 DEF Types

\* What an acknowledgement changes.
LEMMA AckFacts ==
  ASSUME Types, ~aborted, NEW c \in Masters, Turn("programme"),
         NEW to \in States, state' = [state EXCEPT ![c] = to],
         NEW next \in MasterSteps, sw' = [sw EXCEPT ![c] = next],
         NEW h \in 0 .. NEvents, hw_event' = [hw_event EXCEPT ![c] = h], prg' = NoCore,
         UNCHANGED <<cur, nxt, reply, ev, accept, stop, bars, seen, regions, slv, aborted>>
  PROVE  /\ state'[c] = to /\ sw'[c] = next /\ hw_event'[c] = h
         /\ thread' = "cores" /\ Types' /\ ~aborted'
         /\ \A d \in Cores : d # c => sw'[d] = sw[d] /\ state'[d] = state[d]
         /\ \A m \in Masters : m # c => hw_event'[m] = hw_event[m]
<1>1. c \in Cores
  BY TeamFacts
<1>2. thread' = "cores" /\ prg' \in Masters \cup {NoCore} /\ aborted' \in BOOLEAN
  BY AfterFacts DEF Turn, Types, TypeOK
<1>3. reply[c] \in 0 .. NEvents /\ reply' = [reply EXCEPT ![c] = reply[c]]
  BY <1>1 DEF Types, TypeOK
<1>4. Types'
  BY <1>2, <1>3, QuietTypes
<1>5. QED
  BY <1>1, <1>2, <1>4 DEF Types, TypeOK

\* What serving an access changes, when no signal and no event is concerned.
LEMMA ServeFacts ==
  ASSUME Types, ~aborted, NEW c \in Masters, Turn("programme"),
         NEW to \in States, state' = [state EXCEPT ![c] = to],
         NEW r \in 0 .. NEvents, reply' = [reply EXCEPT ![c] = r],
         UNCHANGED <<cur, nxt, ev, accept, stop, swvars, prg, slv, aborted>>
  PROVE  /\ state'[c] = to /\ reply'[c] = r
         /\ thread' = "cores" /\ Types' /\ ~aborted'
         /\ \A d \in Cores : d # c => state'[d] = state[d] /\ reply'[d] = reply[d]
<1>1. c \in Cores
  BY TeamFacts
<1>2. thread' = "cores"
  BY AfterFacts DEF Turn
<1>3. Types'
  <2>1. state' \in [Cores -> States]
    BY DEF Types
  <2>2. reply' \in [Cores -> 0 .. NEvents]
    BY DEF Types, TypeOK
  <2>3. TypeOK'
    BY <1>2, <2>2 DEF Types, TypeOK, swvars
  <2>4. QED
    BY <2>1, <2>3 DEF Types, swvars
<1>4. QED
  BY <1>1, <1>2, <1>3 DEF Types, TypeOK

\* The definitions that say where a master is.
LEMMA MasterAt ==
  ASSUME Invariant, NEW c \in Masters
  PROVE  /\ c \in Cores /\ Serves(state[c], sw[c])
         /\ reply[c] \in 0 .. NEvents /\ (reply' = reply => reply' = [reply EXCEPT ![c] = reply[c]])
         /\ hw_event[c] \in 0 .. NEvents
         /\ hw_event' = hw_event => hw_event' = [hw_event EXCEPT ![c] = hw_event[c]]
         /\ Types
<1>1. c \in Cores
  BY TeamFacts
<1>2. Types /\ Serves(state[c], sw[c])
  BY DEF Invariant, InStep
<1>3. reply[c] \in 0 .. NEvents /\ hw_event[c] \in 0 .. NEvents
  BY <1>1, <1>2 DEF Types, TypeOK
<1>4. reply = [reply EXCEPT ![c] = reply[c]] /\ hw_event = [hw_event EXCEPT ![c] = hw_event[c]]
  BY <1>2 DEF Types, TypeOK
<1>5. QED
  BY <1>1, <1>2, <1>3, <1>4

\* REQUEST_TYPE: the kind of the request is taken.
LEMMA RequestTypeStep ==
  ASSUME Invariant, NEW c \in Masters, RequestType(c)
  PROVE  Invariant'
<1> DEFINE access == {"ask_type", "release_type", "free_type"}
<1>1. /\ state[c] = "REQUEST_TYPE" /\ sw[c] \in access /\ state'[c] = "REQUEST_ACC"
      /\ thread' = "cores" /\ Types' /\ ~aborted'
      /\ UNCHANGED <<nxt, ev, accept, stop, slv, bars, seen, sw, hw_event>>
      /\ \A d \in Cores : d # c => state'[d] = state[d] /\ reply'[d] = reply[d]
  <2>1. reply' = [reply EXCEPT ![c] = reply[c]] /\ reply[c] \in 0 .. NEvents /\ Types /\ ~aborted
    BY MasterAt DEF RequestType, Serve, Turn
  <2>2. "REQUEST_ACC" \in States
    BY DEF States
  <2>3. /\ state[c] = "REQUEST_TYPE" /\ sw[c] \in access /\ Turn("programme")
        /\ state' = [state EXCEPT ![c] = "REQUEST_ACC"]
        /\ UNCHANGED <<cur, nxt, ev, accept, stop, swvars, prg, slv, aborted>>
    BY DEF RequestType, Serve
  <2>4. QED
    BY <2>1, <2>2, <2>3, ServeFacts DEF swvars
<1>2. /\ sw[c] \notin Region /\ ~Working(c) /\ ~Working(c)' /\ Opening(c)' = Opening(c)
      /\ Serves(state'[c], sw'[c])
      /\ Holding(c)' = Holding(c) /\ Held(c)' = Held(c)
  BY <1>1 DEF Region, Working, Opening, Serves, Holding, Held
<1>3. QED
  BY <1>1, <1>2, QuietStep

\* ASK_EVENT: the number of cores to expect is taken.
LEMMA AskEventStep ==
  ASSUME Invariant, NEW c \in Masters, AskEvent(c)
  PROVE  Invariant'
<1>1. /\ state[c] = "ASK_EVENT" /\ sw[c] \in {"ask_nsl"} /\ state'[c] = "ASK_ACC"
      /\ thread' = "cores" /\ Types' /\ ~aborted'
      /\ UNCHANGED <<nxt, ev, accept, stop, slv, bars, seen, sw, hw_event>>
      /\ \A d \in Cores : d # c => state'[d] = state[d] /\ reply'[d] = reply[d]
  <2>1. reply' = [reply EXCEPT ![c] = reply[c]] /\ reply[c] \in 0 .. NEvents /\ Types /\ ~aborted
    BY MasterAt DEF AskEvent, Serve, Turn
  <2>2. "ASK_ACC" \in States
    BY DEF States
  <2>3. /\ state[c] = "ASK_EVENT" /\ sw[c] \in {"ask_nsl"} /\ Turn("programme")
        /\ state' = [state EXCEPT ![c] = "ASK_ACC"]
        /\ UNCHANGED <<cur, nxt, ev, accept, stop, swvars, prg, slv, aborted>>
    BY DEF AskEvent, Serve
  <2>4. QED
    BY <2>1, <2>2, <2>3, ServeFacts DEF swvars
<1>2. /\ sw[c] \notin Region /\ ~Working(c) /\ ~Working(c)' /\ Opening(c)' = Opening(c)
      /\ Serves(state'[c], sw'[c])
      /\ Holding(c)' = Holding(c) /\ Held(c)' = Held(c)
  BY <1>1 DEF Region, Working, Opening, Serves, Holding, Held
<1>3. QED
  BY <1>1, <1>2, QuietStep

\* WAIT_EVENT without a free event.
LEMMA RefuseStep ==
  ASSUME Invariant, NEW c \in Masters, Refuse(c)
  PROVE  Invariant'
<1>1. /\ state[c] = "WAIT_EVENT" /\ sw[c] \in {"ask_read"} /\ state'[c] = "WAIT_ACC"
      /\ reply'[c] = SW_BAR_ENABLE
      /\ thread' = "cores" /\ Types' /\ ~aborted'
      /\ UNCHANGED <<nxt, ev, accept, stop, slv, bars, seen, sw, hw_event>>
      /\ \A d \in Cores : d # c => state'[d] = state[d] /\ reply'[d] = reply[d]
  <2>1. Types /\ ~aborted /\ reply' = [reply EXCEPT ![c] = SW_BAR_ENABLE]
    BY MasterAt DEF Refuse, Serve, Turn
  <2>5. SW_BAR_ENABLE \in 0 .. NEvents
    BY ConstantsAssumption DEF SW_BAR_ENABLE
  <2>2. "WAIT_ACC" \in States
    BY DEF States
  <2>3. /\ state[c] = "WAIT_EVENT" /\ sw[c] \in {"ask_read"} /\ Turn("programme")
        /\ state' = [state EXCEPT ![c] = "WAIT_ACC"]
        /\ UNCHANGED <<cur, nxt, ev, accept, stop, swvars, prg, slv, aborted>>
    BY DEF Refuse, Serve
  <2>4. QED
    BY <2>1, <2>2, <2>3, <2>5, ServeFacts DEF swvars
<1>2. /\ sw[c] \notin Region /\ ~Working(c) /\ ~Working(c)' /\ Opening(c)' = Opening(c)
      /\ Serves(state'[c], sw'[c])
      /\ Holding(c)' = Holding(c) /\ ~Holding(c)
  BY <1>1 DEF Region, Working, Opening, Serves, Holding
<1>3. QED
  BY <1>1, <1>2, QuietStep

\* The steps outside a region by which a master keeps what it holds.
LEMMA HoldingKept ==
  ASSUME NEW m, sw[m] \notin Region, sw'[m] \notin Region, hw_event'[m] = hw_event[m],
         state[m] # "WAIT_ACC", state'[m] # "WAIT_ACC",
         \/ /\ sw[m] = "release_type" /\ state[m] = "REQUEST_ACC"
            /\ sw'[m] = "release_event" /\ state'[m] = "MANAGE_EVENT"
         \/ /\ sw[m] = "release_event" /\ state[m] = "MANAGE_ACC"
            /\ sw'[m] = "release_mask"
         \/ sw[m] = "free_type" /\ sw'[m] = "free_event"
         \/ /\ sw[m] = "free_event" /\ sw'[m] = "free_read"
            /\ state'[m] = "RELEASE_OR_FREE_EVENT"
         \/ sw[m] \in {"ask_type", "ask_nsl"} /\ sw'[m] \in {"ask_nsl", "ask_read"}
         \/ /\ sw[m] = "free_read" /\ state[m] = "RELEASE_OR_FREE_ACC"
            /\ sw'[m] = "start"
  PROVE  Holding(m)' <=> Holding(m)
<1>1. ASSUME sw[m] = "release_type", state[m] = "REQUEST_ACC",
             sw'[m] = "release_event", state'[m] = "MANAGE_EVENT"
      PROVE  Holding(m)' <=> Holding(m)
  BY <1>1 DEF Holding
<1>2. ASSUME \/ /\ sw[m] = "release_event" /\ state[m] = "MANAGE_ACC"
                /\ sw'[m] = "release_mask"
             \/ sw[m] = "free_type" /\ sw'[m] = "free_event"
             \/ /\ sw[m] = "free_event" /\ sw'[m] = "free_read"
                /\ state'[m] = "RELEASE_OR_FREE_EVENT"
      PROVE  Holding(m)' /\ Holding(m)
  BY <1>2 DEF Holding
<1>3. ASSUME \/ sw[m] \in {"ask_type", "ask_nsl"} /\ sw'[m] \in {"ask_nsl", "ask_read"}
             \/ /\ sw[m] = "free_read" /\ state[m] = "RELEASE_OR_FREE_ACC"
                /\ sw'[m] = "start"
      PROVE  ~Holding(m)' /\ ~Holding(m)
  BY <1>3 DEF Holding
<1>4. QED
  BY <1>1, <1>2, <1>3

\* An acknowledgement that leaves master c outside its region.
LEMMA QuietAck ==
  ASSUME Invariant, NEW c \in Masters, NEW from, NEW to \in States, NEW next \in MasterSteps,
         UNCHANGED hw_event, Ack(c, from, to, next), from # "WAIT_ACC", to # "WAIT_ACC",
         from = "RELEASE_OR_FREE_ACC" => sw[c] = "free_read",
         to # "RELEASE_OR_FREE_ACC", next \notin Region, sw[c] \notin Region,
         Serves(to, next),
         next \in {"ask_nsl", "ask_read"} => sw[c] \in {"ask_type", "ask_nsl"},
         next = "start" => sw[c] = "free_read" /\ from = "RELEASE_OR_FREE_ACC",
         next = "release_event" => /\ sw[c] = "release_type"
                                   /\ from = "REQUEST_ACC" /\ to = "MANAGE_EVENT",
         next = "release_mask" => sw[c] = "release_event" /\ from = "MANAGE_ACC",
         to # "MANAGE_ACC",
         next = "free_event" => sw[c] = "free_type",
         next = "free_read" => sw[c] = "free_event" /\ to = "RELEASE_OR_FREE_EVENT",
         next \notin {"ask_type", "release_type", "free_type"}
  PROVE  Invariant'
<1>1. /\ state[c] = from /\ state'[c] = to /\ sw'[c] = next /\ hw_event' = hw_event
      /\ reply' = reply /\ thread' = "cores" /\ Types' /\ ~aborted'
      /\ UNCHANGED <<nxt, ev, accept, stop, slv, bars, seen>>
      /\ \A d \in Cores : d # c => sw'[d] = sw[d] /\ state'[d] = state[d]
  <2>1. /\ hw_event' = [hw_event EXCEPT ![c] = hw_event[c]] /\ hw_event[c] \in 0 .. NEvents
        /\ Types /\ ~aborted
    BY MasterAt DEF Ack, Turn
  <2>2. /\ state[c] = from /\ state' = [state EXCEPT ![c] = to] /\ Turn("programme")
        /\ sw' = [sw EXCEPT ![c] = next] /\ prg' = NoCore
        /\ UNCHANGED <<cur, nxt, reply, ev, accept, stop, bars, seen, regions, slv, aborted>>
    BY DEF Ack
  <2>3. QED
    BY <2>1, <2>2, AckFacts
<1>2. ~Working(c) /\ ~Working(c)' /\ (Opening(c)' => Opening(c))
  BY <1>1 DEF Region, Working, Opening, MasterSteps, ProgramAccess
<1>3. (Holding(c)' <=> Holding(c)) /\ Held(c)' = Held(c)
  <2>1. Held(c)' = Held(c)
    BY <1>1 DEF Held
  <2>2. /\ state[c] # "WAIT_ACC" /\ state'[c] # "WAIT_ACC" /\ hw_event'[c] = hw_event[c]
        /\ sw[c] \notin Region /\ sw'[c] \notin Region
    BY <1>1
  <2>3. next \in {"release_event", "release_mask", "free_event", "free_read",
                  "ask_nsl", "ask_read", "start"}
    BY DEF MasterSteps, ProgramAccess
  <2>4. Holding(c)' <=> Holding(c)
    BY <1>1, <2>2, <2>3, HoldingKept
  <2>5. QED
    BY <2>1, <2>4
<1>4. QED
  BY <1>1, <1>2, <1>3, QuietStep

\* REQUEST_ACC: the core goes on to the request proper.
LEMMA RequestAccStep ==
  ASSUME Invariant, NEW c \in Masters, RequestAcc(c)
  PROVE  Invariant'
<1> USE DEF States, MasterSteps, ProgramAccess, Region, Serves
<1>1. UNCHANGED hw_event
  BY DEF RequestAcc
<1>2. CASE sw[c] = "ask_type" /\ Ack(c, "REQUEST_ACC", "ASK_EVENT", "ask_nsl")
  BY <1>1, <1>2, QuietAck
<1>3. CASE sw[c] = "release_type" /\ Ack(c, "REQUEST_ACC", "MANAGE_EVENT", "release_event")
  BY <1>1, <1>3, QuietAck
<1>4. CASE sw[c] = "free_type" /\ Ack(c, "REQUEST_ACC", "MANAGE_EVENT", "free_event")
  BY <1>1, <1>4, QuietAck
<1>5. QED
  BY <1>2, <1>3, <1>4 DEF RequestAcc

\* ASK_ACC: the core goes on to read the event.
LEMMA AskAccStep ==
  ASSUME Invariant, NEW c \in Masters, AskAcc(c)
  PROVE  Invariant'
<1>1. sw[c] = "ask_nsl"
  BY MasterAt DEF AskAcc, Ack, Serves
<1>2. UNCHANGED hw_event /\ Ack(c, "ASK_ACC", "WAIT_EVENT", "ask_read")
  BY DEF AskAcc
<1>3. QED
  BY <1>1, <1>2, QuietAck DEF States, MasterSteps, ProgramAccess, Region, Serves

\* MANAGE_ACC: the core goes on to release or to free.
LEMMA ManageAccStep ==
  ASSUME Invariant, NEW c \in Masters, ManageAcc(c)
  PROVE  Invariant'
<1> USE DEF States, MasterSteps, ProgramAccess, Region, Serves
<1>1. sw[c] \in {"release_event", "free_event"}
  BY MasterAt DEF ManageAcc, Ack
<1>2. UNCHANGED hw_event
  BY DEF ManageAcc
<1>3. CASE sw[c] = "release_event"
  <2>1. Ack(c, "MANAGE_ACC", "RELEASE_OR_FREE_EVENT", "release_mask")
    BY <1>3 DEF ManageAcc
  <2>2. QED
    BY <1>2, <1>3, <2>1, QuietAck
<1>4. CASE sw[c] = "free_event"
  <2>1. Ack(c, "MANAGE_ACC", "RELEASE_OR_FREE_EVENT", "free_read")
    BY <1>4 DEF ManageAcc
  <2>2. QED
    BY <1>2, <1>4, <2>1, QuietAck
<1>5. QED
  BY <1>1, <1>3, <1>4

\* The events stay with their owners.
LEMMA OwnershipFrame ==
  ASSUME Ownership, ev' = ev,
         \A m \in Masters : /\ Holding(m)' <=> Holding(m)
                            /\ Holding(m) => Held(m)' = Held(m)
  PROVE  Ownership'
<1>1. ASSUME NEW m \in Masters
      PROVE  IF Holding(m)' THEN Held(m)' \in Events /\ ev'[m] = {Held(m)'} ELSE ev'[m] = {}
  BY DEF Ownership
<1>2. QED
  BY <1>1 DEF Ownership

\* Nothing moves but the clock and the ports.
LEMMA Still ==
  ASSUME Invariant, UNCHANGED <<nxt, state, reply, ev, accept, stop, sw, hw_event, bars, seen>>
  PROVE  Ownership' /\ Teams' /\ (\A e \in Events : Owned(e)' <=> Owned(e))
<1>1. \A m \in Masters : Holding(m)' = Holding(m) /\ Held(m)' = Held(m)
  BY DEF Holding, Held
<1>2. Ownership'
  BY <1>1, OwnershipFrame DEF Invariant
<1>3. ASSUME NEW m \in Masters PROVE TeamSound(m)'
  <2>1. Unmoved(m)
    BY DEF Unmoved
  <2>2. Working(m) => hw_event[m] \in ev[m]
    BY WorkingOwns DEF Invariant
  <2>3. QED
    BY <2>1, <2>2, TeamFrame DEF Invariant, Teams
<1>4. QED
  BY <1>2, <1>3 DEF Teams, Owned

\* Nothing changes for the teams when an assert fails: the program ends.
LEMMA FailedStep ==
  ASSUME Invariant, NEW c \in Masters, Refused(c), aborted' \in BOOLEAN,
         thread' \in {"cores", thread},
         UNCHANGED <<cur, nxt, state, reply, ev, accept, stop, sw, hw_event, bars, seen,
                     regions, prg, slv>>
  PROVE  Invariant'
<1>1. Types'
  BY DEF Invariant, Types, TypeOK
<1>2. Refused(c)'
  BY DEF Refused
<1>3. Ownership' /\ Teams' /\ \A e \in Events : Owned(e)' <=> Owned(e)
  BY Still
<1>4. InStep'
  BY DEF Invariant, InStep
<1>5. \A e \in Events : Free(e)' <=> Free(e)
  BY DEF Free
<1>6. Signalled'
  BY <1>3, <1>5 DEF Invariant, Signalled
<1>7. QED
  BY <1>1, <1>2, <1>3, <1>4, <1>6 DEF Invariant

\* The assert of MANAGE_EVENT holds for a master that has an event, and fails
\* for one that was refused.
LEMMA ManageEventStep ==
  ASSUME Invariant, NEW c \in Masters, ManageEvent(c)
  PROVE  Invariant'
<1>1. /\ c \in Cores /\ Types /\ ~aborted /\ state[c] = "MANAGE_EVENT"
      /\ sw[c] \in {"release_event", "free_event"} /\ Turn("programme")
      /\ UNCHANGED <<cur, nxt, reply, ev, accept, stop, swvars, prg, slv>>
  BY MasterAt DEF ManageEvent, Serves, Turn
<1>2. CASE hw_event[c] \in ev[c]
  <2>1. UNCHANGED aborted /\ state' = [state EXCEPT ![c] = "MANAGE_ACC"]
    BY <1>1, <1>2 DEF ManageEvent, Types, TypeOK
  <2>2. Holding(c) /\ Held(c) = hw_event[c]
    BY <1>1, <1>2 DEF Held, Invariant, Ownership
  <2>3. /\ state'[c] = "MANAGE_ACC"
        /\ thread' = "cores" /\ Types' /\ ~aborted'
        /\ \A d \in Cores : d # c => state'[d] = state[d] /\ reply'[d] = reply[d]
    <3>1. reply' = [reply EXCEPT ![c] = reply[c]] /\ reply[c] \in 0 .. NEvents
      BY <1>1, MasterAt
    <3>2. "MANAGE_ACC" \in States
      BY DEF States
    <3>3. QED
      BY <1>1, <2>1, <3>1, <3>2, ServeFacts
  <2>4. UNCHANGED <<nxt, ev, accept, stop, slv, bars, seen, sw, hw_event>>
    BY <1>1 DEF swvars
  <2>5. /\ sw[c] \notin Region /\ ~Working(c) /\ ~Working(c)' /\ Opening(c)' = Opening(c)
        /\ Serves(state'[c], sw'[c])
    BY <1>1, <2>3, <2>4 DEF Region, Working, Opening, Serves
  <2>6. Holding(c)' = Holding(c) /\ Held(c)' = Held(c)
    BY <1>1, <2>2, <2>3, <2>4 DEF Holding, Held
  <2>7. QED
    BY <2>3, <2>4, <2>5, <2>6, QuietStep
<1>3. CASE hw_event[c] \notin ev[c]
  <2>1. ~Holding(c)
    BY <1>1, <1>3 DEF Held, Invariant, Ownership
  <2>2. Refused(c)
    BY <1>1, <2>1 DEF Holding, Refused
  <2>3. state' = state /\ aborted' \in BOOLEAN
    BY <1>3 DEF ManageEvent
  <2>4. thread' = "cores"
    BY <1>1, AfterFacts DEF Turn
  <2>5. QED
    BY <1>1, <2>2, <2>3, <2>4, FailedStep DEF swvars
<1>4. QED
  BY <1>2, <1>3

\* A refused master goes on without an event, a granted one with its own.
LEMMA WaitAccStep ==
  ASSUME Invariant, NEW c \in Masters, WaitAcc(c)
  PROVE  Invariant'
<1>1. /\ c \in Cores /\ Types /\ ~aborted /\ state[c] = "WAIT_ACC" /\ sw[c] = "ask_read"
      /\ reply[c] \in 0 .. NEvents
  BY MasterAt DEF WaitAcc, Ack, Serves, Turn
<1>2. /\ state' = [state EXCEPT ![c] = "REQUEST_TYPE"] /\ sw' = [sw EXCEPT ![c] = "release_type"]
      /\ hw_event' = [hw_event EXCEPT ![c] = reply[c]] /\ prg' = NoCore /\ Turn("programme")
      /\ UNCHANGED <<cur, nxt, reply, ev, accept, stop, bars, seen, regions, slv, aborted>>
  BY DEF WaitAcc, Ack
<1>3. "REQUEST_TYPE" \in States /\ "release_type" \in MasterSteps
  BY DEF States, MasterSteps, ProgramAccess
<1>4. /\ state'[c] = "REQUEST_TYPE" /\ sw'[c] = "release_type" /\ hw_event'[c] = reply[c]
      /\ thread' = "cores" /\ Types' /\ ~aborted'
      /\ \A d \in Cores : d # c => sw'[d] = sw[d] /\ state'[d] = state[d]
      /\ \A m \in Masters : m # c => hw_event'[m] = hw_event[m]
  BY <1>1, <1>2, <1>3, AckFacts
<1>5. /\ sw[c] \notin Region /\ sw'[c] \notin Region /\ ~Working(c) /\ ~Working(c)'
      /\ Opening(c)' = Opening(c) /\ Serves(state'[c], sw'[c])
  BY <1>1, <1>4 DEF Region, Working, Opening, Serves
<1>6. (Holding(c)' <=> Holding(c)) /\ (Holding(c) => Held(c)' = Held(c))
  BY <1>1, <1>4 DEF Holding, Held, Region
<1>7. QED
  BY <1>2, <1>4, <1>5, <1>6, QuietStep

\* The fields of the signals.
LEMMA SignalFields ==
  ASSUME NEW s \in Signals
  PROVE  /\ s.counter \in [Events -> 0 .. 255] /\ s.set_value \in [Events -> 0 .. 255]
         /\ s.mask \in [Events -> SUBSET Cores] /\ s.default \in [Events -> SUBSET Cores]
         /\ s.notify \in [Events -> BOOLEAN]
BY DEF Signals

\* The first free event goes to a master that has none.
LEMMA GrantStep ==
  ASSUME Invariant, NEW c \in Masters, Grant(c)
  PROVE  Invariant'
<1>1. /\ c \in Cores /\ Types /\ ~aborted /\ state[c] = "WAIT_EVENT" /\ sw[c] = "ask_read"
      /\ thread = "programme" /\ thread' = "cores" /\ state' = [state EXCEPT ![c] = "WAIT_ACC"]
      /\ UNCHANGED <<cur, accept, stop, sw, hw_event, bars, seen, regions, prg, slv, aborted>>
  BY MasterAt, AfterFacts DEF Grant, Serve, Turn, swvars
<1>2. PICK e \in Events : Free(e) /\ Reserve(c, e)
  BY DEF Grant
<1>3. /\ nxt' = [nxt EXCEPT !.counter[e] = Full(c), !.set_value[e] = Full(c)]
       /\ ev' = [ev EXCEPT ![c] = @ \cup {e}]
       /\ reply' = [reply EXCEPT ![c] = e]
  BY <1>2 DEF Reserve, Full, Expected
<1>4. nxt \in Signals /\ Full(c) \in 0 .. 255 /\ Full(c) >= Reserved
  BY <1>1, FullFacts DEF Types, TypeOK, Reserved
<1>5. /\ nxt' \in Signals
      /\ nxt'.counter = [nxt.counter EXCEPT ![e] = Full(c)]
      /\ nxt'.set_value = [nxt.set_value EXCEPT ![e] = Full(c)]
      /\ nxt'.mask = nxt.mask /\ nxt'.default = nxt.default
  BY <1>3, <1>4 DEF Signals
<1>6. ~Owned(e)
  BY <1>1, <1>2 DEF Invariant, Signalled
<1>7. ev[c] = {} /\ ev'[c] = {e} /\ reply'[c] = e /\ state'[c] = "WAIT_ACC"
  <2>1. ~Holding(c)
    BY <1>1 DEF Holding, Region
  <2>2. ev[c] = {}
    BY <2>1 DEF Invariant, Ownership
  <2>3. QED
    BY <1>1, <1>3, <2>2 DEF Types, TypeOK
<1>8. \A d \in Cores : d # c => ev'[d] = ev[d] /\ reply'[d] = reply[d] /\ state'[d] = state[d]
  BY <1>1, <1>3 DEF Types, TypeOK
<1>9. e \in 0 .. NEvents /\ e # SW_BAR_ENABLE
  BY ConstantsAssumption DEF Events, SW_BAR_ENABLE
<1>10. Types'
  <2>1. state' \in [Cores -> States]
    BY <1>1 DEF Types, States
  <2>2. reply' \in [Cores -> 0 .. NEvents]
    BY <1>1, <1>3, <1>9 DEF Types, TypeOK
  <2>3. ev' \in [Cores -> SUBSET Events]
    BY <1>1, <1>3 DEF Types, TypeOK
  <2>4. TypeOK'
    BY <1>1, <1>5, <2>2, <2>3 DEF Types, TypeOK
  <2>5. QED
    BY <1>1, <2>1, <2>4 DEF Types
<1>11. InStep'
  <2>1. ASSUME NEW m \in Masters PROVE Serves(state'[m], sw'[m])
    <3>1. m \in Cores /\ Serves(state[m], sw[m])
      BY MasterAt
    <3>2. CASE m = c
      BY <1>1, <1>7, <3>2 DEF Serves
    <3>3. CASE m # c
      BY <1>1, <1>8, <3>1, <3>3
    <3>4. QED
      BY <3>2, <3>3
  <2>2. QED
    BY <1>1, <2>1 DEF Invariant, InStep
<1>12. Ownership'
  <2>1. ASSUME NEW m \in Masters
        PROVE  IF Holding(m)' THEN Held(m)' \in Events /\ ev'[m] = {Held(m)'} ELSE ev'[m] = {}
    <3>1. m \in Cores
      BY TeamFacts
    <3>2. CASE m = c
      <4>1. Holding(c)' /\ Held(c)' = e
        BY <1>7, <1>9 DEF Holding, Held
      <4>2. QED
        BY <1>7, <3>2, <4>1
    <3>3. CASE m # c
      <4>1. Holding(m)' = Holding(m) /\ Held(m)' = Held(m) /\ ev'[m] = ev[m]
        BY <1>1, <1>8, <3>1, <3>3 DEF Holding, Held
      <4>2. QED
        BY <4>1 DEF Invariant, Ownership
    <3>4. QED
      BY <3>2, <3>3
  <2>2. ASSUME NEW d \in Cores \ Masters PROVE ev'[d] = {}
    BY <1>8 DEF Invariant, Ownership
  <2>3. ASSUME NEW m \in Masters, NEW n \in Masters, m # n PROVE ev'[m] \cap ev'[n] = {}
    <3>1. m \in Cores /\ n \in Cores
      BY TeamFacts
    <3>2. e \notin ev[m] /\ e \notin ev[n] /\ ev[m] \cap ev[n] = {}
      BY <1>6, <2>3 DEF Owned, Invariant, Ownership
    <3>3. QED
      BY <1>7, <1>8, <2>3, <3>1, <3>2
  <2>4. QED
    BY <2>1, <2>2, <2>3 DEF Ownership
<1>13. Teams'
  <2>1. ASSUME NEW m \in Masters PROVE TeamSound(m)'
    <3>1. TeamSound(m) /\ m \in Cores
      BY TeamFacts DEF Invariant, Teams
    <3>2. CASE m = c
      <4>1. ~Working(c) /\ ~Working(c)' /\ Opening(c) /\ sw'[c] # "in_join"
        BY <1>1 DEF Working, Opening
      <4>2. \A f \in ev'[c] : nxt'.counter[f] = Full(c) /\ nxt'.set_value[f] = Full(c)
        BY <1>4, <1>5, <1>7, SignalFields
      <4>3. seen'[c] = 0
        BY <1>1, <3>1, <3>2, <4>1 DEF TeamSound
      <4>4. \A s \in Slaves[c] : sw'[s] = sw[s] /\ stop'[s] = stop[s]
        BY <1>1
      <4>5. QED
        BY <3>1, <3>2, <4>1, <4>2, <4>3, <4>4, TeamAtRest
    <3>3. CASE m # c
      <4>1. \A f \in ev[m] : f # e
        BY <1>6 DEF Owned
      <4>2. \A f \in ev[m] : f \in Events
        BY <1>1, <3>1 DEF Types, TypeOK
      <4>3. \A f \in ev[m] : /\ nxt'.counter[f] = nxt.counter[f]
                             /\ nxt'.set_value[f] = nxt.set_value[f]
                             /\ nxt'.mask[f] = nxt.mask[f] /\ nxt'.default[f] = nxt.default[f]
        BY <1>4, <1>5, <4>1, <4>2, SignalFields
      <4>4. /\ \A d \in Cores : d # c => sw'[d] = sw[d] /\ state'[d] = state[d]
            /\ \A d \in Team(m) : stop'[d] = stop[d] /\ accept'[d] = accept[d] /\ seen'[d] = seen[d]
            /\ bars'[m] = bars[m] /\ hw_event'[m] = hw_event[m] /\ ev'[m] = ev[m]
        BY <1>1, <1>8, <3>1, <3>3
      <4>5. QED
        BY <3>3, <4>3, <4>4, OthersFrame
    <3>4. QED
      BY <3>2, <3>3
  <2>2. QED
    BY <2>1 DEF Teams
<1>14. Signalled'
  <2>1. ASSUME NEW f \in Events, ~Owned(f)' PROVE nxt'.counter[f] = 0
    <3>1. f # e
      BY <1>7, <2>1 DEF Owned
    <3>2. ~Owned(f)
      <4>1. ASSUME NEW m \in Masters, f \in ev[m] PROVE FALSE
        <5>1. m \in Cores /\ m # c
          BY <1>7, <4>1, TeamFacts
        <5>2. f \in ev'[m]
          BY <1>8, <4>1, <5>1
        <5>3. QED
          BY <2>1, <5>2 DEF Owned
      <4>2. QED
        BY <4>1 DEF Owned
    <3>3. nxt.counter[f] = 0
      BY <3>2 DEF Invariant, Signalled
    <3>4. QED
      BY <1>4, <1>5, <3>1, <3>3, SignalFields
  <2>2. QED
    BY <1>1, <2>1 DEF Signalled
<1>15. QED
  BY <1>1, <1>10, <1>11, <1>12, <1>13, <1>14 DEF Invariant

\* The master returns its event; nobody of its team uses it any more.
LEMMA FreeEventStep ==
  ASSUME Invariant, NEW c \in Masters, FreeEvent(c)
  PROVE  Invariant'
<1>1. /\ c \in Cores /\ Types /\ ~aborted /\ sw[c] = "free_read"
      /\ state[c] = "RELEASE_OR_FREE_EVENT"
      /\ thread' = "cores" /\ state' = [state EXCEPT ![c] = "RELEASE_OR_FREE_ACC"]
      /\ UNCHANGED <<cur, accept, stop, sw, hw_event, bars, seen, regions, prg, slv, aborted, reply>>
  BY MasterAt, AfterFacts DEF FreeEvent, Serve, Turn, swvars
<1>2. PICK e : e = hw_event[c]
  OBVIOUS
<1>3. /\ nxt' = [nxt EXCEPT !.mask[e] = {}, !.default[e] = {}, !.notify[e] = FALSE,
                            !.counter[e] = 0, !.set_value[e] = 0]
      /\ ev' = [ev EXCEPT ![c] = @ \ {e}]
  BY <1>2 DEF FreeEvent
<1>4. e \in Events /\ ev[c] = {e}
  <2>1. Holding(c) /\ Held(c) = e
    BY <1>1, <1>2 DEF Holding, Held
  <2>2. QED
    BY <2>1 DEF Invariant, Ownership
<1>5. nxt \in Signals
  BY <1>1 DEF Types, TypeOK
<1>6. /\ nxt' \in Signals
      /\ nxt'.counter = [nxt.counter EXCEPT ![e] = 0]
      /\ nxt'.set_value = [nxt.set_value EXCEPT ![e] = 0]
      /\ nxt'.mask = [nxt.mask EXCEPT ![e] = {}] /\ nxt'.default = [nxt.default EXCEPT ![e] = {}]
  <2>1. nxt = [counter |-> nxt.counter, set_value |-> nxt.set_value, mask |-> nxt.mask,
               default |-> nxt.default, notify |-> nxt.notify]
    BY <1>5 DEF Signals
  <2>2. nxt' = [counter   |-> [nxt.counter EXCEPT ![e] = 0],
                set_value |-> [nxt.set_value EXCEPT ![e] = 0],
                mask      |-> [nxt.mask EXCEPT ![e] = {}],
                default   |-> [nxt.default EXCEPT ![e] = {}],
                notify    |-> [nxt.notify EXCEPT ![e] = FALSE]]
    BY <1>3, <2>1
  <2>3. /\ [nxt.counter EXCEPT ![e] = 0] \in [Events -> 0 .. 255]
        /\ [nxt.set_value EXCEPT ![e] = 0] \in [Events -> 0 .. 255]
    <3>1. nxt.counter \in [Events -> 0 .. 255] /\ nxt.set_value \in [Events -> 0 .. 255]
      BY <1>5, SignalFields
    <3>2. 0 \in 0 .. 255
      OBVIOUS
    <3>3. QED
      BY <3>1, <3>2
  <2>4. /\ [nxt.mask EXCEPT ![e] = {}] \in [Events -> SUBSET Cores]
        /\ [nxt.default EXCEPT ![e] = {}] \in [Events -> SUBSET Cores]
    BY <1>5, SignalFields
  <2>5. [nxt.notify EXCEPT ![e] = FALSE] \in [Events -> BOOLEAN]
    BY <1>5, SignalFields
  <2>6. QED
    BY <2>2, <2>3, <2>4, <2>5 DEF Signals
<1>7. ev'[c] = {} /\ state'[c] = "RELEASE_OR_FREE_ACC"
  BY <1>1, <1>3, <1>4 DEF Types, TypeOK
<1>8. \A d \in Cores : d # c => ev'[d] = ev[d] /\ state'[d] = state[d]
  BY <1>1, <1>3 DEF Types, TypeOK
<1>9. Types'
  <2>1. state' \in [Cores -> States]
    BY <1>1 DEF Types, States
  <2>2. ev' \in [Cores -> SUBSET Events]
    BY <1>1, <1>3 DEF Types, TypeOK
  <2>3. TypeOK'
    BY <1>1, <1>6, <2>2 DEF Types, TypeOK
  <2>4. QED
    BY <1>1, <2>1, <2>3 DEF Types
<1>10. InStep'
  <2>1. ASSUME NEW m \in Masters PROVE Serves(state'[m], sw'[m])
    <3>1. m \in Cores /\ Serves(state[m], sw[m])
      BY MasterAt
    <3>2. CASE m = c
      BY <1>1, <1>7, <3>2 DEF Serves
    <3>3. CASE m # c
      BY <1>1, <1>8, <3>1, <3>3
    <3>4. QED
      BY <3>2, <3>3
  <2>2. QED
    BY <1>1, <2>1 DEF Invariant, InStep
<1>11. Ownership'
  <2>1. ASSUME NEW m \in Masters
        PROVE  IF Holding(m)' THEN Held(m)' \in Events /\ ev'[m] = {Held(m)'} ELSE ev'[m] = {}
    <3>1. m \in Cores
      BY TeamFacts
    <3>2. CASE m = c
      <4>1. ~Holding(c)'
        BY <1>1, <1>7 DEF Holding, Region
      <4>2. QED
        BY <1>7, <3>2, <4>1
    <3>3. CASE m # c
      <4>1. Holding(m)' = Holding(m) /\ Held(m)' = Held(m) /\ ev'[m] = ev[m]
        BY <1>1, <1>8, <3>1, <3>3 DEF Holding, Held
      <4>2. QED
        BY <4>1 DEF Invariant, Ownership
    <3>4. QED
      BY <3>2, <3>3
  <2>2. ASSUME NEW d \in Cores \ Masters PROVE ev'[d] = {}
    BY <1>8 DEF Invariant, Ownership
  <2>3. ASSUME NEW m \in Masters, NEW n \in Masters, m # n PROVE ev'[m] \cap ev'[n] = {}
    <3>1. m \in Cores /\ n \in Cores
      BY TeamFacts
    <3>2. ev[m] \cap ev[n] = {}
      BY <2>3 DEF Invariant, Ownership
    <3>3. QED
      BY <1>7, <1>8, <2>3, <3>1, <3>2
  <2>4. QED
    BY <2>1, <2>2, <2>3 DEF Ownership
<1>12. Teams'
  <2>1. ASSUME NEW m \in Masters PROVE TeamSound(m)'
    <3>1. TeamSound(m) /\ m \in Cores
      BY TeamFacts DEF Invariant, Teams
    <3>2. CASE m = c
      <4>1. ~Working(c) /\ ~Working(c)' /\ ~Opening(c)' /\ sw'[c] # "in_join"
        BY <1>1 DEF Working, Opening
      <4>2. \A s \in Slaves[c] : sw'[s] = sw[s] /\ stop'[s] = stop[s]
        BY <1>1
      <4>3. QED
        BY <1>7, <3>1, <3>2, <4>1, <4>2, TeamAtRest
    <3>3. CASE m # c
      <4>1. \A f \in ev[m] : f # e
        BY <1>4, <3>3 DEF Invariant, Ownership
      <4>2. \A f \in ev[m] : f \in Events
        BY <1>1, <3>1 DEF Types, TypeOK
      <4>3. \A f \in ev[m] : /\ nxt'.counter[f] = nxt.counter[f]
                             /\ nxt'.set_value[f] = nxt.set_value[f]
                             /\ nxt'.mask[f] = nxt.mask[f] /\ nxt'.default[f] = nxt.default[f]
        BY <1>5, <1>6, <4>1, <4>2, SignalFields
      <4>4. /\ \A d \in Cores : d # c => sw'[d] = sw[d] /\ state'[d] = state[d]
            /\ \A d \in Team(m) : stop'[d] = stop[d] /\ accept'[d] = accept[d] /\ seen'[d] = seen[d]
            /\ bars'[m] = bars[m] /\ hw_event'[m] = hw_event[m] /\ ev'[m] = ev[m]
        BY <1>1, <1>8, <3>1, <3>3
      <4>5. QED
        BY <3>3, <4>3, <4>4, OthersFrame
    <3>4. QED
      BY <3>2, <3>3
  <2>2. QED
    BY <2>1 DEF Teams
<1>13. Signalled'
  <2>1. ASSUME NEW f \in Events, ~Owned(f)' PROVE nxt'.counter[f] = 0
    <3>1. CASE f = e
      BY <1>5, <1>6, <3>1, SignalFields
    <3>2. CASE f # e
      <4>1. ASSUME NEW m \in Masters, f \in ev[m] PROVE FALSE
        <5>1. m \in Cores /\ m # c
          BY <1>4, <3>2, <4>1, TeamFacts
        <5>2. f \in ev'[m]
          BY <1>8, <4>1, <5>1
        <5>3. QED
          BY <2>1, <5>2 DEF Owned
      <4>2. nxt.counter[f] = 0
        BY <4>1 DEF Owned, Invariant, Signalled
      <4>3. QED
        BY <1>5, <1>6, <3>2, <4>2, SignalFields
    <3>3. QED
      BY <3>1, <3>2
  <2>2. QED
    BY <1>1, <2>1 DEF Signalled
<1>14. QED
  BY <1>1, <1>9, <1>10, <1>11, <1>12, <1>13 DEF Invariant

\* The slaves are woken: the team works, and all of it is expected.
LEMMA ReleaseEventStep ==
  ASSUME Invariant, NEW c \in Masters, ReleaseEvent(c)
  PROVE  Invariant'
<1>1. /\ c \in Cores /\ Types /\ ~aborted /\ sw[c] = "release_mask"
      /\ state[c] = "RELEASE_OR_FREE_EVENT"
      /\ thread' = "cores" /\ state' = [state EXCEPT ![c] = "RELEASE_OR_FREE_ACC"]
      /\ UNCHANGED <<cur, accept, sw, hw_event, bars, seen, regions, prg, slv, aborted, reply, ev>>
  BY MasterAt, AfterFacts DEF ReleaseEvent, Serve, Turn, swvars
<1>2. PICK e : e = hw_event[c]
  OBVIOUS
<1>3. /\ nxt' = [nxt EXCEPT !.mask[e] = {c}, !.default[e] = {c}, !.notify[e] = TRUE]
      /\ stop' = [d \in Cores |-> stop[d] /\ d \notin Slaves[c]]
  BY <1>2 DEF ReleaseEvent
<1>4. e \in Events /\ ev[c] = {e}
  <2>1. Holding(c) /\ Held(c) = e
    BY <1>1, <1>2 DEF Holding, Held
  <2>2. QED
    BY <2>1 DEF Invariant, Ownership
<1>5. nxt \in Signals
  BY <1>1 DEF Types, TypeOK
<1>6. /\ nxt' \in Signals
      /\ nxt'.counter = nxt.counter /\ nxt'.set_value = nxt.set_value
      /\ nxt'.mask = [nxt.mask EXCEPT ![e] = {c}] /\ nxt'.default = [nxt.default EXCEPT ![e] = {c}]
  <2>1. nxt = [counter |-> nxt.counter, set_value |-> nxt.set_value, mask |-> nxt.mask,
               default |-> nxt.default, notify |-> nxt.notify]
    BY <1>5 DEF Signals
  <2>2. nxt' = [counter   |-> nxt.counter,
                set_value |-> nxt.set_value,
                mask      |-> [nxt.mask EXCEPT ![e] = {c}],
                default   |-> [nxt.default EXCEPT ![e] = {c}],
                notify    |-> [nxt.notify EXCEPT ![e] = TRUE]]
    BY <1>3, <2>1
  <2>3. /\ [nxt.mask EXCEPT ![e] = {c}] \in [Events -> SUBSET Cores]
        /\ [nxt.default EXCEPT ![e] = {c}] \in [Events -> SUBSET Cores]
    BY <1>1, <1>5, SignalFields
  <2>4. [nxt.notify EXCEPT ![e] = TRUE] \in [Events -> BOOLEAN]
    BY <1>5, SignalFields
  <2>5. QED
    BY <1>5, <2>2, <2>3, <2>4, SignalFields DEF Signals
<1>7. state'[c] = "RELEASE_OR_FREE_ACC"
  BY <1>1 DEF Types
<1>8. \A d \in Cores : d # c => state'[d] = state[d]
  BY <1>1 DEF Types
<1>9. Types'
  <2>1. state' \in [Cores -> States]
    BY <1>1 DEF Types, States
  <2>2. stop' \in [Cores -> BOOLEAN]
    BY <1>1, <1>3 DEF Types, TypeOK
  <2>3. TypeOK'
    BY <1>1, <1>6, <2>2 DEF Types, TypeOK
  <2>4. QED
    BY <1>1, <2>1, <2>3 DEF Types
<1>10. InStep'
  <2>1. ASSUME NEW m \in Masters PROVE Serves(state'[m], sw'[m])
    <3>1. m \in Cores /\ Serves(state[m], sw[m])
      BY MasterAt
    <3>2. CASE m = c
      BY <1>1, <1>7, <3>2 DEF Serves
    <3>3. CASE m # c
      BY <1>1, <1>8, <3>1, <3>3
    <3>4. QED
      BY <3>2, <3>3
  <2>2. \A d \in Cores : stop'[d] => stop[d]
    BY <1>3
  <2>3. QED
    BY <1>1, <2>1, <2>2 DEF Invariant, InStep
<1>11. Ownership'
  <2>1. ASSUME NEW m \in Masters
        PROVE  IF Holding(m)' THEN Held(m)' \in Events /\ ev'[m] = {Held(m)'} ELSE ev'[m] = {}
    <3>1. m \in Cores
      BY TeamFacts
    <3>2. Holding(m)' = Holding(m) /\ Held(m)' = Held(m) /\ ev'[m] = ev[m]
      <4>1. CASE m = c
        BY <1>1, <1>7, <4>1 DEF Holding, Held
      <4>2. CASE m # c
        BY <1>1, <1>8, <3>1, <4>2 DEF Holding, Held
      <4>3. QED
        BY <4>1, <4>2
    <3>3. QED
      BY <3>2 DEF Invariant, Ownership
  <2>2. QED
    BY <1>1, <2>1 DEF Invariant, Ownership
<1>12. Teams'
  <2>1. ASSUME NEW m \in Masters PROVE TeamSound(m)'
    <3>1. TeamSound(m) /\ m \in Cores
      BY TeamFacts DEF Invariant, Teams
    <3>2. CASE m = c
      <4>1. ~Working(c) /\ Working(c)' /\ Opening(c) /\ sw'[c] # "in_join"
        BY <1>1, <1>7 DEF Working, Opening
      <4>2. seen[c] = 0 /\ Docked(c) /\ nxt.counter[e] = Full(c) /\ nxt.set_value[e] = Full(c)
        BY <1>4, <3>1, <3>2, <4>1 DEF TeamSound
      <4>3. \A s \in Slaves[c] : s \in Cores /\ sw'[s] = "docked" /\ ~stop'[s] /\ ~accept'[s]
        <5>1. \A s \in Slaves[c] : s \in Cores /\ sw'[s] = "docked" /\ ~stop'[s]
          BY <1>1, <1>3, <4>2, TeamFacts DEF Docked
        <5>2. QED
          BY <1>1, <5>1 DEF Invariant, InStep, SlaveAccess
      <4>4. ~stop'[c] /\ ~accept'[c]
        BY <1>1, <1>3 DEF Invariant, InStep, SlaveAccess, Asleep
      <4>5. \A d \in Team(c) : d = c \/ d \in Slaves[c]
        BY DEF Team
      <4>6. Together(c)'
        <5>1. bars[c] \in Nat /\ 0 \in 0 .. bars[c]
          BY <1>1, ConstantsAssumption DEF Types
        <5>2. \A d \in Team(c) : TakesPart(d, 0, bars[c])'
          BY <1>1, <4>2, <4>3, <4>5 DEF TakesPart
        <5>3. QED
          BY <1>1, <5>1, <5>2 DEF Together
      <4>7. Missing(c)' = Team(c)
        BY <4>3, <4>4, <4>5 DEF Missing, Waiting
      <4>8. Enrolled(c)' = {}
        BY <4>3 DEF Enrolled
      <4>9. /\ nxt'.counter[e] = Full(c) /\ nxt'.set_value[e] = Full(c)
            /\ nxt'.mask[e] = {c} /\ nxt'.default[e] = {c}
        BY <1>4, <1>5, <1>6, <4>2, SignalFields
      <4>10. seen'[c] = 0 /\ hw_event'[c] = e /\ ev'[c] = {e} /\ Full(c) = Reserved + Cardinality(Team(c))
        BY <1>1, <1>2, <1>4, <4>2 DEF Full
      <4>11. QED
        BY <3>2, <4>1, <4>6, <4>7, <4>8, <4>9, <4>10 DEF TeamSound, Full
    <3>3. CASE m # c
      <4>1. \A f \in ev[m] : f # e
        BY <1>4, <3>3 DEF Invariant, Ownership
      <4>2. \A f \in ev[m] : f \in Events
        BY <1>1, <3>1 DEF Types, TypeOK
      <4>3. \A f \in ev[m] : /\ nxt'.counter[f] = nxt.counter[f]
                             /\ nxt'.set_value[f] = nxt.set_value[f]
                             /\ nxt'.mask[f] = nxt.mask[f] /\ nxt'.default[f] = nxt.default[f]
        BY <1>5, <1>6, <4>1, <4>2, SignalFields
      <4>4. \A d \in Team(m) : d \in Cores /\ d \notin Slaves[c]
        BY <3>3, TeamFacts DEF Team
      <4>5. \A d \in Team(m) : stop'[d] = stop[d]
        BY <1>1, <1>3, <4>4 DEF Types, TypeOK
      <4>6. /\ \A d \in Cores : d # c => sw'[d] = sw[d] /\ state'[d] = state[d]
            /\ \A d \in Team(m) : stop'[d] = stop[d] /\ accept'[d] = accept[d] /\ seen'[d] = seen[d]
            /\ bars'[m] = bars[m] /\ hw_event'[m] = hw_event[m] /\ ev'[m] = ev[m]
        BY <1>1, <1>8, <4>5
      <4>7. QED
        BY <3>3, <4>3, <4>6, OthersFrame
    <3>4. QED
      BY <3>2, <3>3
  <2>2. QED
    BY <2>1 DEF Teams
<1>13. Signalled'
  BY <1>1, <1>6 DEF Invariant, Signalled, Owned
<1>14. QED
  BY <1>1, <1>9, <1>10, <1>11, <1>12, <1>13 DEF Invariant

-----------------------------------------------------------------------------
(* The cores. *)

\* One core of a working team goes on: it is counted, and enrolled, as before.
LEMMA OneMoves ==
  ASSUME NEW m \in Masters, TeamSound(m), Working(m), Working(m)', hw_event[m] \in ev[m],
         NEW d \in Team(m),
         \A c \in Team(m) : c # d => /\ sw'[c] = sw[c] /\ stop'[c] = stop[c]
                                     /\ accept'[c] = accept[c] /\ seen'[c] = seen[c],
         bars'[m] = bars[m], hw_event'[m] = hw_event[m], ev'[m] = ev[m],
         \A e \in ev[m] : /\ nxt'.counter[e] = nxt.counter[e] /\ nxt'.set_value[e] = nxt.set_value[e]
                          /\ nxt'.mask[e] = nxt.mask[e] /\ nxt'.default[e] = nxt.default[e],
         Waiting(d)' <=> Waiting(d),
         d \in Slaves[m] => (d \in Enrolled(m)' <=> d \in Enrolled(m)),
         \A k \in 0 .. bars[m] : TakesPart(d, k, bars[m]) => TakesPart(d, k, bars[m])',
         Opening(m)' => seen'[m] = 0, sw'[m] = "in_join" => seen'[m] = bars'[m]
  PROVE  TeamSound(m)'
<1>1. Slaves[m] \subseteq Team(m)
  BY DEF Team
<1>2. \A c \in Team(m) : Waiting(c)' <=> Waiting(c)
  BY DEF Waiting
<1>3. Missing(m)' = Missing(m)
  BY <1>2 DEF Missing
<1>4. Enrolled(m)' = Enrolled(m)
  <2>1. ASSUME NEW s \in Slaves[m] PROVE s \in Enrolled(m)' <=> s \in Enrolled(m)
    <3>1. CASE s = d
      BY <3>1
    <3>2. CASE s # d
      BY <1>1, <3>2 DEF Enrolled
    <3>3. QED
      BY <3>1, <3>2
  <2>2. Enrolled(m) \subseteq Slaves[m] /\ Enrolled(m)' \subseteq Slaves[m]
    BY DEF Enrolled
  <2>3. QED
    BY <2>1, <2>2
<1>5. PICK k \in 0 .. bars[m] : \A c \in Team(m) : TakesPart(c, k, bars[m])
  BY DEF TeamSound, Together
<1>6. \A c \in Team(m) : TakesPart(c, k, bars[m])'
  <2>1. ASSUME NEW c \in Team(m) PROVE TakesPart(c, k, bars[m])'
    <3>1. CASE c = d
      BY <1>5, <3>1
    <3>2. CASE c # d
      BY <1>5, <3>2 DEF TakesPart
    <3>3. QED
      BY <3>1, <3>2
  <2>2. QED
    BY <2>1
<1>7. Together(m)'
  BY <1>5, <1>6 DEF Together
<1>8. QED
  BY <1>3, <1>4, <1>7 DEF TeamSound, Full

\* What Serves says of the steps of a master.
LEMMA MasterRests ==
  ASSUME Invariant, NEW m \in Masters
  PROVE  /\ sw[m] # "docked"
         /\ sw[m] \in Region \cup {"start"} => state[m] = "REQUEST_TYPE"
BY MasterAt DEF Serves, Region

\* A core that sleeps or waits for its turn is not on the slave port.
LEMMA NotAtPort ==
  ASSUME Invariant, NEW c \in Cores, sw[c] \notin SlaveAccess
  PROVE  ~accept[c] /\ slv # c
BY DEF Invariant, InStep

\* A team in which a slave is awake works.
LEMMA AwakeWorks ==
  ASSUME Invariant, NEW m \in Masters, NEW s \in Slaves[m], sw[s] # "docked" \/ ~stop[s]
  PROVE  Working(m)
BY DEF Invariant, Teams, TeamSound, Docked

\* RELEASE_OR_FREE_ACC: the master enters its region, or is through with it.
LEMMA ReleaseOrFreeAccStep ==
  ASSUME Invariant, NEW c \in Masters, ReleaseOrFreeAcc(c)
  PROVE  Invariant'
<1>1. /\ c \in Cores /\ Types /\ ~aborted /\ state[c] = "RELEASE_OR_FREE_ACC"
      /\ sw[c] \in {"release_mask", "free_read"} /\ hw_event' = hw_event
  BY MasterAt DEF ReleaseOrFreeAcc, Ack, Serves, Turn
<1>2. CASE sw[c] = "free_read"
  <2>1. (CASE sw[c] = "free_read" -> "start"
           [] sw[c] # "free_read" /\ bars[c] > 0 -> "barrier"
           [] OTHER -> "join") = "start"
    BY <1>2
  <2>2. Ack(c, "RELEASE_OR_FREE_ACC", "REQUEST_TYPE", "start")
    BY <2>1 DEF ReleaseOrFreeAcc
  <2>3. QED
    BY <1>1, <1>2, <2>2, QuietAck DEF States, MasterSteps, ProgramAccess, Region, Serves
<1>3. CASE sw[c] = "release_mask"
  <2>1. PICK a : a = IF bars[c] > 0 THEN "barrier" ELSE "join"
    OBVIOUS
  <2>2. (CASE sw[c] = "free_read" -> "start"
           [] sw[c] # "free_read" /\ bars[c] > 0 -> "barrier"
           [] OTHER -> "join") = a
    <3>1. CASE bars[c] > 0
      BY <1>3, <2>1, <3>1
    <3>2. CASE ~(bars[c] > 0)
      BY <1>3, <2>1, <3>2
    <3>3. QED
      BY <3>1, <3>2
  <2>3. Ack(c, "RELEASE_OR_FREE_ACC", "REQUEST_TYPE", a)
    BY <2>2 DEF ReleaseOrFreeAcc
  <2>4. /\ state' = [state EXCEPT ![c] = "REQUEST_TYPE"] /\ sw' = [sw EXCEPT ![c] = a]
        /\ Turn("programme") /\ prg' = NoCore
        /\ UNCHANGED <<cur, nxt, reply, ev, accept, stop, bars, seen, regions, slv, aborted>>
    BY <2>3 DEF Ack
  <2>5. a \in MasterSteps /\ a \in {"barrier", "join"} /\ "REQUEST_TYPE" \in States
    BY <2>1 DEF MasterSteps, Region, States
  <2>6. hw_event[c] \in 0 .. NEvents /\ hw_event' = [hw_event EXCEPT ![c] = hw_event[c]]
    BY <1>1, MasterAt
  <2>7. /\ state'[c] = "REQUEST_TYPE" /\ sw'[c] = a
        /\ thread' = "cores" /\ Types' /\ ~aborted'
        /\ \A d \in Cores : d # c => sw'[d] = sw[d] /\ state'[d] = state[d]
    BY <1>1, <2>4, <2>5, <2>6, AckFacts
  <2>8. ~accept[c] /\ slv # c /\ ~stop[c]
    BY <1>1, <1>3, NotAtPort DEF SlaveAccess, Asleep, Invariant, InStep
  <2>9. InStep'
    <3>1. ASSUME NEW m \in Masters PROVE Serves(state'[m], sw'[m])
      <4>1. m \in Cores /\ Serves(state[m], sw[m])
        BY MasterAt
      <4>2. CASE m = c
        BY <2>5, <2>7, <4>2 DEF Serves, Region
      <4>3. CASE m # c
        BY <2>7, <4>1, <4>3
      <4>4. QED
        BY <4>2, <4>3
    <3>2. ASSUME NEW d \in Cores \ Masters PROVE sw'[d] \in SlaveSteps
      BY <2>7 DEF Invariant, InStep
    <3>3. ASSUME NEW d \in Cores
          PROVE  /\ slv' = d => sw'[d] \in SlaveAccess
                 /\ accept'[d] => slv' = d
                 /\ stop'[d] => sw'[d] \in Asleep
      BY <2>4, <2>7, <2>8 DEF Invariant, InStep
    <3>4. QED
      BY <3>1, <3>2, <3>3 DEF InStep
  <2>10. Ownership'
    <3>1. ASSUME NEW m \in Masters
          PROVE  Holding(m)' = Holding(m) /\ Held(m)' = Held(m)
      <4>1. m \in Cores
        BY TeamFacts
      <4>2. CASE m = c
        BY <1>1, <1>3, <2>5, <2>7, <4>2 DEF Holding, Held, Region
      <4>3. CASE m # c
        BY <1>1, <2>4, <2>7, <4>1, <4>3 DEF Holding, Held
      <4>4. QED
        BY <4>2, <4>3
    <3>2. QED
      BY <2>4, <3>1, OwnershipFrame DEF Invariant
  <2>11. Teams'
    <3>1. ASSUME NEW m \in Masters PROVE TeamSound(m)'
      <4>1. TeamSound(m)
        BY DEF Invariant, Teams
      <4>2. CASE m = c
        <5>1. Working(c) /\ Working(c)' /\ ~Opening(c)' /\ sw'[c] # "in_join"
          BY <1>1, <1>3, <2>5, <2>7 DEF Working, Opening
        <5>2. hw_event[c] \in ev[c]
          BY <5>1, WorkingOwns DEF Invariant
        <5>3. c \in Team(c) /\ Team(c) \subseteq Cores /\ c \notin Slaves[c]
          BY TeamFacts
        <5>4. Waiting(c)' <=> Waiting(c)
          BY <2>4, <2>8 DEF Waiting
        <5>5. \A k \in 0 .. bars[c] : TakesPart(c, k, bars[c]) => TakesPart(c, k, bars[c])'
          <6>1. bars[c] \in Nat /\ bars'[c] = bars[c] /\ seen'[c] = seen[c]
            BY <1>1, <2>4, ConstantsAssumption DEF Types
          <6>2. QED
            BY <1>3, <2>1, <2>7, <6>1 DEF TakesPart
        <5>6. \A d \in Team(c) : d # c => /\ sw'[d] = sw[d] /\ stop'[d] = stop[d]
                                          /\ accept'[d] = accept[d] /\ seen'[d] = seen[d]
          BY <2>4, <2>7, <5>3
        <5>7. /\ bars'[c] = bars[c] /\ hw_event'[c] = hw_event[c] /\ ev'[c] = ev[c]
              /\ nxt' = nxt
          BY <1>1, <2>4
        <5>8. QED
          BY <4>1, <4>2, <5>1, <5>2, <5>3, <5>4, <5>5, <5>6, <5>7, OneMoves
      <4>3. CASE m # c
        BY <1>1, <2>4, <2>7, <4>3, OthersFrame
      <4>4. QED
        BY <4>2, <4>3
    <3>2. QED
      BY <3>1 DEF Teams
  <2>12. Signalled'
    BY <2>4, <2>7 DEF Invariant, Signalled, Owned
  <2>13. QED
    BY <2>7, <2>9, <2>10, <2>11, <2>12 DEF Invariant
<1>4. QED
  BY <1>1, <1>2, <1>3

\* A new region: the master asks for an event.
LEMMA TeamStartStep ==
  ASSUME Invariant, NEW c \in Masters, TeamStart(c)
  PROVE  Invariant'
<1>1. /\ c \in Cores /\ Types /\ ~aborted /\ thread = "cores" /\ sw[c] = "start"
      /\ regions' = [regions EXCEPT ![c] = @ + 1] /\ seen' = [seen EXCEPT ![c] = 0]
      /\ sw' = [sw EXCEPT ![c] = "ask_type"]
      /\ UNCHANGED <<cur, nxt, thread, state, reply, ev, accept, stop, hw_event, prg, slv, aborted>>
  BY MasterAt DEF TeamStart, Between, hwvars
<1>2. PICK b \in 0 .. MaxBars : bars' = [bars EXCEPT ![c] = b]
  BY DEF TeamStart
<1>3. state[c] = "REQUEST_TYPE"
  BY <1>1, MasterRests
<1>4. /\ sw'[c] = "ask_type" /\ seen'[c] = 0
      /\ \A d \in Cores : d # c => sw'[d] = sw[d] /\ seen'[d] = seen[d]
      /\ \A m \in Masters : m # c => bars'[m] = bars[m]
  BY <1>1, <1>2 DEF Types, TypeOK
<1>5. ~accept[c] /\ slv # c /\ ~stop[c]
  BY <1>1, NotAtPort DEF SlaveAccess, Asleep, Invariant, InStep
<1>6. Types'
  <2>1. sw' \in [Cores -> MasterSteps \cup {"docked"}]
    BY <1>1 DEF Types, MasterSteps, ProgramAccess
  <2>2. bars' \in [Masters -> 0 .. MaxBars] /\ regions' \in [Masters -> Nat]
    BY <1>1, <1>2 DEF Types
  <2>3. seen' \in [Cores -> 0 .. MaxBars + 1]
    BY <1>1, ConstantsAssumption DEF Types, TypeOK
  <2>4. TypeOK'
    BY <1>1, <2>3 DEF Types, TypeOK
  <2>5. QED
    BY <1>1, <2>1, <2>2, <2>4 DEF Types
<1>7. InStep'
  <2>1. ASSUME NEW m \in Masters PROVE Serves(state'[m], sw'[m])
    <3>1. m \in Cores /\ Serves(state[m], sw[m])
      BY MasterAt
    <3>2. CASE m = c
      BY <1>1, <1>3, <1>4, <3>2 DEF Serves
    <3>3. CASE m # c
      BY <1>1, <1>4, <3>1, <3>3
    <3>4. QED
      BY <3>2, <3>3
  <2>2. ASSUME NEW d \in Cores \ Masters PROVE sw'[d] \in SlaveSteps
    BY <1>4 DEF Invariant, InStep
  <2>3. ASSUME NEW d \in Cores
        PROVE  /\ slv' = d => sw'[d] \in SlaveAccess
               /\ accept'[d] => slv' = d
               /\ stop'[d] => sw'[d] \in Asleep
    BY <1>1, <1>4, <1>5 DEF Invariant, InStep
  <2>4. QED
    BY <2>1, <2>2, <2>3 DEF InStep
<1>8. Ownership'
  <2>1. ASSUME NEW m \in Masters PROVE Holding(m)' = Holding(m) /\ Held(m)' = Held(m)
    <3>1. m \in Cores
      BY TeamFacts
    <3>2. CASE m = c
      BY <1>1, <1>3, <1>4, <3>2 DEF Holding, Held, Region
    <3>3. CASE m # c
      BY <1>1, <1>4, <3>1, <3>3 DEF Holding, Held
    <3>4. QED
      BY <3>2, <3>3
  <2>2. QED
    BY <1>1, <2>1, OwnershipFrame DEF Invariant
<1>9. Teams'
  <2>1. ASSUME NEW m \in Masters PROVE TeamSound(m)'
    <3>1. TeamSound(m)
      BY DEF Invariant, Teams
    <3>2. CASE m = c
      <4>1. ~Working(c) /\ ~Working(c)' /\ sw'[c] # "in_join"
        BY <1>1, <1>4 DEF Working
      <4>2. \A s \in Slaves[c] : sw'[s] = sw[s] /\ stop'[s] = stop[s]
        BY <1>1, <1>4, TeamFacts
      <4>3. \A e \in ev'[c] : nxt'.counter[e] = Full(c) /\ nxt'.set_value[e] = Full(c)
        BY <1>1, <3>1, <3>2, <4>1 DEF TeamSound
      <4>4. QED
        BY <1>4, <3>1, <3>2, <4>1, <4>2, <4>3, TeamAtRest
    <3>3. CASE m # c
      <4>1. Team(m) \subseteq Cores /\ c \notin Team(m)
        BY <3>3, TeamFacts
      <4>2. \A d \in Team(m) : stop'[d] = stop[d] /\ accept'[d] = accept[d] /\ seen'[d] = seen[d]
        BY <1>1, <1>4, <4>1
      <4>3. QED
        BY <1>1, <1>4, <3>3, <4>2, OthersFrame
    <3>4. QED
      BY <3>2, <3>3
  <2>2. QED
    BY <2>1 DEF Teams
<1>10. Signalled'
  BY <1>1 DEF Invariant, Signalled, Owned
<1>11. QED
  BY <1>1, <1>6, <1>7, <1>8, <1>9, <1>10 DEF Invariant

\* A core puts its access on a free port.
LEMMA IssueStep ==
  ASSUME Invariant, NEW c \in Cores, Issue(c)
  PROVE  Invariant'
<1>1. /\ Types /\ ~aborted /\ thread = "cores"
      /\ UNCHANGED <<cur, nxt, thread, state, reply, ev, accept, stop, sw, hw_event, bars, seen,
                     regions, aborted>>
  BY DEF Issue, Between, hwvars, swvars, Invariant
<1>2. Ownership' /\ Teams'
  BY <1>1, Still
<1>3. Signalled'
  BY <1>1 DEF Invariant, Signalled, Owned
<1>4. CASE sw[c] \in ProgramAccess /\ prg' = c /\ slv' = slv
  <2>1. c \in Masters
    BY <1>4 DEF Invariant, InStep, SlaveSteps, ProgramAccess
  <2>2. Types'
    BY <1>1, <1>4, <2>1 DEF Types, TypeOK
  <2>3. InStep'
    BY <1>1, <1>4 DEF Invariant, InStep
  <2>4. QED
    BY <1>1, <1>2, <1>3, <2>2, <2>3 DEF Invariant
<1>5. CASE sw[c] \in SlaveAccess /\ slv = NoCore /\ slv' = c /\ prg' = prg
  <2>1. Types'
    BY <1>1, <1>5 DEF Types, TypeOK
  <2>2. \A d \in Cores : ~accept[d]
    BY <1>5, ConstantsAssumption DEF Invariant, InStep
  <2>3. InStep'
    BY <1>1, <1>5, <2>2 DEF Invariant, InStep
  <2>4. QED
    BY <1>1, <1>2, <1>3, <2>1, <2>3 DEF Invariant
<1>6. QED
  BY <1>4, <1>5 DEF Issue

\* A core of a team that sleeps, wakes up and goes on.
LEMMA ResumeStep ==
  ASSUME Invariant, NEW c \in Cores, Resume(c)
  PROVE  Invariant'
<1>1. /\ Types /\ ~aborted /\ thread = "cores" /\ ~stop[c] /\ sw[c] \in Asleep
      /\ UNCHANGED <<cur, nxt, thread, state, reply, ev, accept, stop, hw_event, bars, regions, prg,
                     slv, aborted>>
  BY DEF Resume, Between, hwvars, Invariant, Asleep
<1>2. PICK m \in Masters : c \in Team(m) /\ Leader(c) = m /\ (c \notin Masters => c \in Slaves[m])
  BY LeaderFacts
<1>3. /\ m \in Cores /\ Team(m) \subseteq Cores /\ (c \in Masters => c = m)
      /\ (c \in Slaves[m] => c \notin Masters)
  BY <1>2, TeamFacts
<1>4. TeamSound(m) /\ bars[m] \in 0 .. MaxBars /\ seen[c] \in 0 .. MaxBars + 1
  BY <1>1 DEF Invariant, Teams, Types, TypeOK
<1>5. ~accept[c] /\ slv # c
  BY <1>1, NotAtPort DEF SlaveAccess, Asleep
<1>6. PICK s \in 0 .. MaxBars + 1, a \in {"barrier", "join", "free_type"} :
        /\ seen' = [seen EXCEPT ![c] = s] /\ sw' = [sw EXCEPT ![c] = a]
        /\ \/ /\ Working(m) /\ sw[c] \in {"docked", "in_barrier"}
              /\ a = IF s < bars[m] THEN "barrier" ELSE "join"
              /\ \A k \in 0 .. bars[m] : TakesPart(c, k, bars[m]) => s = k
           \/ c = m /\ sw[c] = "in_join" /\ a = "free_type" /\ ~Working(m)
  <2>1. CASE sw[c] = "docked" /\ seen' = [seen EXCEPT ![c] = 0]
             /\ sw' = [sw EXCEPT ![c] = NextBarrier(c)]
    <3>1. c \notin Masters
      BY <2>1, MasterRests
    <3>2. Working(m)
      BY <1>1, <1>2, <3>1, AwakeWorks
    <3>3. NextBarrier(c) = IF 0 < bars[m] THEN "barrier" ELSE "join"
      BY <1>1, <1>2, <2>1 DEF NextBarrier, Types, TypeOK
    <3>4. \A k \in 0 .. bars[m] : TakesPart(c, k, bars[m]) => 0 = k
      BY <1>1, <2>1 DEF TakesPart
    <3>5. 0 \in 0 .. MaxBars + 1
      BY ConstantsAssumption
    <3>6. QED
      BY <2>1, <3>2, <3>3, <3>4, <3>5
  <2>2. CASE sw[c] = "in_barrier" /\ seen' = [seen EXCEPT ![c] = @ + 1]
             /\ sw' = [sw EXCEPT ![c] = NextBarrier(c)]
    <3>1. Working(m)
      <4>1. CASE c \in Masters
        BY <1>3, <2>2, <4>1 DEF Working
      <4>2. CASE c \notin Masters
        BY <1>2, <2>2, <4>2, AwakeWorks
      <4>3. QED
        BY <4>1, <4>2
    <3>2. PICK s : s = seen[c] + 1
      OBVIOUS
    <3>3. NextBarrier(c) = IF s < bars[m] THEN "barrier" ELSE "join"
      BY <1>1, <1>2, <2>2, <3>2 DEF NextBarrier, Types, TypeOK
    <3>4. \A k \in 0 .. bars[m] : TakesPart(c, k, bars[m]) => s = k
      BY <1>1, <2>2, <3>2 DEF TakesPart
    <3>5. s \in 0 .. MaxBars + 1
      <4>1. PICK k \in 0 .. bars[m] : TakesPart(c, k, bars[m])
        BY <1>2, <1>4, <3>1 DEF TeamSound, Together
      <4>2. s = k
        BY <3>4, <4>1
      <4>3. QED
        BY <1>4, <4>1, <4>2, ConstantsAssumption
    <3>6. QED
      BY <2>2, <3>1, <3>2, <3>3, <3>4, <3>5
  <2>3. CASE sw[c] = "in_join" /\ seen' = [seen EXCEPT ![c] = @ + 1]
             /\ sw' = [sw EXCEPT ![c] = "free_type"]
    <3>1. c = m
      BY <1>3, <2>3 DEF Invariant, InStep, SlaveSteps
    <3>2. ~Working(m)
      BY <1>1, <2>3, <3>1 DEF Working
    <3>3. seen[c] + 1 \in 0 .. MaxBars + 1
      BY <1>4, <2>3, <3>1, ConstantsAssumption DEF TeamSound
    <3>4. QED
      BY <2>3, <3>1, <3>2, <3>3
  <2>4. QED
    BY <2>1, <2>2, <2>3 DEF Resume
<1>7. /\ sw'[c] = a /\ seen'[c] = s
      /\ \A d \in Cores : d # c => sw'[d] = sw[d] /\ seen'[d] = seen[d]
  BY <1>1, <1>6 DEF Types, TypeOK
<1>8. a = "free_type" => c = m /\ c \in Masters
  BY <1>6
<1>9. Types'
  <2>1. sw' \in [Cores -> MasterSteps \cup {"docked"}]
    BY <1>1, <1>6 DEF Types, MasterSteps, ProgramAccess, Region
  <2>2. seen' \in [Cores -> 0 .. MaxBars + 1]
    BY <1>1, <1>6 DEF Types, TypeOK
  <2>3. TypeOK'
    BY <1>1, <2>2 DEF Types, TypeOK
  <2>4. QED
    BY <1>1, <2>1, <2>3 DEF Types
<1>10. \A n \in Masters : n = c => state[n] = "REQUEST_TYPE" /\ sw[n] \in Region
  BY <1>1, MasterRests DEF Region, Asleep
<1>11. InStep'
  <2>1. ASSUME NEW n \in Masters PROVE Serves(state'[n], sw'[n])
    <3>1. n \in Cores /\ Serves(state[n], sw[n])
      BY MasterAt
    <3>2. CASE n = c
      BY <1>1, <1>6, <1>7, <1>10, <3>2 DEF Serves, Region
    <3>3. CASE n # c
      BY <1>1, <1>7, <3>1, <3>3
    <3>4. QED
      BY <3>2, <3>3
  <2>2. ASSUME NEW d \in Cores \ Masters PROVE sw'[d] \in SlaveSteps
    <3>1. CASE d = c
      BY <1>6, <1>7, <1>8, <3>1 DEF SlaveSteps
    <3>2. CASE d # c
      BY <1>7, <3>2 DEF Invariant, InStep
    <3>3. QED
      BY <3>1, <3>2
  <2>3. ASSUME NEW d \in Cores
        PROVE  /\ slv' = d => sw'[d] \in SlaveAccess
               /\ accept'[d] => slv' = d
               /\ stop'[d] => sw'[d] \in Asleep
    BY <1>1, <1>5, <1>7 DEF Invariant, InStep
  <2>4. QED
    BY <2>1, <2>2, <2>3 DEF InStep
<1>12. Ownership'
  <2>1. ASSUME NEW n \in Masters PROVE Holding(n)' = Holding(n) /\ Held(n)' = Held(n)
    <3>1. n \in Cores
      BY TeamFacts
    <3>2. CASE n = c
      BY <1>1, <1>6, <1>7, <1>10, <3>2 DEF Holding, Held, Region
    <3>3. CASE n # c
      BY <1>1, <1>7, <3>1, <3>3 DEF Holding, Held
    <3>4. QED
      BY <3>2, <3>3
  <2>2. QED
    BY <1>1, <2>1, OwnershipFrame DEF Invariant
<1>13. TeamSound(m)'
  <2>1. CASE /\ Working(m) /\ sw[c] \in {"docked", "in_barrier"}
             /\ a = IF s < bars[m] THEN "barrier" ELSE "join"
             /\ \A k \in 0 .. bars[m] : TakesPart(c, k, bars[m]) => s = k
    <3>1. hw_event[m] \in ev[m]
      BY <2>1, WorkingOwns DEF Invariant
    <3>2. \A d \in Team(m) : d # c => /\ sw'[d] = sw[d] /\ stop'[d] = stop[d]
                                      /\ accept'[d] = accept[d] /\ seen'[d] = seen[d]
      BY <1>1, <1>3, <1>7
    <3>3. a \in {"barrier", "join"}
      BY <2>1
    <3>4. Working(m)'
      BY <1>1, <1>3, <1>7, <2>1, <3>3 DEF Working
    <3>5. Waiting(c)' <=> Waiting(c)
      BY <1>1, <1>5, <1>7, <3>3 DEF Waiting
    <3>6. c \in Slaves[m] => (c \in Enrolled(m)' <=> c \in Enrolled(m))
      BY <1>1, <1>5, <1>7, <2>1, <3>3 DEF Enrolled
    <3>7. \A k \in 0 .. bars[m] : TakesPart(c, k, bars[m]) => TakesPart(c, k, bars[m])'
      <4>1. ASSUME NEW k \in 0 .. bars[m], TakesPart(c, k, bars[m]) PROVE TakesPart(c, k, bars[m])'
        <5>1. s = k /\ bars'[m] = bars[m]
          BY <1>1, <2>1, <4>1
        <5>2. CASE s < bars[m]
          BY <1>7, <2>1, <5>1, <5>2 DEF TakesPart
        <5>3. CASE ~(s < bars[m])
          <6>1. k = bars[m] /\ a = "join"
            BY <1>4, <2>1, <5>1, <5>3
          <6>2. QED
            BY <1>7, <5>1, <6>1 DEF TakesPart
        <5>4. QED
          BY <5>2, <5>3
      <4>2. QED
        BY <4>1
    <3>8. Opening(m)' => seen'[m] = 0
      <4>1. CASE c = m
        BY <1>7, <3>3, <4>1 DEF Opening
      <4>2. CASE c # m
        BY <1>3, <1>4, <1>7, <4>2 DEF Opening, TeamSound
      <4>3. QED
        BY <4>1, <4>2
    <3>9. sw'[m] = "in_join" => seen'[m] = bars'[m]
      BY <1>1, <1>3, <1>4, <1>7, <3>3 DEF TeamSound
    <3>10. bars'[m] = bars[m] /\ hw_event'[m] = hw_event[m] /\ ev'[m] = ev[m] /\ nxt' = nxt
      BY <1>1
    <3>11. QED
      BY <1>2, <1>4, <2>1, <3>1, <3>2, <3>4, <3>5, <3>6, <3>7, <3>8, <3>9, <3>10, OneMoves
  <2>2. CASE c = m /\ sw[c] = "in_join" /\ a = "free_type" /\ ~Working(m)
    <3>1. ~Working(m)' /\ ~Opening(m)' /\ sw'[m] # "in_join"
      BY <1>7, <2>2 DEF Working, Opening
    <3>2. \A d \in Slaves[m] : sw'[d] = sw[d] /\ stop'[d] = stop[d]
      BY <1>1, <1>7, <2>2, TeamFacts
    <3>3. \A e \in ev'[m] : nxt'.counter[e] = Full(m) /\ nxt'.set_value[e] = Full(m)
      BY <1>1, <1>4, <2>2 DEF TeamSound
    <3>4. QED
      BY <1>4, <2>2, <3>1, <3>2, <3>3, TeamAtRest
  <2>3. QED
    BY <1>6, <2>1, <2>2
<1>14. Teams'
  <2>1. ASSUME NEW n \in Masters, n # m PROVE TeamSound(n)'
    <3>1. c \notin Team(n) /\ Team(n) \subseteq Cores /\ n \in Cores
      BY <1>2, <2>1, TeamFacts
    <3>2. Unmoved(n)
      BY <1>1, <1>7, <3>1 DEF Unmoved
    <3>3. Working(n) => hw_event[n] \in ev[n]
      BY WorkingOwns DEF Invariant
    <3>4. QED
      BY <3>2, <3>3, TeamFrame DEF Invariant, Teams
  <2>2. QED
    BY <1>13, <2>1 DEF Teams
<1>15. Signalled'
  BY <1>1 DEF Invariant, Signalled, Owned
<1>16. QED
  BY <1>1, <1>9, <1>11, <1>12, <1>14, <1>15 DEF Invariant

-----------------------------------------------------------------------------
(* The clock and the thread signal(). *)

\* An event with an owner is reserved.
LEMMA OwnedCount ==
  ASSUME Invariant, NEW m \in Masters, NEW e \in ev[m]
  PROVE  /\ nxt.counter[e] \in Nat /\ nxt.counter[e] >= Reserved
         /\ nxt.counter[e] = Reserved =>
              Working(m) /\ e = hw_event[m] /\ \A c \in Team(m) : Waiting(c)
<1>1. TeamSound(m)
  BY DEF Invariant, Teams
<1>2. CASE Working(m)
  <2>1. e = hw_event[m]
    BY <1>2, WorkingOwns DEF Invariant
  <2>2. Missing(m) \subseteq Team(m)
    BY DEF Missing
  <2>3. Cardinality(Missing(m)) \in Nat /\ (Cardinality(Missing(m)) = 0 <=> Missing(m) = {})
    BY <2>2, CountFacts
  <2>4. nxt.counter[e] = Reserved + Cardinality(Missing(m))
    BY <1>1, <1>2, <2>1 DEF TeamSound
  <2>5. Missing(m) = {} => \A c \in Team(m) : Waiting(c)
    BY DEF Missing
  <2>6. QED
    BY <1>2, <2>1, <2>3, <2>4, <2>5 DEF Reserved
<1>3. CASE ~Working(m)
  <2>1. nxt.counter[e] = Full(m)
    BY <1>1, <1>3 DEF TeamSound
  <2>2. QED
    BY <2>1, FullFacts DEF Reserved
<1>4. QED
  BY <1>2, <1>3

\* An event is free exactly if it has no owner.
LEMMA FreeUnowned ==
  ASSUME Invariant, NEW e \in Events
  PROVE  nxt.counter[e] < Reserved <=> ~Owned(e)
<1>1. CASE Owned(e)
  <2>1. PICK m \in Masters : e \in ev[m]
    BY <1>1 DEF Owned
  <2>2. QED
    BY <1>1, <2>1, OwnedCount DEF Reserved
<1>2. CASE ~Owned(e)
  BY <1>2 DEF Invariant, Signalled, Reserved
<1>3. QED
  BY <1>1, <1>2

\* A clock edge: the threads see which events are free.
LEMMA ClockStep ==
  ASSUME Invariant, Clock
  PROVE  Invariant'
<1>1. /\ Types /\ ~aborted /\ thread' = "signal" /\ cur' = nxt
      /\ UNCHANGED <<nxt, state, reply, ev, accept, stop, sw, hw_event, bars, seen, regions,
                     prg, slv, aborted>>
  BY AfterFacts DEF Clock, Turn, swvars, Invariant
<1>2. Types'
  BY <1>1 DEF Types, TypeOK
<1>3. Ownership' /\ Teams' /\ \A e \in Events : Owned(e)' <=> Owned(e)
  BY <1>1, Still
<1>4. InStep'
  BY <1>1 DEF Invariant, InStep
<1>5. Signalled'
  <2>1. \A e \in Events : Free(e)' <=> ~Owned(e)
    BY <1>1, FreeUnowned DEF Free
  <2>2. \A e \in Events : ~Owned(e) => nxt.counter[e] = 0
    BY DEF Invariant, Signalled
  <2>3. QED
    BY <1>1, <1>3, <2>1, <2>2 DEF Signalled
<1>6. QED
  BY <1>1, <1>2, <1>3, <1>4, <1>5 DEF Invariant

\* No request at the master port.
LEMMA ProgrammeIdleStep ==
  ASSUME Invariant, ProgrammeIdle
  PROVE  Invariant'
<1>1. /\ Types /\ ~aborted /\ thread' = "cores"
      /\ UNCHANGED <<cur, nxt, state, reply, ev, accept, stop, sw, hw_event, bars, seen, regions,
                     prg, slv, aborted>>
  BY AfterFacts DEF ProgrammeIdle, Turn, swvars, Invariant
<1>2. Types'
  BY <1>1 DEF Types, TypeOK
<1>3. Ownership' /\ Teams' /\ \A e \in Events : Owned(e)' <=> Owned(e)
  BY <1>1, Still
<1>4. InStep' /\ Signalled'
  BY <1>1, <1>3 DEF Invariant, InStep, Signalled
<1>5. QED
  BY <1>1, <1>2, <1>3, <1>4 DEF Invariant

\* When signal() begins, the cores of a complete event are stopped, but for the
\* last one, whose store is about to complete.
LEMMA LastToStop ==
  ASSUME Invariant, NEW m \in Masters, NEW e \in ev[m], nxt.counter[e] = Reserved,
         NEW c \in Team(m)
  PROVE  stop[c] \/ (accept[c] /\ slv = c)
<1>1. Waiting(c) /\ c \in Cores
  BY OwnedCount, TeamFacts
<1>2. QED
  BY <1>1 DEF Waiting, Invariant, InStep

\* No arrival: the counters are written back as they are.
LEMMA SignalIdleStep ==
  ASSUME Invariant, SignalIdle
  PROVE  Invariant'
<1>1. /\ Types /\ ~aborted /\ thread = "signal" /\ thread' = "notify" /\ slv = NoCore
      /\ nxt' = [nxt EXCEPT !.counter = cur.counter]
      /\ UNCHANGED <<cur, state, reply, ev, accept, stop, sw, hw_event, bars, seen, regions,
                     prg, slv, aborted>>
  BY AfterFacts DEF SignalIdle, Turn, swvars, Invariant
<1>2. cur = nxt /\ nxt \in Signals
  BY <1>1 DEF Invariant, Signalled, Types, TypeOK
<1>3. nxt' = nxt
  BY <1>1, <1>2 DEF Signals
<1>4. Types'
  BY <1>1, <1>3 DEF Types, TypeOK
<1>5. Ownership' /\ Teams' /\ \A e \in Events : Owned(e)' <=> Owned(e)
  BY <1>1, <1>3, Still
<1>6. InStep'
  BY <1>1 DEF Invariant, InStep
<1>7. Signalled'
  <2>1. ASSUME NEW e \in Events, cur.counter[e] = Reserved, NEW m \in Masters, e \in ev[m],
               NEW c \in Team(m)
        PROVE  stop[c]
    <3>1. c # NoCore /\ nxt.counter[e] = Reserved
      BY <1>2, <2>1, TeamFacts, ConstantsAssumption
    <3>2. QED
      BY <1>1, <2>1, <3>1, LastToStop
  <2>2. /\ \A e \in Events : ~Owned(e) => nxt.counter[e] = 0
        /\ \A e \in Events : Free(e) <=> ~Owned(e)
    BY <1>1 DEF Invariant, Signalled
  <2>3. \A e \in Events : Free(e)' <=> Free(e)
    BY <1>1 DEF Free
  <2>4. QED
    BY <1>1, <1>2, <1>3, <1>5, <2>1, <2>2, <2>3 DEF Signalled
<1>8. QED
  BY <1>1, <1>4, <1>5, <1>6, <1>7 DEF Invariant

\* The store of core c completes: it sleeps, and counts as before.
LEMMA SignalStopStep ==
  ASSUME Invariant, NEW c \in Cores, SignalStop(c)
  PROVE  Invariant'
<1>1. /\ Types /\ ~aborted /\ thread = "signal" /\ thread' = "notify" /\ slv = c /\ accept[c]
      /\ nxt' = [nxt EXCEPT !.counter = cur.counter]
      /\ accept' = [accept EXCEPT ![c] = FALSE] /\ stop' = [stop EXCEPT ![c] = TRUE]
      /\ slv' = NoCore
      /\ UNCHANGED <<cur, state, reply, ev, hw_event, bars, seen, regions, prg, aborted>>
  BY AfterFacts DEF SignalStop, Turn, Invariant
<1>2. cur = nxt /\ nxt \in Signals /\ sw[c] \in {"barrier", "join"}
  BY <1>1 DEF Invariant, Signalled, Types, TypeOK, InStep, SlaveAccess
<1>3. nxt' = nxt
  BY <1>1, <1>2 DEF Signals
<1>4. PICK a : /\ sw' = [sw EXCEPT ![c] = a]
               /\ sw[c] = "barrier" => a = "in_barrier"
               /\ sw[c] = "join" /\ c \in Masters => a = "in_join"
               /\ sw[c] = "join" /\ c \notin Masters => a = "docked"
  <2>1. PICK a : a = CASE sw[c] = "barrier" -> "in_barrier"
                       [] sw[c] = "join" /\ c \in Masters -> "in_join"
                       [] OTHER -> "docked"
    OBVIOUS
  <2>2. sw' = [sw EXCEPT ![c] = a]
    BY <2>1 DEF SignalStop
  <2>3. sw[c] = "barrier" => a = "in_barrier"
    BY <2>1
  <2>4. sw[c] = "join" /\ c \in Masters => a = "in_join"
    BY <2>1
  <2>5. sw[c] = "join" /\ c \notin Masters => a = "docked"
    BY <2>1
  <2>6. QED
    BY <2>2, <2>3, <2>4, <2>5
<1>5. /\ a \in Asleep /\ sw'[c] = a /\ stop'[c] /\ ~accept'[c]
      /\ \A d \in Cores : d # c => sw'[d] = sw[d] /\ stop'[d] = stop[d] /\ accept'[d] = accept[d]
  BY <1>1, <1>2, <1>4 DEF Types, TypeOK, Asleep
<1>6. Types'
  <2>1. sw' \in [Cores -> MasterSteps \cup {"docked"}]
    BY <1>1, <1>4, <1>5 DEF Types, MasterSteps, Region, Asleep
  <2>2. accept' \in [Cores -> BOOLEAN] /\ stop' \in [Cores -> BOOLEAN]
    BY <1>1 DEF Types, TypeOK
  <2>3. TypeOK'
    BY <1>1, <1>3, <2>2 DEF Types, TypeOK
  <2>4. QED
    BY <1>1, <2>1, <2>3 DEF Types
<1>7. c \in Masters => state[c] = "REQUEST_TYPE" /\ sw[c] \in Region /\ a \in Region
  BY <1>2, <1>4, MasterRests DEF Region
<1>8. InStep'
  <2>1. ASSUME NEW n \in Masters PROVE Serves(state'[n], sw'[n])
    <3>1. n \in Cores /\ Serves(state[n], sw[n])
      BY MasterAt
    <3>2. CASE n = c
      BY <1>1, <1>5, <1>7, <3>2 DEF Serves
    <3>3. CASE n # c
      BY <1>1, <1>5, <3>1, <3>3
    <3>4. QED
      BY <3>2, <3>3
  <2>2. ASSUME NEW d \in Cores \ Masters PROVE sw'[d] \in SlaveSteps
    <3>1. CASE d = c
      BY <1>2, <1>4, <1>5, <3>1 DEF SlaveSteps
    <3>2. CASE d # c
      BY <1>5, <3>2 DEF Invariant, InStep
    <3>3. QED
      BY <3>1, <3>2
  <2>3. ASSUME NEW d \in Cores
        PROVE  /\ slv' = d => sw'[d] \in SlaveAccess
               /\ accept'[d] => slv' = d
               /\ stop'[d] => sw'[d] \in Asleep
    BY <1>1, <1>5, ConstantsAssumption DEF Invariant, InStep
  <2>4. QED
    BY <2>1, <2>2, <2>3 DEF InStep
<1>9. Ownership'
  <2>1. ASSUME NEW n \in Masters PROVE Holding(n)' = Holding(n) /\ Held(n)' = Held(n)
    <3>1. n \in Cores
      BY TeamFacts
    <3>2. CASE n = c
      BY <1>1, <1>5, <1>7, <3>2 DEF Holding, Held
    <3>3. CASE n # c
      BY <1>1, <1>5, <3>1, <3>3 DEF Holding, Held
    <3>4. QED
      BY <3>2, <3>3
  <2>2. QED
    BY <1>1, <2>1, OwnershipFrame DEF Invariant
<1>10. PICK m \in Masters : c \in Team(m) /\ (c \notin Masters => c \in Slaves[m])
  BY LeaderFacts
<1>11. m \in Cores /\ Team(m) \subseteq Cores /\ (c \in Masters => c = m) /\ m \notin Slaves[m]
  BY <1>10, TeamFacts
<1>12. TeamSound(m)'
  <2>1. TeamSound(m) /\ bars[m] \in 0 .. MaxBars
    BY <1>1 DEF Invariant, Teams, Types
  <2>2. Working(m) /\ Working(m)'
    <3>1. CASE c \in Masters
      BY <1>1, <1>2, <1>4, <1>5, <1>11, <3>1 DEF Working
    <3>2. CASE c \notin Masters
      <4>1. Working(m) /\ c # m
        BY <1>2, <1>10, <3>2, AwakeWorks
      <4>2. QED
        BY <1>1, <1>5, <1>11, <4>1 DEF Working
    <3>3. QED
      BY <3>1, <3>2
  <2>3. hw_event[m] \in ev[m]
    BY <2>2, WorkingOwns DEF Invariant
  <2>4. \A d \in Team(m) : d # c => /\ sw'[d] = sw[d] /\ stop'[d] = stop[d]
                                    /\ accept'[d] = accept[d] /\ seen'[d] = seen[d]
    BY <1>1, <1>5, <1>11
  <2>5. Waiting(c)' <=> Waiting(c)
    BY <1>1, <1>5 DEF Waiting, Asleep
  <2>6. c \in Slaves[m] => (c \in Enrolled(m)' <=> c \in Enrolled(m))
    BY <1>1, <1>2, <1>4, <1>5, <1>11 DEF Enrolled
  <2>7. \A k \in 0 .. bars[m] : TakesPart(c, k, bars[m]) => TakesPart(c, k, bars[m])'
    BY <1>1, <1>2, <1>4, <1>5 DEF TakesPart
  <2>8. Opening(m)' => seen'[m] = 0
    <3>1. CASE c = m
      BY <1>5, <3>1 DEF Opening, Asleep
    <3>2. CASE c # m
      BY <1>1, <1>5, <1>11, <2>1, <3>2 DEF Opening, TeamSound
    <3>3. QED
      BY <3>1, <3>2
  <2>9. sw'[m] = "in_join" => seen'[m] = bars'[m]
    <3>1. CASE c = m
      <4>1. PICK k \in 0 .. bars[m] : TakesPart(c, k, bars[m])
        BY <1>10, <2>1, <2>2 DEF TeamSound, Together
      <4>2. sw'[m] = "in_join" => sw[c] = "join"
        BY <1>2, <1>4, <1>5, <3>1
      <4>3. QED
        BY <1>1, <3>1, <4>1, <4>2 DEF TakesPart
    <3>2. CASE c # m
      BY <1>1, <1>5, <1>11, <2>1, <3>2 DEF TeamSound
    <3>3. QED
      BY <3>1, <3>2
  <2>10. bars'[m] = bars[m] /\ hw_event'[m] = hw_event[m] /\ ev'[m] = ev[m] /\ nxt' = nxt
    BY <1>1, <1>3
  <2>11. QED
    BY <1>10, <2>1, <2>2, <2>3, <2>4, <2>5, <2>6, <2>7, <2>8, <2>9, <2>10, OneMoves
<1>13. Teams'
  <2>1. ASSUME NEW n \in Masters, n # m PROVE TeamSound(n)'
    <3>1. c \notin Team(n) /\ Team(n) \subseteq Cores /\ n \in Cores
      BY <1>10, <2>1, TeamFacts
    <3>2. Unmoved(n)
      BY <1>1, <1>3, <1>5, <3>1 DEF Unmoved
    <3>3. Working(n) => hw_event[n] \in ev[n]
      BY WorkingOwns DEF Invariant
    <3>4. QED
      BY <3>2, <3>3, TeamFrame DEF Invariant, Teams
  <2>2. QED
    BY <1>12, <2>1 DEF Teams
<1>14. Signalled'
  <2>1. ASSUME NEW e \in Events, cur.counter[e] = Reserved, NEW n \in Masters, e \in ev[n],
               NEW d \in Team(n)
        PROVE  stop'[d]
    <3>1. d \in Cores /\ nxt.counter[e] = Reserved
      BY <1>2, <2>1, TeamFacts
    <3>2. stop[d] \/ d = c
      BY <1>1, <2>1, <3>1, LastToStop
    <3>3. QED
      BY <1>5, <3>1, <3>2
  <2>2. /\ \A e \in Events : ~Owned(e) => nxt.counter[e] = 0
        /\ \A e \in Events : Free(e) <=> ~Owned(e)
    BY <1>1 DEF Invariant, Signalled
  <2>3. \A e \in Events : (Free(e)' <=> Free(e)) /\ (Owned(e)' <=> Owned(e))
    BY <1>1 DEF Free, Owned
  <2>4. QED
    BY <1>1, <1>2, <1>3, <2>1, <2>2, <2>3 DEF Signalled
<1>15. QED
  BY <1>1, <1>6, <1>8, <1>9, <1>13, <1>14 DEF Invariant

\* An arrival is expected: the asserts of signal() hold and the counter goes
\* down with the number of missing cores.
LEMMA SignalArriveStep ==
  ASSUME Invariant, NEW c \in Cores, SignalArrive(c)
  PROVE  Invariant'
<1>1. /\ Types /\ ~aborted /\ thread = "signal" /\ thread' = "notify" /\ slv = c /\ ~accept[c]
      /\ accept' = [accept EXCEPT ![c] = TRUE]
      /\ UNCHANGED <<cur, state, reply, ev, stop, sw, hw_event, bars, seen, regions, prg, slv>>
  BY AfterFacts DEF SignalArrive, Turn, swvars, Invariant
<1>2. cur = nxt /\ nxt \in Signals /\ sw[c] \in {"barrier", "join"}
  BY <1>1 DEF Invariant, Signalled, Types, TypeOK, InStep, SlaveAccess
<1>3. PICK m \in Masters : c \in Team(m) /\ Leader(c) = m /\ (c \notin Masters => c \in Slaves[m])
  BY LeaderFacts
<1>4. m \in Cores /\ Team(m) \subseteq Cores /\ (c \in Masters => c = m) /\ m \notin Slaves[m]
  BY <1>3, TeamFacts
<1>5. Working(m) /\ TeamSound(m)
  <2>1. CASE c \in Masters
    BY <1>2, <1>4, <2>1 DEF Working, Invariant, Teams
  <2>2. CASE c \notin Masters
    BY <1>2, <1>3, <2>2, AwakeWorks DEF Invariant, Teams
  <2>3. QED
    BY <2>1, <2>2
<1>6. PICK e : e = hw_event[m]
  OBVIOUS
<1>7. e \in Events /\ ev[m] = {e}
  BY <1>5, <1>6, WorkingOwns DEF Invariant
<1>8. c \in Missing(m)
  BY <1>1, <1>2, <1>3 DEF Missing, Waiting
<1>9. PICK n : n = Cardinality(Missing(m))
  OBVIOUS
<1>10. n \in Nat /\ n > 0 /\ n < Reserved /\ Cardinality(Missing(m) \ {c}) = n - 1
  <2>1. Missing(m) \subseteq Team(m) /\ Missing(m) # {}
    BY <1>8 DEF Missing
  <2>2. Cardinality(Missing(m)) \in Nat /\ Cardinality(Missing(m)) < Reserved
    BY <2>1, CountFacts
  <2>3. Cardinality(Missing(m)) = 0 <=> Missing(m) = {}
    BY <2>1, CountFacts
  <2>4. Cardinality(Missing(m) \ {c}) = Cardinality(Missing(m)) - 1
    BY <1>8, <2>1, CountFacts
  <2>5. QED
    BY <1>9, <2>1, <2>2, <2>3, <2>4
<1>11. nxt.counter[e] = Reserved + n
  BY <1>5, <1>6, <1>9 DEF TeamSound
<1>12. EventOf(c) = e /\ e \in Events /\ cur.counter[e] > Reserved
  BY <1>2, <1>3, <1>6, <1>7, <1>10, <1>11 DEF EventOf, Reserved
<1>13. aborted' = FALSE
  BY <1>12 DEF SignalArrive
<1>14. PICK k : k = IF SetsMask(c) THEN nxt.mask[e] \cup {c} ELSE nxt.mask[e]
  OBVIOUS
<1>15. nxt' = [counter   |-> [nxt.counter EXCEPT ![e] = Reserved + (n - 1)],
               set_value |-> nxt.set_value,
               mask      |-> [nxt.mask EXCEPT ![e] = k],
               default   |-> nxt.default,
               notify    |-> nxt.notify]
  <2>1. nxt = [counter |-> nxt.counter, set_value |-> nxt.set_value, mask |-> nxt.mask,
               default |-> nxt.default, notify |-> nxt.notify]
    BY <1>2 DEF Signals
  <2>2. nxt' = [nxt EXCEPT !.counter = [cur.counter EXCEPT ![e] = @ - 1],
                           !.mask[e] = IF SetsMask(c) THEN cur.mask[e] \cup {c} ELSE @]
    BY <1>12 DEF SignalArrive
  <2>3. [cur.counter EXCEPT ![e] = @ - 1] = [nxt.counter EXCEPT ![e] = Reserved + (n - 1)]
    BY <1>2, <1>7, <1>10, <1>11, SignalFields DEF Reserved
  <2>4. PICK x : x = [nxt.counter EXCEPT ![e] = Reserved + (n - 1)]
    OBVIOUS
  <2>5. nxt' = [nxt EXCEPT !.counter = x, !.mask[e] = k]
    <3>1. CASE SetsMask(c)
      BY <1>2, <1>14, <2>2, <2>3, <2>4, <3>1
    <3>2. CASE ~SetsMask(c)
      BY <1>2, <1>14, <2>2, <2>3, <2>4, <3>2
    <3>3. QED
      BY <3>1, <3>2
  <2>6. QED
    BY <2>1, <2>4, <2>5
<1>16. nxt' \in Signals
  <2>1. [nxt.counter EXCEPT ![e] = Reserved + (n - 1)] \in [Events -> 0 .. 255]
    <3>1. Reserved + (n - 1) \in 0 .. 255
      BY <1>10 DEF Reserved
    <3>2. nxt.counter \in [Events -> 0 .. 255]
      BY <1>2, SignalFields
    <3>3. QED
      BY <3>1, <3>2
  <2>2. [nxt.mask EXCEPT ![e] = k] \in [Events -> SUBSET Cores]
    <3>1. nxt.mask \in [Events -> SUBSET Cores]
      BY <1>2, SignalFields
    <3>2. k \in SUBSET Cores
      BY <1>7, <1>14, <3>1
    <3>3. QED
      BY <3>1, <3>2
  <2>3. QED
    BY <1>2, <1>15, <2>1, <2>2, SignalFields DEF Signals
<1>17. /\ nxt'.counter = [nxt.counter EXCEPT ![e] = Reserved + (n - 1)]
       /\ nxt'.set_value = nxt.set_value /\ nxt'.default = nxt.default
       /\ nxt'.mask = [nxt.mask EXCEPT ![e] = k]
  BY <1>15
<1>18. accept'[c] /\ \A d \in Cores : d # c => accept'[d] = accept[d]
  BY <1>1 DEF Types, TypeOK
<1>19. Types'
  <2>1. accept' \in [Cores -> BOOLEAN]
    BY <1>1 DEF Types, TypeOK
  <2>2. TypeOK'
    BY <1>1, <1>13, <1>16, <2>1 DEF Types, TypeOK
  <2>3. QED
    BY <1>1, <2>2 DEF Types
<1>20. InStep'
  BY <1>1, <1>18 DEF Invariant, InStep
<1>21. Ownership'
  <2>1. \A q \in Masters : Holding(q)' = Holding(q) /\ Held(q)' = Held(q)
    BY <1>1 DEF Holding, Held
  <2>2. QED
    BY <1>1, <2>1, OwnershipFrame DEF Invariant
<1>22. TeamSound(m)'
  <2>1. Working(m)' /\ Opening(m)' = Opening(m)
    BY <1>1, <1>5 DEF Working, Opening
  <2>2. Together(m)'
    <3>1. PICK j \in 0 .. bars[m] : \A d \in Team(m) : TakesPart(d, j, bars[m])
      BY <1>5 DEF TeamSound, Together
    <3>2. \A d \in Team(m) : TakesPart(d, j, bars[m])'
      BY <1>1, <3>1 DEF TakesPart
    <3>3. QED
      BY <1>1, <3>1, <3>2 DEF Together
  <2>3. Missing(m)' = Missing(m) \ {c}
    <3>1. \A d \in Team(m) : d # c => (Waiting(d)' <=> Waiting(d))
      BY <1>1, <1>4, <1>18 DEF Waiting
    <3>2. Waiting(c)'
      BY <1>18 DEF Waiting
    <3>3. QED
      BY <3>1, <3>2 DEF Missing
  <2>4. nxt'.mask[e] = {m} \cup Enrolled(m)'
    <3>1. nxt.mask[e] = {m} \cup Enrolled(m)
      BY <1>5, <1>6 DEF TeamSound
    <3>2. nxt'.mask[e] = k
      BY <1>2, <1>7, <1>17, SignalFields
    <3>3. \A s \in Slaves[m] : s \in Cores /\ (s # c => (s \in Enrolled(m)' <=> s \in Enrolled(m)))
      BY <1>1, <1>4, <1>18, TeamFacts DEF Enrolled
    <3>4. Enrolled(m) \subseteq Slaves[m] /\ Enrolled(m)' \subseteq Slaves[m]
      BY DEF Enrolled
    <3>5. CASE SetsMask(c)
      <4>1. c \in Slaves[m] /\ sw[c] = "barrier"
        BY <1>3, <3>5 DEF SetsMask
      <4>2. c \in Enrolled(m)'
        BY <1>1, <1>18, <4>1 DEF Enrolled
      <4>3. Enrolled(m)' = Enrolled(m) \cup {c}
        BY <3>3, <3>4, <4>1, <4>2
      <4>4. QED
        BY <1>14, <3>1, <3>2, <3>5, <4>3
    <3>6. CASE ~SetsMask(c)
      <4>1. c \in Slaves[m] => sw[c] = "join"
        BY <1>2, <3>6, TeamFacts DEF SetsMask
      <4>2. c \notin Enrolled(m)' /\ c \notin Enrolled(m)
        BY <1>1, <4>1 DEF Enrolled
      <4>3. Enrolled(m)' = Enrolled(m)
        BY <3>3, <3>4, <4>2
      <4>4. QED
        BY <1>14, <3>1, <3>2, <3>6, <4>3
    <3>7. QED
      BY <3>5, <3>6
  <2>5. nxt'.counter[e] = Reserved + Cardinality(Missing(m)')
    BY <1>2, <1>7, <1>10, <1>17, <2>3, SignalFields
  <2>6. /\ Opening(m)' => seen'[m] = 0
        /\ sw'[m] = "in_join" => seen'[m] = bars'[m]
        /\ \A f \in ev'[m] : nxt'.set_value[f] = Full(m)
        /\ nxt'.default[e] = {m} /\ hw_event'[m] = e
    BY <1>1, <1>5, <1>6, <1>17, <2>1 DEF TeamSound
  <2>7. QED
    BY <2>1, <2>2, <2>4, <2>5, <2>6 DEF TeamSound, Full
<1>23. Teams'
  <2>1. ASSUME NEW q \in Masters, q # m PROVE TeamSound(q)'
    <3>1. c \notin Team(q) /\ Team(q) \subseteq Cores /\ q \in Cores
      BY <1>3, <2>1, TeamFacts
    <3>2. \A f \in ev[q] : f # e /\ f \in Events
      BY <1>1, <1>7, <2>1, <3>1 DEF Invariant, Ownership, Types, TypeOK
    <3>3. \A f \in ev[q] : /\ nxt'.counter[f] = nxt.counter[f]
                           /\ nxt'.set_value[f] = nxt.set_value[f]
                           /\ nxt'.mask[f] = nxt.mask[f] /\ nxt'.default[f] = nxt.default[f]
      BY <1>2, <1>17, <3>2, SignalFields
    <3>4. Unmoved(q)
      BY <1>1, <1>18, <3>1, <3>3 DEF Unmoved
    <3>5. Working(q) => hw_event[q] \in ev[q]
      BY WorkingOwns DEF Invariant
    <3>6. QED
      BY <3>4, <3>5, TeamFrame DEF Invariant, Teams
  <2>2. QED
    BY <1>22, <2>1 DEF Teams
<1>24. Signalled'
  <2>1. ASSUME NEW f \in Events, cur.counter[f] = Reserved
        PROVE  /\ nxt'.counter[f] = Reserved /\ cur.mask[f] = nxt'.mask[f]
               /\ \A q \in Masters : f \in ev[q] => \A d \in Team(q) : stop[d]
    <3>1. f # e
      BY <1>12, <2>1 DEF Reserved
    <3>2. nxt'.counter[f] = Reserved /\ cur.mask[f] = nxt'.mask[f]
      BY <1>2, <1>17, <2>1, <3>1, SignalFields
    <3>3. ASSUME NEW q \in Masters, f \in ev[q], NEW d \in Team(q) PROVE stop[d]
      <4>1. stop[d] \/ (accept[d] /\ slv = d)
        BY <1>2, <2>1, <3>3, LastToStop
      <4>2. QED
        BY <1>1, <4>1
    <3>4. QED
      BY <3>2, <3>3
  <2>2. /\ \A f \in Events : ~Owned(f) => nxt.counter[f] = 0
        /\ \A f \in Events : Free(f) <=> ~Owned(f)
    BY <1>1 DEF Invariant, Signalled
  <2>3. \A f \in Events : (Free(f)' <=> Free(f)) /\ (Owned(f)' <=> Owned(f))
    BY <1>1 DEF Free, Owned
  <2>4. Owned(e)
    BY <1>7 DEF Owned
  <2>5. \A f \in Events : ~Owned(f) => nxt'.counter[f] = 0
    BY <1>2, <1>17, <2>2, <2>4, SignalFields
  <2>6. QED
    BY <1>1, <1>2, <1>17, <2>1, <2>2, <2>3, <2>5 DEF Signalled
<1>25. QED
  BY <1>13, <1>19, <1>20, <1>21, <1>23, <1>24 DEF Invariant

-----------------------------------------------------------------------------
(* The thread notify(). *)

\* The owner of a complete event: all of its team is asleep in the barrier or
\* the join, and the mask holds nobody else.
LEMMA CompleteTeam ==
  ASSUME Invariant, thread = "notify", NEW e \in Events, Complete(e)
  PROVE  \E m \in Masters :
           /\ e \in ev[m] /\ e = hw_event[m] /\ Working(m)
           /\ cur.mask[e] = {m} \cup Enrolled(m) /\ cur.default[e] = {m}
           /\ cur.set_value[e] = Full(m)
           /\ \A c \in Team(m) : stop[c] /\ ~accept[c]
<1>1. cur.counter[e] = Reserved
  BY DEF Complete
<1>2. Owned(e)
  BY <1>1 DEF Invariant, Signalled, Free, Reserved
<1>3. PICK m \in Masters : e \in ev[m]
  BY <1>2 DEF Owned
<1>4. /\ nxt.counter[e] = Reserved /\ cur.mask[e] = nxt.mask[e]
      /\ cur.set_value[e] = nxt.set_value[e] /\ cur.default[e] = nxt.default[e]
      /\ \A c \in Team(m) : stop[c]
  BY <1>1, <1>3 DEF Invariant, Signalled
<1>5. Working(m) /\ e = hw_event[m]
  BY <1>3, <1>4, OwnedCount
<1>6. TeamSound(m)
  BY DEF Invariant, Teams
<1>7. /\ nxt.mask[e] = {m} \cup Enrolled(m) /\ nxt.default[e] = {m}
      /\ nxt.set_value[e] = Full(m)
  BY <1>3, <1>5, <1>6 DEF TeamSound
<1>8. \A c \in Team(m) : ~accept[c]
  <2>1. ASSUME NEW c \in Team(m) PROVE ~accept[c]
    <3>1. c \in Cores /\ sw[c] \notin SlaveAccess
      BY <1>4, TeamFacts DEF Invariant, InStep, Asleep, SlaveAccess
    <3>2. QED
      BY <3>1, NotAtPort
  <2>2. QED
    BY <2>1
<1>9. QED
  BY <1>3, <1>4, <1>5, <1>7, <1>8

\* A complete event wakes its team, or at the join its master, and is loaded
\* again.
LEMMA NotifyStep ==
  ASSUME Invariant, Notify
  PROVE  Invariant'
<1> DEFINE done == {e \in Events : Complete(e)}
<1>1. /\ Types /\ ~aborted /\ thread = "notify" /\ thread' = "programme"
      /\ UNCHANGED <<cur, state, reply, ev, accept, sw, hw_event, bars, seen, regions, prg, slv,
                     aborted>>
  BY AfterFacts DEF Notify, Turn, swvars, Invariant
<1>2. nxt \in Signals /\ cur \in Signals
  BY <1>1 DEF Types, TypeOK
<1>3. stop' = [c \in Cores |-> stop[c] /\ \A e \in done : c \notin cur.mask[e]]
  BY DEF Notify
<1>4. nxt' = [counter   |-> [e \in Events |-> IF e \in done THEN cur.set_value[e] ELSE nxt.counter[e]],
              set_value |-> nxt.set_value,
              mask      |-> [e \in Events |-> IF e \in done THEN cur.default[e] ELSE nxt.mask[e]],
              default   |-> nxt.default,
              notify    |-> nxt.notify]
  <2>1. nxt = [counter |-> nxt.counter, set_value |-> nxt.set_value, mask |-> nxt.mask,
               default |-> nxt.default, notify |-> nxt.notify]
    BY <1>2 DEF Signals
  <2>2. PICK x : x = [e \in Events |-> IF e \in done THEN cur.set_value[e] ELSE nxt.counter[e]]
    OBVIOUS
  <2>3. PICK y : y = [e \in Events |-> IF e \in done THEN cur.default[e] ELSE nxt.mask[e]]
    OBVIOUS
  <2>4. nxt' = [nxt EXCEPT !.counter = x, !.mask = y]
    BY <2>2, <2>3 DEF Notify
  <2>5. QED
    BY <2>1, <2>2, <2>3, <2>4
<1>5. /\ nxt'.counter = [e \in Events |-> IF e \in done THEN cur.set_value[e] ELSE nxt.counter[e]]
      /\ nxt'.mask = [e \in Events |-> IF e \in done THEN cur.default[e] ELSE nxt.mask[e]]
      /\ nxt'.set_value = nxt.set_value /\ nxt'.default = nxt.default
  BY <1>4
<1>6. nxt' \in Signals
  <2>1. [e \in Events |-> IF e \in done THEN cur.set_value[e] ELSE nxt.counter[e]]
          \in [Events -> 0 .. 255]
    <3>1. nxt.counter \in [Events -> 0 .. 255] /\ cur.set_value \in [Events -> 0 .. 255]
      BY <1>2, SignalFields
    <3>2. QED
      BY <3>1
  <2>2. [e \in Events |-> IF e \in done THEN cur.default[e] ELSE nxt.mask[e]]
          \in [Events -> SUBSET Cores]
    <3>1. nxt.mask \in [Events -> SUBSET Cores] /\ cur.default \in [Events -> SUBSET Cores]
      BY <1>2, SignalFields
    <3>2. QED
      BY <3>1
  <2>3. QED
    BY <1>2, <1>4, <2>1, <2>2, SignalFields DEF Signals
<1>7. \A c \in Cores : stop'[c] => stop[c]
  BY <1>3
<1>8. Types'
  <2>1. stop' \in [Cores -> BOOLEAN]
    BY <1>1, <1>3 DEF Types, TypeOK
  <2>2. TypeOK'
    BY <1>1, <1>6, <2>1 DEF Types, TypeOK
  <2>3. QED
    BY <1>1, <2>2 DEF Types
<1>9. InStep'
  BY <1>1, <1>7 DEF Invariant, InStep
<1>10. Ownership'
  <2>1. \A q \in Masters : Holding(q)' = Holding(q) /\ Held(q)' = Held(q)
    BY <1>1 DEF Holding, Held
  <2>2. QED
    BY <1>1, <2>1, OwnershipFrame DEF Invariant
<1>11. ASSUME NEW m \in Masters, NEW e \in done, e \notin ev[m], NEW c \in Team(m)
       PROVE  c \notin cur.mask[e]
  <2>1. PICK n \in Masters : e \in ev[n] /\ cur.mask[e] = {n} \cup Enrolled(n)
    BY <1>1, CompleteTeam
  <2>2. cur.mask[e] \subseteq Team(n) /\ n # m
    BY <1>11, <2>1 DEF Enrolled, Team
  <2>3. Team(m) \cap Team(n) = {}
    BY <2>2, TeamFacts
  <2>4. QED
    BY <2>2, <2>3
<1>12. ASSUME NEW m \in Masters, ev[m] \cap done = {} PROVE TeamSound(m)'
  <2>1. Team(m) \subseteq Cores /\ ev[m] \subseteq Events
    BY <1>1, TeamFacts DEF Types, TypeOK
  <2>2. \A c \in Team(m) : stop'[c] = stop[c]
    <3>1. ASSUME NEW c \in Team(m) PROVE stop'[c] = stop[c]
      <4>1. \A e \in done : c \notin cur.mask[e]
        BY <1>11, <1>12
      <4>2. c \in Cores /\ stop[c] \in BOOLEAN
        BY <1>1, <2>1 DEF Types, TypeOK
      <4>3. QED
        BY <1>3, <4>1, <4>2
    <3>2. QED
      BY <3>1
  <2>3. \A e \in ev[m] : e \in Events /\ e \notin done
    BY <1>12, <2>1
  <2>4. \A e \in ev[m] : /\ nxt'.counter[e] = nxt.counter[e]
                         /\ nxt'.set_value[e] = nxt.set_value[e]
                         /\ nxt'.mask[e] = nxt.mask[e] /\ nxt'.default[e] = nxt.default[e]
    BY <1>5, <2>3
  <2>5. Unmoved(m)
    BY <1>1, <2>2, <2>4 DEF Unmoved
  <2>6. Working(m) => hw_event[m] \in ev[m]
    BY WorkingOwns DEF Invariant
  <2>7. QED
    BY <2>5, <2>6, TeamFrame DEF Invariant, Teams
<1>13. ASSUME NEW m \in Masters, ev[m] \cap done # {} PROVE TeamSound(m)'
  <2>1. PICK e \in done : e \in ev[m]
    BY <1>13
  <2>2. e \in Events /\ Complete(e)
    BY <2>1
  <2>3. /\ e = hw_event[m] /\ Working(m)
        /\ cur.mask[e] = {m} \cup Enrolled(m) /\ cur.default[e] = {m}
        /\ cur.set_value[e] = Full(m)
        /\ \A c \in Team(m) : stop[c] /\ ~accept[c]
    <3>1. PICK n \in Masters :
           /\ e \in ev[n] /\ e = hw_event[n] /\ Working(n)
           /\ cur.mask[e] = {n} \cup Enrolled(n) /\ cur.default[e] = {n}
           /\ cur.set_value[e] = Full(n)
           /\ \A c \in Team(n) : stop[c] /\ ~accept[c]
      BY <1>1, <2>2, CompleteTeam
    <3>2. n = m
      BY <2>1, <3>1 DEF Invariant, Ownership
    <3>3. QED
      BY <3>1, <3>2
  <2>4. ev[m] = {e}
    BY <2>3, WorkingOwns DEF Invariant
  <2>5. /\ nxt'.counter[e] = Full(m) /\ nxt'.mask[e] = {m}
        /\ nxt'.set_value[e] = nxt.set_value[e] /\ nxt'.default[e] = nxt.default[e]
    BY <1>5, <2>1, <2>2, <2>3
  <2>6. TeamSound(m) /\ bars[m] \in 0 .. MaxBars
    BY <1>1 DEF Invariant, Teams, Types
  <2>7. Team(m) \subseteq Cores /\ m \in Team(m) /\ m \in Cores /\ Slaves[m] = Team(m) \ {m}
    BY TeamFacts
  <2>8. \A c \in Team(m) : stop'[c] <=> c \notin cur.mask[e]
    <3>1. ASSUME NEW c \in Team(m) PROVE stop'[c] <=> c \notin cur.mask[e]
      <4>1. \A f \in done : f # e => c \notin cur.mask[f]
        BY <1>11, <2>4
      <4>2. c \in Cores /\ stop[c]
        BY <2>3, <2>7
      <4>3. QED
        BY <1>3, <2>1, <4>1, <4>2
    <3>2. QED
      BY <3>1
  <2>9. \A c \in Team(m) : sw[c] \in Asleep
    BY <2>3, <2>7 DEF Invariant, InStep
  <2>10. PICK k \in 0 .. bars[m] : \A c \in Team(m) : TakesPart(c, k, bars[m])
    BY <2>3, <2>6 DEF TeamSound, Together
  <2>11. /\ \A f \in ev'[m] : nxt'.set_value[f] = Full(m)
         /\ nxt'.default[e] = {m} /\ Opening(m)' = Opening(m) /\ ~Opening(m)
         /\ sw'[m] = "in_join" => seen'[m] = bars'[m]
    <3>1. nxt.set_value[e] = Full(m) /\ nxt.default[e] = {m}
      BY <2>1, <2>3, <2>6 DEF TeamSound
    <3>2. ~Opening(m) /\ Opening(m)' = Opening(m)
      BY <1>1, <2>7, <2>9 DEF Opening, Asleep
    <3>3. sw'[m] = "in_join" => seen'[m] = bars'[m]
      BY <1>1, <2>6 DEF TeamSound
    <3>4. QED
      BY <1>1, <2>4, <2>5, <3>1, <3>2, <3>3
  <2>12. CASE k < bars[m]
    <3>1. \A c \in Team(m) : sw[c] = "in_barrier" /\ seen[c] = k
      BY <2>3, <2>6, <2>9, <2>10, <2>12 DEF TakesPart, Asleep
    <3>2. Enrolled(m) = Slaves[m]
      BY <2>3, <2>7, <3>1 DEF Enrolled
    <3>3. \A c \in Team(m) : ~stop'[c] /\ ~accept'[c] /\ sw'[c] = "in_barrier" /\ seen'[c] = k
      BY <1>1, <2>3, <2>7, <2>8, <3>1, <3>2
    <3>4. Working(m)'
      BY <2>7, <3>3 DEF Working
    <3>5. Together(m)'
      <4>1. k + 1 \in 0 .. bars[m]
        BY <2>6, <2>12
      <4>2. \A c \in Team(m) : TakesPart(c, k + 1, bars[m])'
        BY <3>3 DEF TakesPart
      <4>3. QED
        BY <1>1, <4>1, <4>2 DEF Together
    <3>6. Missing(m)' = Team(m)
      BY <3>3 DEF Missing, Waiting
    <3>7. Enrolled(m)' = {}
      BY <2>7, <3>3 DEF Enrolled
    <3>8. nxt'.counter[e] = Reserved + Cardinality(Missing(m)') /\ hw_event'[m] = e
      BY <1>1, <2>3, <2>5, <3>6 DEF Full
    <3>9. QED
      BY <2>5, <2>11, <3>4, <3>5, <3>7, <3>8 DEF TeamSound, Full
  <2>13. CASE ~(k < bars[m])
    <3>1. k = bars[m]
      BY <2>6, <2>13
    <3>2. \A c \in Team(m) : sw[c] \in {"docked", "in_join"}
      BY <2>3, <2>6, <2>9, <2>10, <3>1 DEF TakesPart, Asleep
    <3>3. sw[m] = "in_join"
      BY <2>7, <3>2, MasterRests
    <3>4. \A s \in Slaves[m] : sw[s] = "docked"
      BY <2>7, <3>2, TeamFacts DEF Invariant, InStep, SlaveSteps
    <3>5. Enrolled(m) = {}
      BY <3>4 DEF Enrolled
    <3>6. ~stop'[m] /\ \A s \in Slaves[m] : stop'[s]
      BY <2>3, <2>7, <2>8, <3>5
    <3>7. ~Working(m)'
      BY <1>1, <3>3, <3>6 DEF Working
    <3>8. Docked(m)'
      BY <1>1, <3>4, <3>6 DEF Docked
    <3>9. \A f \in ev'[m] : nxt'.counter[f] = Full(m)
      BY <1>1, <2>4, <2>5
    <3>10. QED
      BY <2>11, <3>7, <3>8, <3>9 DEF TeamSound, Full
  <2>14. QED
    BY <2>12, <2>13
<1>14. Teams'
  BY <1>12, <1>13 DEF Teams
<1>15. Signalled'
  <2>1. /\ \A f \in Events : ~Owned(f) => nxt.counter[f] = 0
        /\ \A f \in Events : Free(f) <=> ~Owned(f)
    BY <1>1 DEF Invariant, Signalled
  <2>2. \A f \in Events : (Free(f)' <=> Free(f)) /\ (Owned(f)' <=> Owned(f))
    BY <1>1 DEF Free, Owned
  <2>3. ASSUME NEW f \in Events, ~Owned(f) PROVE nxt'.counter[f] = 0
    <3>1. f \notin done
      BY <2>1, <2>3 DEF Free, Complete, Reserved
    <3>2. QED
      BY <1>5, <2>1, <2>3, <3>1
  <2>4. QED
    BY <1>1, <2>1, <2>2, <2>3 DEF Signalled
<1>16. QED
  BY <1>1, <1>8, <1>9, <1>10, <1>14, <1>15 DEF Invariant

-----------------------------------------------------------------------------
(* The theorems. *)

\* The slaves begin in the dock, all events are free.
LEMMA InitInvariant ==
  ASSUME Init
  PROVE  Invariant
<1>1. NoSignals \in Signals
  <2>1. /\ [e \in Events |-> 0] \in [Events -> 0 .. 255]
        /\ [e \in Events |-> {}] \in [Events -> SUBSET Cores]
        /\ [e \in Events |-> FALSE] \in [Events -> BOOLEAN]
    OBVIOUS
  <2>2. QED
    BY <2>1 DEF NoSignals, Signals
<1>2. /\ \A m \in Masters : m \in Cores /\ sw[m] = "start" /\ state[m] = "REQUEST_TYPE" /\ ev[m] = {}
      /\ \A c \in Cores \ Masters : sw[c] = "docked" /\ stop[c] /\ ev[c] = {}
      /\ \A c \in Cores : ~accept[c] /\ (stop[c] => c \notin Masters) /\ slv # c
  BY TeamFacts, ConstantsAssumption DEF Init
<1>3. Types
  <2>1. SW_BAR_ENABLE \in 0 .. NEvents /\ 0 \in 0 .. MaxBars /\ 0 \in 0 .. MaxBars + 1
    BY ConstantsAssumption DEF SW_BAR_ENABLE
  <2>2. TypeOK
    BY <1>1, <2>1 DEF Init, TypeOK
  <2>3. sw \in [Cores -> MasterSteps \cup {"docked"}] /\ state \in [Cores -> States]
    BY DEF Init, MasterSteps, States
  <2>4. QED
    BY <2>1, <2>2, <2>3 DEF Types, Init
<1>4. InStep
  BY <1>2 DEF InStep, Serves, SlaveSteps, Asleep
<1>5. Ownership
  BY <1>2 DEF Ownership, Holding, Region
<1>6. Teams
  <2>1. ASSUME NEW m \in Masters PROVE TeamSound(m)
    <3>1. ~Working(m) /\ ~Opening(m) /\ sw[m] # "in_join" /\ ev[m] = {}
      BY <1>2 DEF Working, Opening
    <3>2. Docked(m)
      BY <1>2, TeamFacts DEF Docked
    <3>3. QED
      BY <3>1, <3>2 DEF TeamSound
  <2>2. QED
    BY <2>1 DEF Teams
<1>7. Signalled
  BY DEF Init, Signalled, NoSignals
<1>8. QED
  BY <1>3, <1>4, <1>5, <1>6, <1>7 DEF Invariant, Init

\* Every step of the cores and of the three threads keeps the invariant.
LEMMA NextInvariant ==
  ASSUME Invariant, [Next]_vars
  PROVE  Invariant'
<1>1. CASE Clock
  BY <1>1, ClockStep
<1>2. CASE SignalThread
  BY <1>2, SignalIdleStep, SignalArriveStep, SignalStopStep DEF SignalThread
<1>3. CASE Notify
  BY <1>3, NotifyStep
<1>4. CASE ProgrammeThread
  <2>1. CASE ProgrammeIdle
    BY <2>1, ProgrammeIdleStep
  <2>2. ASSUME NEW c \in Masters,
               \/ RequestType(c) \/ RequestAcc(c) \/ AskEvent(c) \/ AskAcc(c)
               \/ Grant(c) \/ Refuse(c) \/ WaitAcc(c)
        PROVE  Invariant'
    BY <2>2, RequestTypeStep, RequestAccStep, AskEventStep, AskAccStep, GrantStep, RefuseStep,
       WaitAccStep
  <2>3. ASSUME NEW c \in Masters,
               \/ ManageEvent(c) \/ ManageAcc(c)
               \/ ReleaseEvent(c) \/ FreeEvent(c) \/ ReleaseOrFreeAcc(c)
        PROVE  Invariant'
    BY <2>3, ManageEventStep, ManageAccStep, ReleaseEventStep, FreeEventStep, ReleaseOrFreeAccStep
  <2>4. QED
    BY <1>4, <2>1, <2>2, <2>3 DEF ProgrammeThread
<1>5. ASSUME NEW m \in Masters, TeamStart(m) PROVE Invariant'
  BY <1>5, TeamStartStep
<1>6. ASSUME NEW c \in Cores, Issue(c) \/ Resume(c) PROVE Invariant'
  BY <1>6, IssueStep, ResumeStep
<1>7. CASE UNCHANGED vars
  <2>1. UNCHANGED <<cur, nxt, thread, state, reply, ev, accept, stop, sw, hw_event, bars, seen,
                    regions, prg, slv, aborted>>
    BY <1>7 DEF vars, hwvars, swvars
  <2>2. Types' /\ (aborted' => \E m \in Masters : Refused(m)')
    BY <2>1 DEF Invariant, Types, TypeOK, Refused
  <2>3. Ownership' /\ Teams' /\ \A e \in Events : Owned(e)' <=> Owned(e)
    BY <2>1, Still
  <2>4. InStep'
    BY <2>1 DEF Invariant, InStep
  <2>5. \A e \in Events : Free(e)' <=> Free(e)
    BY <2>1 DEF Free
  <2>6. Signalled'
    BY <2>1, <2>3, <2>5 DEF Invariant, Signalled
  <2>7. QED
    BY <2>2, <2>3, <2>4, <2>6 DEF Invariant
<1>8. QED
  BY <1>1, <1>2, <1>3, <1>4, <1>5, <1>6, <1>7 DEF Next

\* The counters, the masks and the sleeping cores of every team agree in every
\* state, before and after each thread of a clock edge.
THEOREM Invariance == Spec => []Invariant
<1>1. Init => Invariant
  BY InitInvariant
<1>2. Invariant /\ [Next]_vars => Invariant'
  BY NextInvariant
<1>3. QED
  BY <1>1, <1>2, PTL DEF Spec

\* No assert of cl_hws fails but that of MANAGE_EVENT for a master that was
\* refused an event, and between two edges the counter of an event in use is the
\* number of cores that signal() has not counted: the write-back of all counters,
\* the reload by notify() and the wake-ups never drift apart.
THEOREM CountersAreSound == Spec => []CountersSound
<1>1. ASSUME Invariant PROVE CountersSound
  <2>1. TypeOK /\ AssertsHold
    BY <1>1 DEF Invariant, Types, AssertsHold
  <2>2. ASSUME NEW m \in Masters, InRegion(m), sw[m] = "in_join" => stop[m]
        PROVE  nxt.counter[hw_event[m]] = Reserved + Cardinality({c \in Team(m) : ~Waiting(c)})
    <3>1. Working(m)
      BY <2>2 DEF InRegion, Working
    <3>2. QED
      BY <1>1, <3>1 DEF Invariant, Teams, TeamSound, Missing
  <2>3. QED
    BY <2>1, <2>2 DEF CountersSound, CounterExact
<1>2. QED
  BY <1>1, Invariance, PTL

\* signal(), notify() and programme() write the counters in one clock cycle,
\* and yet an event is reserved exactly while one master owns it.
THEOREM EventsAreExclusive == Spec => []EventsExclusive
<1>1. ASSUME Invariant PROVE EventsExclusive
  <2>1. ASSUME NEW e \in Events, NEW c \in Cores, NEW d \in Cores, Owns(c, e), Owns(d, e)
        PROVE  c = d
    BY <1>1, <2>1 DEF Owns, Invariant, Ownership
  <2>2. ASSUME NEW e \in Events
        PROVE  nxt.counter[e] >= Reserved <=> \E c \in Cores : Owns(c, e)
    <3>1. nxt.counter[e] < Reserved <=> ~Owned(e)
      BY <1>1, FreeUnowned
    <3>2. Owned(e) <=> \E c \in Cores : Owns(c, e)
      BY <1>1, TeamFacts DEF Owned, Owns, Invariant, Ownership
    <3>3. nxt.counter[e] \in 0 .. 255
      BY <1>1, SignalFields DEF Invariant, Types, TypeOK
    <3>4. QED
      BY <3>1, <3>2, <3>3 DEF Reserved
  <2>3. QED
    BY <2>1, <2>2 DEF EventsExclusive
<1>2. QED
  BY <1>1, Invariance, PTL

\* The values of Arrived.
LEMMA ArrivedFacts ==
  ASSUME NEW c
  PROVE  /\ sw[c] = "docked" /\ stop[c] => Arrived(c) = bars[Leader(c)] + 1
         /\ sw[c] = "docked" /\ ~stop[c] => Arrived(c) = 0
         /\ sw[c] \in {"in_barrier", "in_join"} => Arrived(c) = seen[c] + 1
         /\ sw[c] \in {"barrier", "join", "release_mask"} => Arrived(c) \in {seen[c], seen[c] + 1}
<1>1. ASSUME sw[c] = "docked"
      PROVE  Arrived(c) = IF stop[c] THEN bars[Leader(c)] + 1 ELSE 0
  BY <1>1 DEF Arrived
<1>2. ASSUME sw[c] # "docked", sw[c] \in {"in_barrier", "in_join"} \/ accept[c]
      PROVE  Arrived(c) = seen[c] + 1
  BY <1>2 DEF Arrived
<1>3. ASSUME sw[c] # "docked", ~(sw[c] \in {"in_barrier", "in_join"} \/ accept[c])
      PROVE  Arrived(c) = seen[c]
  BY <1>3 DEF Arrived
<1>4. QED
  BY <1>1, <1>2, <1>3

\* A barrier over an event is a barrier: no core is past one that another core
\* of the team has not reached, no slave runs before the release, and the
\* master leaves the join only when all of its slaves are in the dock.
THEOREM TeamsAreHeld == Spec => []TeamsHeld
<1>1. ASSUME Invariant PROVE TeamsHeld
  <2>1. BarrierHolds
    <3> SUFFICES ASSUME NEW m \in Masters, NEW c \in Team(m), NEW d \in Team(m), InRegion(c)
                 PROVE  seen[c] <= Arrived(d)
      BY DEF BarrierHolds
    <3>1. /\ TeamSound(m) /\ Team(m) \subseteq Cores /\ Leader(d) = m
          /\ (c # m => c \in Slaves[m]) /\ (d # m => d \in Slaves[m])
      BY <1>1, TeamFacts DEF Invariant, Teams
    <3>2. bars[m] \in Nat /\ seen[c] \in Nat /\ seen[d] \in Nat
      BY <1>1, <3>1, ConstantsAssumption DEF Invariant, Types, TypeOK
    <3>3. CASE Working(m)
      <4>1. PICK k \in 0 .. bars[m] : \A q \in Team(m) : TakesPart(q, k, bars[m])
        BY <3>1, <3>3 DEF TeamSound, Together
      <4>2. seen[c] <= k
        BY <3>2, <4>1 DEF TakesPart, InRegion
      <4>3. TakesPart(d, k, bars[m])
        BY <4>1
      <4>4. k <= Arrived(d)
        <5>1. CASE sw[d] = "docked"
          BY <3>1, <3>2, <4>1, <4>3, <5>1, ArrivedFacts DEF TakesPart
        <5>2. CASE sw[d] \in {"in_barrier", "in_join"}
          BY <3>2, <4>1, <4>3, <5>2, ArrivedFacts DEF TakesPart
        <5>3. CASE sw[d] \in {"barrier", "join", "release_mask"}
          BY <3>2, <4>1, <4>3, <5>3, ArrivedFacts DEF TakesPart
        <5>4. QED
          BY <4>3, <5>1, <5>2, <5>3 DEF TakesPart
      <4>5. Arrived(d) \in Int
        <5>1. CASE sw[d] = "docked"
          BY <3>1, <3>2, <5>1, ArrivedFacts
        <5>2. CASE sw[d] \in {"in_barrier", "in_join", "barrier", "join", "release_mask"}
          BY <3>2, <5>2, ArrivedFacts
        <5>3. QED
          BY <4>3, <5>1, <5>2 DEF TakesPart
      <4>6. QED
        BY <3>2, <4>1, <4>2, <4>4, <4>5
    <3>4. CASE ~Working(m)
      <4>1. \A s \in Slaves[m] : sw[s] = "docked" /\ stop[s]
        BY <3>1, <3>4 DEF TeamSound, Docked
      <4>2. c = m /\ sw[m] = "in_join"
        BY <3>1, <3>4, <4>1 DEF InRegion, Working
      <4>3. seen[m] = bars[m]
        BY <3>1, <4>2 DEF TeamSound
      <4>4. CASE d = m
        BY <3>2, <4>2, <4>4, ArrivedFacts
      <4>5. CASE d # m
        BY <3>1, <3>2, <4>1, <4>2, <4>3, <4>5, ArrivedFacts
      <4>6. QED
        BY <4>4, <4>5
    <3>5. QED
      BY <3>3, <3>4
  <2>2. SlavesInsideRegion
    <3>1. ASSUME NEW m \in Masters, NEW s \in Slaves[m], sw[s] # "docked"
          PROVE  InRegion(m) \/ sw[m] = "release_mask"
      <4>1. Working(m)
        BY <1>1, <3>1, AwakeWorks
      <4>2. QED
        BY <4>1 DEF Working, InRegion
    <3>2. QED
      BY <3>1 DEF SlavesInsideRegion
  <2>3. QED
    BY <2>1, <2>2 DEF TeamsHeld
<1>2. QED
  BY <1>1, Invariance, PTL

-----------------------------------------------------------------------------
(* With an event for every master nobody is refused. *)

\* A master that has been answered has an event.
Granted ==
  \A m \in Masters : /\ state[m] = "WAIT_ACC" => reply[m] # SW_BAR_ENABLE
                     /\ sw[m] \in {"release_type", "release_event"} =>
                          hw_event[m] # SW_BAR_ENABLE

\* Every master holds one event at most: with as many events as masters, one is
\* free for a master that asks.
LEMMA OneIsFree ==
  ASSUME Invariant, IsFiniteSet(Masters), Cardinality(Masters) <= NEvents,
         NEW c \in Masters, ev[c] = {}
  PROVE  \E e \in Events : ~Owned(e)
<1> SUFFICES ASSUME \A e \in Events : Owned(e)
             PROVE  FALSE
  OBVIOUS
<1> DEFINE T == Masters \ {c}
           f == [e \in Events |-> CHOOSE m \in Masters : e \in ev[m]]
<1>1. ASSUME NEW e \in Events PROVE f[e] \in T /\ e \in ev[f[e]]
  BY DEF Owned
<1>2. f \in [Events -> T]
  BY <1>1
<1>3. IsFiniteSet(T) /\ Cardinality(T) = Cardinality(Masters) - 1 /\ Cardinality(Masters) \in Nat
  BY FS_RemoveElement, FS_CardinalityType
<1>4. IsFiniteSet(Events) /\ Cardinality(Events) = NEvents
  <2>1. 0 \in Int /\ NEvents - 1 \in Int /\ ~(0 > NEvents - 1) /\ NEvents - 1 - 0 + 1 = NEvents
    BY ConstantsAssumption
  <2>2. /\ IsFiniteSet(0 .. NEvents - 1)
        /\ Cardinality(0 .. NEvents - 1) =
             IF 0 > NEvents - 1 THEN 0 ELSE NEvents - 1 - 0 + 1
    BY <2>1, FS_Interval, Zenon
  <2>3. QED
    BY <2>1, <2>2 DEF Events
<1>5. Cardinality(T) < Cardinality(Events)
  BY <1>3, <1>4, ConstantsAssumption
<1>6. PICK x, y \in Events : x # y /\ f[x] = f[y]
  <2> HIDE DEF f, T
  <2>1. QED
    BY <1>2, <1>3, <1>4, <1>5, FS_PigeonHole
<1>7. PICK m \in Masters : x \in ev[m] /\ y \in ev[m]
  BY <1>1, <1>6
<1>8. QED
  BY <1>6, <1>7 DEF Invariant, Ownership

\* An access that is over, but for the answer of WAIT_ACC.
LEMMA GrantedAck ==
  ASSUME Invariant, Granted, NEW c \in Masters, NEW from, NEW to, NEW next,
         Ack(c, from, to, next), UNCHANGED hw_event, to # "WAIT_ACC",
         next \in {"release_type", "release_event"} => sw[c] = "release_type"
  PROVE  Granted'
<1>1. /\ c \in Cores /\ state' = [state EXCEPT ![c] = to] /\ sw' = [sw EXCEPT ![c] = next]
      /\ reply' = reply /\ Types
  BY TeamFacts DEF Ack, Invariant
<1>2. ASSUME NEW m \in Masters
      PROVE  /\ state'[m] = "WAIT_ACC" => reply'[m] # SW_BAR_ENABLE
             /\ sw'[m] \in {"release_type", "release_event"} => hw_event'[m] # SW_BAR_ENABLE
  <2>1. m \in Cores /\ (m = c => state'[m] = to /\ sw'[m] = next)
        /\ (m # c => state'[m] = state[m] /\ sw'[m] = sw[m])
    BY <1>1, TeamFacts DEF Types
  <2>2. QED
    BY <1>1, <2>1 DEF Granted
<1>3. QED
  BY <1>2 DEF Granted, SW_BAR_ENABLE

\* A state that serves an access without answering it.
LEMMA GrantedServe ==
  ASSUME Invariant, Granted, NEW c \in Masters, NEW from, NEW access, NEW to,
         Serve(c, from, access, to), to # "WAIT_ACC", UNCHANGED reply
  PROVE  Granted'
<1>1. c \in Cores /\ state' = [state EXCEPT ![c] = to] /\ UNCHANGED <<sw, hw_event>> /\ Types
  BY TeamFacts DEF Serve, Invariant, swvars
<1>2. ASSUME NEW m \in Masters PROVE state'[m] = "WAIT_ACC" => state[m] = "WAIT_ACC"
  BY <1>1, TeamFacts DEF Types
<1>3. QED
  BY <1>1, <1>2 DEF Granted, SW_BAR_ENABLE

\* WAIT_EVENT grants an event, and WAIT_ACC hands it to the core.
LEMMA GrantedEvent ==
  ASSUME Invariant, Granted, IsFiniteSet(Masters), Cardinality(Masters) <= NEvents,
         NEW c \in Masters, Grant(c) \/ Refuse(c) \/ WaitAcc(c)
  PROVE  Granted'
<1>1. c \in Cores /\ Types /\ Serves(state[c], sw[c])
  BY TeamFacts DEF Invariant, InStep
<1>2. CASE Grant(c)
  <2>1. PICK e \in Events : Reserve(c, e)
    BY <1>2 DEF Grant
  <2>2. reply' = [reply EXCEPT ![c] = e] /\ state' = [state EXCEPT ![c] = "WAIT_ACC"]
        /\ UNCHANGED <<sw, hw_event>>
    BY <1>2, <2>1 DEF Grant, Serve, Reserve, swvars
  <2>3. e # SW_BAR_ENABLE
    BY ConstantsAssumption DEF Events, SW_BAR_ENABLE
  <2>4. ASSUME NEW m \in Masters, state'[m] = "WAIT_ACC" PROVE reply'[m] # SW_BAR_ENABLE
    <3>1. m \in Cores
      BY TeamFacts
    <3>2. CASE m = c
      BY <1>1, <2>2, <2>3, <3>1, <3>2 DEF Types, TypeOK
    <3>3. CASE m # c
      BY <1>1, <2>2, <2>4, <3>1, <3>3 DEF Types, TypeOK, Granted
    <3>4. QED
      BY <3>2, <3>3
  <2>5. QED
    BY <2>2, <2>4 DEF Granted, SW_BAR_ENABLE
<1>3. CASE Refuse(c)
  <2>1. thread = "programme" /\ state[c] = "WAIT_EVENT" /\ sw[c] = "ask_read"
        /\ \A e \in Events : ~Free(e)
    BY <1>3 DEF Refuse, Serve, Turn
  <2>2. \A e \in Events : Owned(e)
    BY <2>1 DEF Invariant, Signalled
  <2>3. ~Holding(c)
    BY <2>1 DEF Holding, Region
  <2>4. ev[c] = {}
    BY <2>3 DEF Invariant, Ownership
  <2>5. QED
    BY <2>2, <2>4, OneIsFree
<1>4. CASE WaitAcc(c)
  <2>1. /\ state[c] = "WAIT_ACC" /\ state' = [state EXCEPT ![c] = "REQUEST_TYPE"]
        /\ sw' = [sw EXCEPT ![c] = "release_type"] /\ reply' = reply
        /\ hw_event' = [hw_event EXCEPT ![c] = reply[c]]
    BY <1>4 DEF WaitAcc, Ack
  <2>2. ASSUME NEW m \in Masters
        PROVE  /\ state'[m] = "WAIT_ACC" => reply'[m] # SW_BAR_ENABLE
               /\ sw'[m] \in {"release_type", "release_event"} => hw_event'[m] # SW_BAR_ENABLE
    <3>1. m \in Cores
      BY TeamFacts
    <3>2. CASE m = c
      BY <1>1, <2>1, <3>1, <3>2 DEF Types, TypeOK, Granted
    <3>3. CASE m # c
      BY <1>1, <2>1, <3>1, <3>3 DEF Types, TypeOK, Granted
    <3>4. QED
      BY <3>2, <3>3
  <2>3. QED
    BY <2>2 DEF Granted, SW_BAR_ENABLE
<1>5. QED
  BY <1>2, <1>3, <1>4

\* A step of a core between two edges, or of signal(), asks for nothing.
LEMMA GrantedCores ==
  ASSUME Invariant, Granted, NEW c \in Cores,
         \/ c \in Masters /\ TeamStart(c)
         \/ Issue(c) \/ Resume(c) \/ SignalArrive(c) \/ SignalStop(c)
  PROVE  Granted'
<1>1. UNCHANGED <<state, reply, hw_event>> /\ Types
  BY DEF TeamStart, Issue, Resume, SignalArrive, SignalStop, hwvars, swvars, Invariant
<1>2. ASSUME NEW m \in Masters, sw'[m] \in {"release_type", "release_event"}
      PROVE  sw'[m] = sw[m]
  <2>1. m \in Cores
    BY TeamFacts
  <2>2. CASE TeamStart(c)
    BY <1>1, <1>2, <2>1, <2>2 DEF TeamStart, Types
  <2>3. CASE Issue(c) \/ SignalArrive(c)
    BY <2>3 DEF Issue, SignalArrive, swvars
  <2>4. CASE Resume(c)
    BY <1>1, <1>2, <2>1, <2>4 DEF Resume, NextBarrier, Types
  <2>5. CASE SignalStop(c)
    BY <1>1, <1>2, <2>1, <2>5 DEF SignalStop, Types
  <2>6. QED
    BY <2>2, <2>3, <2>4, <2>5
<1>3. QED
  BY <1>1, <1>2 DEF Granted, SW_BAR_ENABLE

\* With as many events as masters every master is granted one, and no assert of
\* cl_hws ever fails.
THEOREM EnoughEvents ==
  ASSUME IsFiniteSet(Masters), Cardinality(Masters) <= NEvents
  PROVE  Spec => []~aborted
<1>1. Init => Granted
  <2>1. ASSUME Init, NEW m \in Masters
        PROVE  state[m] = "REQUEST_TYPE" /\ sw[m] = "start"
    BY <2>1, TeamFacts DEF Init
  <2>2. QED
    BY <2>1 DEF Granted
<1>2. Invariant /\ Granted /\ [Next]_vars => Granted'
  <2> SUFFICES ASSUME Invariant, Granted, [Next]_vars
               PROVE  Granted'
    OBVIOUS
  <2>1. CASE \/ Clock \/ SignalIdle \/ Notify \/ ProgrammeIdle \/ UNCHANGED vars
    <3>1. UNCHANGED <<state, reply, sw, hw_event>>
      BY <2>1 DEF Clock, SignalIdle, Notify, ProgrammeIdle, vars, hwvars, swvars
    <3>2. QED
      BY <3>1 DEF Granted, SW_BAR_ENABLE
  <2>2. CASE \/ \E m \in Masters : TeamStart(m)
             \/ \E c \in Cores : Issue(c) \/ Resume(c) \/ SignalArrive(c) \/ SignalStop(c)
    BY <2>2, GrantedCores, TeamFacts
  <2>3. ASSUME NEW c \in Masters, \/ RequestType(c) \/ AskEvent(c) \/ ManageEvent(c)
                                   \/ ReleaseEvent(c) \/ FreeEvent(c)
        PROVE  Granted'
    <3>1. CASE RequestType(c) \/ AskEvent(c) \/ ReleaseEvent(c) \/ FreeEvent(c)
      BY <3>1, GrantedServe DEF RequestType, AskEvent, ReleaseEvent, FreeEvent
    <3>2. CASE ManageEvent(c)
      <4>1. /\ UNCHANGED <<reply, sw, hw_event>> /\ Types /\ c \in Cores
            /\ state' = state \/ state' = [state EXCEPT ![c] = "MANAGE_ACC"]
        BY <3>2, TeamFacts DEF ManageEvent, swvars, Invariant
      <4>2. ASSUME NEW m \in Masters PROVE state'[m] = "WAIT_ACC" => state[m] = "WAIT_ACC"
        BY <4>1, TeamFacts DEF Types
      <4>3. QED
        BY <4>1, <4>2 DEF Granted, SW_BAR_ENABLE
    <3>3. QED
      BY <2>3, <3>1, <3>2
  <2>4. ASSUME NEW c \in Masters, \/ RequestAcc(c) \/ AskAcc(c) \/ ManageAcc(c)
                                   \/ ReleaseOrFreeAcc(c)
        PROVE  Granted'
    <3>1. CASE RequestAcc(c) \/ AskAcc(c)
      BY <3>1, GrantedAck DEF RequestAcc, AskAcc
    <3>2. CASE ManageAcc(c)
      BY <3>2, GrantedAck DEF ManageAcc
    <3>3. CASE ReleaseOrFreeAcc(c)
      BY <3>3, GrantedAck DEF ReleaseOrFreeAcc
    <3>4. QED
      BY <2>4, <3>1, <3>2, <3>3
  <2>5. ASSUME NEW c \in Masters, Grant(c) \/ Refuse(c) \/ WaitAcc(c)
        PROVE  Granted'
    BY <2>5, GrantedEvent
  <2>6. QED
    BY <2>1, <2>2, <2>3, <2>4, <2>5 DEF Next, SignalThread, ProgrammeThread
<1>3. Invariant /\ Granted => ~aborted
  BY DEF Invariant, Granted, Refused
<1>4. QED
  BY <1>1, <1>2, <1>3, Invariance, PTL DEF Spec
=============================================================================
