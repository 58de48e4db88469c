-------------------------- MODULE InterconnectProofs --------------------------
(***************************************************************************)
(* The crossbars serve every request once and right, keep their lists in   *)
(* step and give a lock to one master, for any number of masters, slaves   *)
(* and wait states.                                                        *)
(***************************************************************************)
EXTENDS Interconnect, Integers, FiniteSetTheorems, WellFoundedInduction, TLAPS

(* Indices that go round. *)

\* A non-empty set of naturals has a least member.
LEMMA LeastNat ==
  ASSUME NEW T \in SUBSET Nat, T # {}
  PROVE  \E x \in T : \A y \in T : x <= y
<1> DEFINE R == {ss \in Nat \X Nat : ss[1] < ss[2]}
<1>1. IsWellFoundedOn(R, Nat)
  BY NatLessThanWellFounded, Zenon DEF OpToRel
<1>2. \E x \in T : \A y \in T : ~ (<<y, x>> \in R)
  <2> HIDE DEF R
  <2> QED BY <1>1, WFMin
<1>3. PICK x \in T : \A y \in T : ~ (<<y, x>> \in R)
  BY <1>2
<1>4. ASSUME NEW y \in T PROVE x <= y
  <2>1. y \in Nat /\ x \in Nat
    OBVIOUS
  <2>2. y < x => <<y, x>> \in R
    BY <2>1
  <2> QED BY <1>3, <2>1, <2>2
<1>5. QED
  BY <1>4

\* An index that goes round stays in its range.
LEMMA RoundRange == ASSUME NEW n \in Nat \ {0}, NEW x \in Nat PROVE x % n \in 0 .. n - 1
  OBVIOUS

\* It is where it would be without going round, or less by one round.
LEMMA RoundOnce == ASSUME NEW n \in Nat \ {0}, NEW x \in 0 .. n - 1 PROVE x % n = x /\ (x + n) % n = x
<1>1. x % n = x
  OBVIOUS
<1>2. (x + n) % n = x
  OBVIOUS
<1>3. QED
  BY <1>1, <1>2

-----------------------------------------------------------------------------

\* The phases of a cycle.
Clock ==
  /\ phase # "fsm" => todo = {}
  /\ half => DoubleClock /\ phase \in {"slaves", "fsm", "edge"}
  /\ phase = "edge" => half

\* The next edge of the slaves is the one in the middle of the cycle.
NextHalf == phase = "issue" \/ (phase = "slaves" /\ half) \/ (phase = "fsm" /\ ~half)

Due(b) == phase = "fsm" /\ b \in todo                   \* its machine has not run
Early(b) == ~half /\ (phase \in {"cores", "slaves"} \/ Due(b))   \* after the arbiter

\* From the request to the access, after it, and once the machine has told
\* the masters; ready is down again.
Asked(b) == cs[b] # "IDLE" /\ (slave[b].at = "sampled" \/ (slave[b].at = "wait" /\ ~Due(b)))
Made(b) == slave[b].at = "answered" /\ Due(b)
Told(b) == slave[b].at = "answered" /\ ~Due(b)
Lowered(b) == cs[b] # "IDLE" /\ slave[b].at = "wait" /\ Due(b)

Set(b) == cs[b] \in {"SET0", "SET1"}

\* The lists of slave b and the state of its machine.
ListInv(b) ==
  /\ busy[b] <=> table[b] # {}
  /\ idc[b] \subseteq table[b] /\ (table[b] # {} => idc[b] # {})
  /\ ~busy[b] => cs[b] = "IDLE" /\ go[b] = "off" /\ ~pending[b]
  /\ busy[b] /\ cs[b] = "IDLE" => go[b] = "rise" /\ Early(b)
  /\ cs[b] # "IDLE" => go[b] = "on"
  /\ Early(b) => pending[b] = (table[b] \ idc[b] # {})

\* The handshake with the slave, and its place in the cycle.
SlaveInv(b) ==
  /\ request[b] <=> cs[b] # "IDLE"
  /\ cs[b] = "IDLE" => slave[b].at = "wait"
  /\ cs[b] # "IDLE" /\ slave[b].at = "wait" => phase = "fsm" /\ ~half
  /\ DoubleClock => /\ slave[b].at = "sampled" => (slave[b].left % 2 = 0 <=> NextHalf)
                    /\ slave[b].at = "answered" => ~NextHalf
  /\ Due(b) => edge[b] = IF slave[b].at = "answered" THEN "up"
                         ELSE IF cs[b] # "IDLE" /\ slave[b].at = "wait" THEN "down" ELSE "none"
  /\ slave[b].at # "wait" => slave[b].acc.addr = pinout[b].addr /\ slave[b].acc.rw = pinout[b].rw

\* A test-and-set of the lic.
IsTas(c) == kind = "lic" /\ port[c].addr \in LockAddrs /\ ~port[c].rw

\* The masters served together, and the word before the slave.
WordInv(b) ==
  /\ \A c, d \in idc[b] : /\ port[c].addr = port[d].addr /\ port[c].rw = port[d].rw
                          /\ port[c].rw \/ kind = "pic" \/ IsTas(c) => c = d
  /\ \A c \in idc[b] :
       /\ cs[b] = "IDLE" => (~port[c].rw => isTas[b] = IsTas(c))
       /\ cs[b] # "IDLE" => pinout[b].addr = port[c].addr
       /\ cs[b] = "READ" => ~port[c].rw /\ ~pinout[b].rw /\ ~IsTas(c)
       /\ cs[b] = "WRITE" => port[c].rw /\ pinout[b].rw /\ pinout[b].data = port[c].data
       /\ cs[b] = "TAS" => IsTas(c) /\ ~pinout[b].rw
       /\ Set(b) => IsTas(c) /\ pinout[b].rw /\ pinout[b].data = 1

\* How far the request of a master that is being served has got.
ServedOf(b, c) ==
  /\ cs[b] = "IDLE" \/ Asked(b) => ~ready[c] /\ port[c].on /\ applied[c] = IF Set(b) THEN 1 ELSE 0
  /\ Made(b) => ~ready[c] /\ port[c].on /\ applied[c] = IF Set(b) THEN 2 ELSE 1
  /\ cs[b] = "TAS" /\ (Told(b) \/ Lowered(b)) => ~ready[c] /\ port[c].on /\ applied[c] = 1
  /\ cs[b] # "TAS" /\ Told(b) =>
       /\ ready[c]
       /\ IF phase = "slaves" THEN ~port[c].on /\ applied[c] = 0
          ELSE port[c].on /\ applied[c] = IF Set(b) THEN 2 ELSE 1
  /\ cs[b] # "TAS" /\ Lowered(b) => ready[c] /\ ~port[c].on /\ applied[c] = 0
ServedInv(b) == \A c \in idc[b] : ServedOf(b, c)

\* What memory, slave and masters have of the word.
ValueInv(b) ==
  LET a == pinout[b].addr IN
  /\ Asked(b) => (cs[b] = "SET0" => mem[a] = 0) /\ (cs[b] = "SET1" => mem[a] = 1)
  /\ cs[b] = "TAS" /\ (Made(b) \/ Told(b) \/ Lowered(b)) => pinout[b].data = mem[a]
  /\ cs[b] = "READ" /\ Made(b) => IF IsLock(a) THEN mem[a] = 1 ELSE pinout[b].data = mem[a]
  /\ cs[b] = "READ" /\ Told(b) =>
       IF IsLock(a) THEN mem[a] = 1 ELSE \A c \in idc[b] : port[c].data = mem[a]
  /\ cs[b] = "WRITE" /\ (Made(b) \/ Told(b)) => mem[a] = pinout[b].data
  /\ Set(b) /\ (Made(b) \/ Told(b)) => mem[a] = 1
  /\ Told(b) => \A c \in idc[b] : /\ cs[b] = "SET0" => port[c].data = 0
                                  /\ cs[b] = "SET1" => port[c].data = 1

\* The access on the port of master c is one its program makes.
IsOp(c) == \E op \in Ops[kind][c] :
  port[c].addr = op.addr /\ port[c].rw = op.rw /\ (op.rw => port[c].data = op.data)

\* Master c, its poller and the lists.
MasterInv(c) ==
  /\ req[c] <=> poll[c] = "served"
  /\ poll[c] = "clock" => kind = "pic"
  /\ poll[c] = "edge" => ~port[c].on
  /\ served[c] => req[c]
  /\ req[c] /\ ~served[c] => port[c].on
  /\ served[c] <=> \E b \in Banks : c \in idc[b]
  /\ \A b \in Banks : c \in table[b] => req[c] /\ port[c].addr \in Addrs /\ BankOf[port[c].addr] = b
  /\ ~served[c] => ~ready[c] /\ applied[c] = 0
  /\ port[c].on \/ served[c] => IsOp(c)

Owner(c, a) == holds[c] = a \/ Winning(c, a) \/ Releasing(c, a)

\* A lock word is set exactly while it has its one owner.
LockInv ==
  kind # "shi" =>
    /\ \A c \in Masters : /\ holds[c] \in LockAddrs \cup {None}
                          /\ port[c].on /\ IsLock(port[c].addr) => holds[c] = None
    /\ \A a \in LockAddrs : /\ mem[a] = 0 => \A c \in Masters : ~Owner(c, a)
                            /\ mem[a] = 1 => \E c \in Masters : Owner(c, a)
                            /\ \A c, d \in Masters : Owner(c, a) /\ Owner(d, a) => c = d

\* The way from the machine's pointer to master c.
Way(b, c) == (c + N - ((next[b] + 1) % N)) % N
PassInv(c) ==
  /\ passed[c] <= N
  /\ \A b \in Banks : c \in table[b] \ idc[b] => passed[c] + Way(b, c) <= N
  /\ ~port[c].on \/ (\A b \in Banks : c \notin table[b]) => passed[c] = 0

Invariant ==
  /\ TypeOK /\ Clock /\ LockInv
  /\ \A b \in Banks : ListInv(b) /\ SlaveInv(b) /\ WordInv(b) /\ ServedInv(b) /\ ValueInv(b)
  /\ \A c \in Masters : MasterInv(c) /\ PassInv(c)

-----------------------------------------------------------------------------
(* Round robin. *)

\* The place of master c in a turn that begins at position p.
Place(c, p) == (c + N - (p % N)) % N

LEMMA PlaceRange ==
  ASSUME NEW c \in Masters, NEW p \in Nat
  PROVE  p % N \in 0 .. N - 1 /\ Place(c, p) \in 0 .. N - 1
<1>1. N \in Nat \ {0}
  BY ConstantsAssumption
<1>2. p % N \in 0 .. N - 1
  BY <1>1, RoundRange
<1>3. c + N - (p % N) \in Nat
  BY <1>1, <1>2 DEF Masters
<1>4. QED
  BY <1>1, <1>2, <1>3, RoundRange DEF Place

\* FirstFrom finds a member, the nearest in turn.
LEMMA FirstIn ==
  ASSUME NEW S \in SUBSET Masters, S # {}, NEW p \in Nat
  PROVE  /\ FirstFrom(S, p) \in S
         /\ \A d \in S : Place(FirstFrom(S, p), p) <= Place(d, p)
<1> DEFINE T == {Place(d, p) : d \in S}
<1>1. \A d \in S : Place(d, p) \in Nat
  BY PlaceRange
<1>2. T \in SUBSET Nat /\ T # {}
  BY <1>1
<1>3. PICK x \in T : \A y \in T : x <= y
  BY <1>2, LeastNat
<1>4. \E c \in S : \A d \in S : Place(c, p) <= Place(d, p)
  BY <1>3
<1>5. QED
  BY <1>4 DEF FirstFrom, Place

-----------------------------------------------------------------------------
(* The parts of the invariant. *)

LEMMA OfBank ==
  ASSUME Invariant, NEW b \in Banks
  PROVE  ListInv(b) /\ SlaveInv(b) /\ WordInv(b) /\ ServedInv(b) /\ ValueInv(b)
  BY DEF Invariant

LEMMA OfMaster ==
  ASSUME Invariant, NEW c \in Masters
  PROVE  MasterInv(c) /\ PassInv(c)
  BY DEF Invariant

\* A master is in the lists of one slave only.
LEMMA OneList ==
  ASSUME Invariant, NEW b \in Banks, NEW d \in Banks, NEW c \in table[b]
  PROVE  /\ c \in Masters /\ port[c].addr \in Addrs /\ BankOf[port[c].addr] = b
         /\ c \in table[d] => b = d
         /\ c \in idc[d] => b = d
<1>1. c \in Masters /\ idc[d] \subseteq table[d]
  BY OfBank DEF Invariant, TypeOK, ListInv
<1>2. QED
  BY <1>1, OfMaster DEF MasterInv

\* A change of a word on a port.
LEMMA OnFields ==
  ASSUME NEW w \in Word, NEW on \in BOOLEAN
  PROVE  LET v == [w EXCEPT !.on = on] IN
         v \in Word /\ v.addr = w.addr /\ v.rw = w.rw /\ v.data = w.data /\ v.on = on
  BY DEF Word

LEMMA DataFields ==
  ASSUME NEW w \in Word, NEW data \in {0, 1}
  PROVE  LET v == [w EXCEPT !.data = data] IN
         v \in Word /\ v.addr = w.addr /\ v.rw = w.rw /\ v.data = data /\ v.on = w.on
  BY DEF Word

\* The way to a master is shorter than the round.
LEMMA WayRange ==
  ASSUME TypeOK, NEW b \in Banks, NEW c \in Masters
  PROVE  Way(b, c) \in 0 .. N - 1 /\ Way(b, c) = Place(c, next[b] + 1)
<1>1. next[b] + 1 \in Nat
  BY DEF TypeOK, Masters
<1>2. QED
  BY <1>1, PlaceRange DEF Way, Place

-----------------------------------------------------------------------------
(* HalfEdge. *)

LEMMA HalfEdgeStep == ASSUME Invariant, HalfEdge PROVE Invariant'
<1>1. TypeOK'
  BY DEF Invariant, TypeOK, HalfEdge, arbVars
<1>2. Clock'
  BY DEF Invariant, Clock, HalfEdge, DoubleClock
<1>3. LockInv'
  BY DEF Invariant, HalfEdge, arbVars, LockInv, Owner, Winning, Releasing, IsLock, Accesses
<1>4. ASSUME NEW b \in Banks
      PROVE  ListInv(b)' /\ SlaveInv(b)' /\ WordInv(b)' /\ ServedInv(b)' /\ ValueInv(b)'
  <2> USE DEF HalfEdge, arbVars
  <2>1. ListInv(b)' /\ SlaveInv(b)'
    BY <1>4, OfBank DEF ListInv, SlaveInv, Early, Due, NextHalf, DoubleClock, Invariant, Clock
  <2>2. WordInv(b)'
    BY <1>4, OfBank DEF WordInv, IsTas, Set
  <2>3. ServedInv(b)'
    BY <1>4, OfBank DEF ServedInv, ServedOf, SlaveInv, Asked, Made, Told, Lowered, Due, Set, NextHalf, DoubleClock
  <2>4. ValueInv(b)'
    BY <1>4, OfBank DEF ValueInv, Asked, Made, Told, Lowered, Due, Set, IsLock
  <2>5. QED
    BY <2>1, <2>2, <2>3, <2>4
<1>5. ASSUME NEW c \in Masters PROVE MasterInv(c)' /\ PassInv(c)'
  BY <1>5, OfMaster DEF MasterInv, PassInv, HalfEdge, arbVars, IsOp, Way
<1>6. QED
  BY <1>1, <1>2, <1>3, <1>4, <1>5 DEF Invariant

-----------------------------------------------------------------------------
(* Sample. *)

LEMMA SampleStep == ASSUME Invariant, Sample PROVE Invariant'
<1>1. PICK n \in [Banks -> Latency[kind]] :
        slave' = [b \in Banks |-> IF slave[b].at = "wait" /\ request[b]
                                  THEN [at |-> "sampled", left |-> n[b], acc |-> pinout[b]]
                                  ELSE slave[b]]
  BY DEF Sample
<1>2. \A b \in Banks : n[b] \in Nat /\ (DoubleClock => n[b] % 2 = 0)
  BY <1>1, ConstantsAssumption, UsageAssumption DEF Invariant, TypeOK, DoubleClock
<1>3. TypeOK'
  <2>1. slave' \in [Banks -> [at : {"wait", "sampled", "answered"}, left : Nat, acc : Word]]
    BY <1>1, <1>2 DEF Invariant, TypeOK
  <2>2. QED
    BY <2>1 DEF Invariant, TypeOK, Sample, arbVars
<1>4. Clock'
  BY DEF Invariant, Clock, Sample, DoubleClock
<1>5. LockInv'
  BY DEF Invariant, Sample, arbVars, LockInv, Owner, Winning, Releasing, IsLock, Accesses
<1>6. ASSUME NEW b \in Banks
      PROVE  ListInv(b)' /\ SlaveInv(b)' /\ WordInv(b)' /\ ServedInv(b)' /\ ValueInv(b)'
  <2> USE DEF Sample, arbVars
  <2>0. /\ ~Due(b) /\ ~Due(b)'
        /\ slave[b].at = "wait" /\ request[b] =>
             ~half /\ slave'[b] = [at |-> "sampled", left |-> n[b], acc |-> pinout[b]]
        /\ ~(slave[b].at = "wait" /\ request[b]) => slave'[b] = slave[b]
    BY <1>1, <1>6, OfBank DEF Due, SlaveInv
  <2>1. ListInv(b)'
    BY <1>6, <2>0, OfBank DEF ListInv, Early, Due
  <2>2. SlaveInv(b)'
    BY <1>2, <1>6, <2>0, OfBank DEF SlaveInv, NextHalf, DoubleClock
  <2>3. WordInv(b)'
    BY <1>6, OfBank DEF WordInv, IsTas, Set
  <2>4. Asked(b)' = Asked(b) /\ Made(b)' = Made(b) /\ Told(b)' = Told(b) /\ Lowered(b)' = Lowered(b)
    BY <1>6, <2>0, OfBank DEF Asked, Made, Told, Lowered, SlaveInv
  <2>5. ServedInv(b)'
    BY <1>6, <2>4, OfBank DEF ServedInv, ServedOf, Set
  <2>6. ValueInv(b)'
    BY <1>6, <2>4, OfBank DEF ValueInv, Set, IsLock
  <2>7. QED
    BY <2>1, <2>2, <2>3, <2>5, <2>6
<1>7. ASSUME NEW c \in Masters PROVE MasterInv(c)' /\ PassInv(c)'
  BY <1>7, OfMaster DEF MasterInv, PassInv, Sample, arbVars, IsOp, Way
<1>8. QED
  BY <1>3, <1>4, <1>5, <1>6, <1>7 DEF Invariant

-----------------------------------------------------------------------------
(* Issue. *)

\* A master without a request is in no list.
LEMMA OffList ==
  ASSUME Invariant, phase = "issue", NEW c \in Masters, ~port[c].on
  PROVE  /\ ~served[c] /\ ~req[c] /\ ~ready[c] /\ applied[c] = 0
         /\ \A b \in Banks : c \notin table[b] /\ c \notin idc[b]
<1>1. ASSUME NEW b \in Banks, c \in idc[b] PROVE FALSE
  <2>1. ~Due(b) /\ ~Early(b) /\ idc[b] \subseteq table[b]
    BY <1>1, OfBank DEF Due, Early, ListInv
  <2>2. cs[b] # "IDLE"
    BY <1>1, <2>1, OfBank DEF ListInv
  <2>3. ~Asked(b) /\ ~(cs[b] # "TAS" /\ Told(b)) /\ ~(cs[b] = "TAS" /\ Told(b))
    BY <1>1, OfBank DEF ServedInv, ServedOf
  <2>4. slave[b].at \in {"wait", "sampled", "answered"}
    BY <1>1 DEF Invariant, TypeOK
  <2>5. QED
    BY <2>1, <2>2, <2>3, <2>4 DEF Asked, Told
<1>2. ~served[c] /\ ~req[c]
  BY <1>1, OfMaster DEF MasterInv
<1>3. QED
  BY <1>1, <1>2, OfMaster DEF MasterInv

LEMMA IssueStep ==
  ASSUME Invariant, NEW c \in Masters, NEW op \in Ops[kind][c], Issue(c, op) PROVE Invariant'
<1>1. /\ ~served[c] /\ ~req[c] /\ ~ready[c] /\ applied[c] = 0
      /\ \A b \in Banks : c \notin table[b] /\ c \notin idc[b]
  BY OffList DEF Issue
<1>2. op \in [addr : Addrs, rw : BOOLEAN, data : {0, 1}]
  BY ConstantsAssumption DEF Invariant, TypeOK
<1>3. /\ port'[c] = [on |-> TRUE, addr |-> op.addr, rw |-> op.rw, data |-> op.data]
      /\ holds'[c] = IF IsLock(op.addr) /\ op.rw THEN None ELSE holds[c]
      /\ req'[c] = (req[c] \/ poll[c] = "edge")
      /\ poll'[c] = IF poll[c] = "edge" THEN "served" ELSE poll[c]
      /\ \A d \in Masters : d # c => port'[d] = port[d] /\ holds'[d] = holds[d]
                                     /\ req'[d] = req[d] /\ poll'[d] = poll[d]
  BY DEF Issue, Invariant, TypeOK
<1>4. TypeOK'
  <2>1. port' \in [Masters -> Word]
    BY <1>2, <1>3 DEF Issue, Invariant, TypeOK, Word
  <2>2. holds' \in [Masters -> Addrs \cup {None}] /\ req' \in [Masters -> BOOLEAN]
        /\ poll' \in [Masters -> {"edge", "served", "clock"}]
    BY DEF Issue, Invariant, TypeOK
  <2>3. QED
    BY <2>1, <2>2 DEF Invariant, TypeOK, Issue, arbVars
<1>5. Clock'
  BY DEF Invariant, Clock, Issue, DoubleClock
<1>6. LockInv'
  <2> SUFFICES ASSUME kind # "shi" PROVE LockInv'
    BY DEF LockInv, Issue
  <2>1. kind' = kind /\ mem' = mem
    BY DEF Issue
  <2>2. ASSUME NEW d \in Masters
        PROVE  /\ holds'[d] \in LockAddrs \cup {None}
               /\ (port[d].on /\ IsLock(port[d].addr))' => holds'[d] = None
    BY <1>2, <1>3, <2>1, <2>2 DEF Invariant, LockInv, IsLock, Issue, MayIssue
  <2>3. ASSUME NEW d \in Masters, NEW a \in LockAddrs PROVE Owner(d, a)' = Owner(d, a)
    <3>1. CASE d # c
      BY <1>3, <2>3, <3>1 DEF Owner, Winning, Releasing, Accesses, IsLock, Issue, arbVars
    <3>2. CASE d = c
      <4>1. ~Winning(c, a) /\ ~Releasing(c, a) /\ ~Winning(c, a)'
        BY <1>1, <1>3 DEF Winning, Releasing, Accesses, Issue
      <4>2. a # None /\ a \in Addrs
        BY ConstantsAssumption DEF None
      <4>3. Releasing(c, a)' <=> op.addr = a /\ op.rw
        BY <1>1, <1>3 DEF Releasing, Issue
      <4>4. holds'[c] = a \/ (op.addr = a /\ op.rw) <=> holds[c] = a
        BY <1>3, <2>1, <4>2 DEF Issue, MayIssue, IsLock
      <4>5. QED
        BY <3>2, <4>1, <4>3, <4>4 DEF Owner
    <3>3. QED
      BY <3>1, <3>2
  <2>4. QED
    BY <2>1, <2>2, <2>3 DEF Invariant, LockInv
<1>7. ASSUME NEW b \in Banks
      PROVE  ListInv(b)' /\ SlaveInv(b)' /\ WordInv(b)' /\ ServedInv(b)' /\ ValueInv(b)'
  <2> USE DEF Issue, arbVars
  <2>1. \A d \in idc[b] : d \in Masters /\ d # c /\ port'[d] = port[d]
    BY <1>1, <1>3, <1>7 DEF Invariant, TypeOK
  <2>2. ListInv(b)' /\ SlaveInv(b)'
    BY <1>7, OfBank DEF ListInv, SlaveInv, Early, Due, NextHalf, DoubleClock
  <2>3. WordInv(b)'
    BY <1>7, <2>1, OfBank DEF WordInv, IsTas, Set
  <2>4. ServedInv(b)'
    BY <1>7, <2>1, OfBank DEF ServedInv, ServedOf, Asked, Made, Told, Lowered, Due, Set
  <2>5. ValueInv(b)'
    BY <1>7, <2>1, OfBank DEF ValueInv, Asked, Made, Told, Lowered, Due, Set, IsLock
  <2>6. QED
    BY <2>2, <2>3, <2>4, <2>5
<1>8. ASSUME NEW d \in Masters PROVE MasterInv(d)' /\ PassInv(d)'
  <2>1. CASE d # c
    BY <1>3, <1>8, <2>1, OfMaster DEF MasterInv, PassInv, Issue, arbVars, IsOp, Way
  <2>2. CASE d = c
    <3>1. IsOp(c)'
      BY <1>3 DEF IsOp, Issue
    <3>2. poll[c] \in {"edge", "served", "clock"}
      BY DEF Invariant, TypeOK
    <3>3. req'[c] <=> poll'[c] = "served"
      BY <1>1, <1>3, <3>2, OfMaster DEF MasterInv
    <3>4. MasterInv(c)'
      BY <1>1, <1>3, <3>1, <3>2, <3>3, OfMaster DEF MasterInv, Issue, arbVars
    <3>5. PassInv(c)'
      BY <2>2, OfMaster DEF PassInv, Issue, arbVars, Way
    <3>6. QED
      BY <2>2, <3>4, <3>5
  <2>3. QED
    BY <2>1, <2>2
<1>9. QED
  BY <1>4, <1>5, <1>6, <1>7, <1>8 DEF Invariant

-----------------------------------------------------------------------------
(* Cores. *)

\* The masters that take an answer are those of the machines that have told
\* theirs.
LEMMA WhoTakes ==
  ASSUME Invariant, phase = "cores", NEW b \in Banks, NEW c \in idc[b]
  PROVE  /\ c \in Masters
         /\ Took(c) <=> Told(b) /\ cs[b] # "TAS"
         /\ Took(c) => cs[b] # "IDLE" /\ applied[c] = Accesses(c)
         /\ ~Due(b) /\ ~Lowered(b) /\ ~Made(b)
<1>1. c \in Masters /\ ~Due(b) /\ slave[b].at \in {"wait", "sampled", "answered"}
  BY DEF Invariant, TypeOK, Due
<1>2. cs[b] = "IDLE" \/ Asked(b) \/ Told(b)
  BY <1>1 DEF Asked, Told
<1>3. cs[b] = "IDLE" => ~Told(b) /\ ~Asked(b)
  BY OfBank DEF SlaveInv, Asked, Told
<1>4. Took(c) <=> Told(b) /\ cs[b] # "TAS"
  BY <1>2, <1>3, OfBank DEF ServedInv, ServedOf, Took, Asked, Told
<1>5. ASSUME Took(c) PROVE applied[c] = Accesses(c)
  <2>1. applied[c] = IF Set(b) THEN 2 ELSE 1
    BY <1>4, <1>5, OfBank DEF ServedInv, ServedOf
  <2>2. Set(b) <=> IsTas(c)
    <3>1. cs[b] \in {"IDLE", "READ", "WRITE", "TAS", "SET0", "SET1"}
      BY DEF Invariant, TypeOK
    <3>2. QED
      BY <1>3, <1>4, <1>5, <3>1, OfBank DEF WordInv, Set, IsTas
  <2>3. Accesses(c) = IF IsTas(c) THEN 2 ELSE 1
    BY DEF Accesses, IsTas, IsLock
  <2>4. QED
    BY <2>1, <2>2, <2>3
<1>6. QED
  BY <1>1, <1>3, <1>4, <1>5 DEF Lowered, Made

\* A master that takes an answer is being served.
LEMMA TakerServed ==
  ASSUME Invariant, NEW c \in Masters, Took(c)
  PROVE  \E b \in Banks : c \in idc[b] /\ BankOf[port[c].addr] = b
<1>1. PICK b \in Banks : c \in idc[b]
  BY OfMaster DEF MasterInv, Took
<1>2. QED
  BY <1>1, OfBank, OneList DEF ListInv

LEMMA CoresStep == ASSUME Invariant, Cores PROVE Invariant'
<1>1. ASSUME NEW c \in Masters
      PROVE  /\ port'[c] = IF Took(c) THEN [port[c] EXCEPT !.on = FALSE] ELSE port[c]
             /\ port'[c].addr = port[c].addr /\ port'[c].rw = port[c].rw
             /\ port'[c].data = port[c].data /\ (port'[c].on <=> port[c].on /\ ~Took(c))
             /\ holds'[c] = IF ~Took(c) \/ ~IsLock(port[c].addr) THEN holds[c]
                            ELSE IF ~port[c].rw /\ port[c].data = 0 THEN port[c].addr ELSE holds[c]
             /\ applied'[c] = IF Took(c) THEN 0 ELSE applied[c]
             /\ passed'[c] = IF Took(c) THEN 0 ELSE passed[c]
  <2>1. port[c] \in Word /\ port[c].on \in BOOLEAN
    BY <1>1 DEF Invariant, TypeOK, Word
  <2>2. Took(c) => [port[c] EXCEPT !.on = FALSE].on = FALSE
    BY <2>1, OnFields
  <2>3. port'[c] = IF Took(c) THEN [port[c] EXCEPT !.on = FALSE] ELSE port[c]
    BY <1>1 DEF Cores
  <2>4. /\ port'[c].addr = port[c].addr /\ port'[c].rw = port[c].rw
        /\ port'[c].data = port[c].data /\ (port'[c].on <=> port[c].on /\ ~Took(c))
    <3>1. CASE Took(c)
      BY <2>1, <2>3, <3>1, OnFields
    <3>2. CASE ~Took(c)
      BY <2>1, <2>3, <3>2
    <3>3. QED
      BY <3>1, <3>2
  <2>5. QED
    BY <1>1, <2>3, <2>4 DEF Cores
<1>2. TypeOK'
  <2>1. port' \in [Masters -> Word]
    <3>1. \A c \in Masters : port[c] \in Word /\ [port[c] EXCEPT !.on = FALSE] \in Word
      BY OnFields DEF Invariant, TypeOK
    <3>2. QED
      BY <3>1 DEF Cores
  <2>2. \A c \in Masters : IsLock(port[c].addr) => port[c].addr \in Addrs
    BY ConstantsAssumption DEF IsLock
  <2>3. holds' \in [Masters -> Addrs \cup {None}] /\ applied' \in [Masters -> 0 .. 2]
        /\ passed' \in [Masters -> Nat]
    BY <2>2 DEF Cores, Invariant, TypeOK
  <2>4. QED
    BY <2>1, <2>3 DEF Invariant, TypeOK, Cores, arbVars
<1>3. Clock'
  BY DEF Invariant, Clock, Cores, DoubleClock
<1>4. LockInv'
  <2> SUFFICES ASSUME kind # "shi" PROVE LockInv'
    BY DEF LockInv, Cores
  <2>1. kind' = kind /\ mem' = mem
    BY DEF Cores
  <2>2. ASSUME NEW d \in Masters
        PROVE  /\ holds'[d] \in LockAddrs \cup {None}
               /\ (port[d].on /\ IsLock(port[d].addr))' => holds'[d] = None
    BY <1>1, <2>1, <2>2 DEF Invariant, LockInv, IsLock
  <2>3. ASSUME NEW d \in Masters, NEW a \in LockAddrs PROVE Owner(d, a)' = Owner(d, a)
    <3>1. CASE ~Took(d)
      BY <1>1, <2>3, <3>1 DEF Owner, Winning, Releasing, Accesses, IsLock, Cores, arbVars
    <3>2. CASE Took(d)
      <4>1. ~Winning(d, a)' /\ ~Releasing(d, a)'
        BY <1>1, <3>2 DEF Winning, Releasing
      <4>2. a # None /\ a \in Addrs
        BY ConstantsAssumption DEF None
      <4>3. applied[d] = Accesses(d) /\ ready[d] /\ port[d].on
        BY <3>2, TakerServed, WhoTakes DEF Cores, Took
      <4>4. ~Releasing(d, a) /\ (Winning(d, a) <=> port[d].addr = a /\ ~port[d].rw /\ port[d].data = 0)
        BY <4>3 DEF Releasing, Winning, Accesses
      <4>5. IsLock(port[d].addr) => holds[d] = None
        BY <4>3 DEF Invariant, LockInv
      <4>6. holds'[d] = a <=> holds[d] = a \/ (port[d].addr = a /\ ~port[d].rw /\ port[d].data = 0)
        BY <1>1, <3>2, <4>2, <4>5 DEF IsLock
      <4>7. QED
        BY <4>1, <4>4, <4>6 DEF Owner
    <3>3. QED
      BY <3>1, <3>2
  <2>4. QED
    BY <2>1, <2>2, <2>3 DEF Invariant, LockInv
<1>5. ASSUME NEW b \in Banks
      PROVE  ListInv(b)' /\ SlaveInv(b)' /\ WordInv(b)' /\ ServedInv(b)' /\ ValueInv(b)'
  <2>0. /\ phase = "cores" /\ phase' = "slaves"
        /\ UNCHANGED <<kind, half, todo, table, idc, busy, go, pending, isTas, cs, request, pinout,
                       slave, edge, mem, ready>>
    BY DEF Cores, arbVars
  <2>1. ASSUME NEW c \in idc[b]
        PROVE  /\ c \in Masters /\ (Took(c) <=> Told(b) /\ cs[b] # "TAS") /\ ~Due(b) /\ ~Due(b)'
               /\ port'[c].addr = port[c].addr /\ port'[c].rw = port[c].rw
               /\ port'[c].data = port[c].data /\ (port'[c].on <=> port[c].on /\ ~Took(c))
               /\ applied'[c] = IF Took(c) THEN 0 ELSE applied[c]
    BY <1>1, <1>5, <2>0, <2>1, WhoTakes DEF Due
  <2>2. ListInv(b)' /\ SlaveInv(b)'
    BY <1>5, <2>0, OfBank DEF ListInv, SlaveInv, Early, Due, NextHalf, DoubleClock, Invariant, Clock
  <2>3. WordInv(b)'
    BY <1>5, <2>0, <2>1, OfBank DEF WordInv, IsTas, Set
  <2>4. ServedInv(b)'
    <3>1. ASSUME NEW c \in idc[b], Took(c)
          PROVE  cs[b] # "TAS" /\ Told(b)' /\ ~Asked(b)' /\ ~Made(b)' /\ ~Lowered(b)' /\ cs[b] # "IDLE" /\ ready[c]
      BY <1>5, <2>0, <2>1, <3>1, WhoTakes DEF Told, Asked, Made, Lowered, Took
    <3>2. ASSUME NEW c \in idc[b] PROVE ServedOf(b, c)'
      <4>1. CASE Took(c)
        BY <2>0, <2>1, <3>1, <4>1 DEF ServedOf
      <4>2. CASE ~Took(c)
        <5>1. Asked(b)' = Asked(b) /\ Made(b)' = Made(b) /\ Told(b)' = Told(b)
              /\ Lowered(b)' = Lowered(b) /\ Set(b)' = Set(b)
          BY <2>0 DEF Asked, Made, Told, Lowered, Due, Set, Invariant, Clock
        <5>2. ServedOf(b, c) /\ ~(Told(b) /\ cs[b] # "TAS") /\ (port'[c].on <=> port[c].on)
              /\ applied'[c] = applied[c]
          BY <1>5, <2>1, <3>2, <4>2, OfBank DEF ServedInv
        <5>3. QED
          BY <2>0, <5>1, <5>2 DEF ServedOf
      <4>3. QED
        BY <4>1, <4>2
    <3>3. QED
      BY <2>0, <3>2 DEF ServedInv
  <2>5. ValueInv(b)'
    BY <1>5, <2>0, <2>1, OfBank DEF ValueInv, Asked, Made, Told, Lowered, Due, Set, IsLock
  <2>6. QED
    BY <2>2, <2>3, <2>4, <2>5
<1>6. ASSUME NEW c \in Masters PROVE MasterInv(c)' /\ PassInv(c)'
  <2>1. Took(c) => served[c]
    BY <1>6, OfMaster DEF MasterInv, Took
  <2>2. IsOp(c)' <=> IsOp(c)
    BY <1>1, <1>6 DEF IsOp, Cores
  <2>3. MasterInv(c)'
    BY <1>1, <1>6, <2>1, <2>2, OfMaster DEF MasterInv, Cores, arbVars
  <2>4. \A b \in Banks : Way(b, c)' = Way(b, c) /\ Way(b, c) \in 0 .. N - 1
    BY <1>6, WayRange DEF Way, Cores, Invariant
  <2>5. PassInv(c)'
    BY <1>1, <1>6, <2>4, OfMaster, ConstantsAssumption DEF PassInv, Cores, arbVars
  <2>6. QED
    BY <2>3, <2>5
<1>7. QED
  BY <1>2, <1>3, <1>4, <1>5, <1>6 DEF Invariant

-----------------------------------------------------------------------------
(* Slaves. *)

\* At an edge of the slaves.
LEMMA AtSlaves ==
  ASSUME Invariant, phase = "slaves", NEW b \in Banks
  PROVE  /\ ~Due(b) /\ (Asked(b) <=> slave[b].at = "sampled")
         /\ slave[b].at # "wait" <=> cs[b] # "IDLE"
         /\ cs[b] # "IDLE" => BankOf[pinout[b].addr] = b /\ pinout[b].addr \in Addrs
         /\ Accessing(b) => Asked(b) /\ cs[b] # "IDLE"
<1>1. ~Due(b) /\ (slave[b].at # "wait" <=> cs[b] # "IDLE")
  BY OfBank DEF Due, SlaveInv, Invariant, Clock
<1>2. ASSUME cs[b] # "IDLE" PROVE BankOf[pinout[b].addr] = b /\ pinout[b].addr \in Addrs
  <2>1. PICK c \in idc[b] : TRUE
    BY <1>2, OfBank DEF ListInv
  <2>2. c \in Masters /\ c \in table[b] /\ pinout[b].addr = port[c].addr
    BY <1>2, OfBank DEF ListInv, WordInv, Invariant, TypeOK
  <2>3. QED
    BY <2>2, OneList
<1>3. QED
  BY <1>1, <1>2 DEF Asked, Accessing

\* The accesses made for a master at this edge.
LEMMA AccessCount ==
  ASSUME Invariant, NEW c \in Masters
  PROVE  /\ ~served[c] => Cardinality({b \in Banks : Accessing(b) /\ c \in idc[b]}) = 0
         /\ \A d \in Banks : c \in idc[d] =>
              Cardinality({b \in Banks : Accessing(b) /\ c \in idc[b]}) = IF Accessing(d) THEN 1 ELSE 0
<1> DEFINE S == {b \in Banks : Accessing(b) /\ c \in idc[b]}
<1>1. ASSUME ~served[c] PROVE S = {}
  BY <1>1, OfMaster DEF MasterInv
<1>2. ASSUME NEW d \in Banks, c \in idc[d] PROVE S = IF Accessing(d) THEN {d} ELSE {}
  <2>1. ASSUME NEW b \in Banks, c \in idc[b] PROVE b = d
    BY <1>2, <2>1, OfBank, OneList DEF ListInv
  <2>2. QED
    BY <1>2, <2>1
<1>3. Cardinality({}) = 0 /\ \A d \in Banks : Cardinality({d}) = 1
  BY FS_EmptySet, FS_Singleton
<1>4. QED
  BY <1>1, <1>2, <1>3

\* What an edge does to slave b, its word and the memory behind it.
LEMMA SlaveMoves ==
  ASSUME Invariant, Slaves, NEW b \in Banks
  PROVE  /\ pinout'[b].addr = pinout[b].addr /\ pinout'[b].rw = pinout[b].rw
         /\ pinout'[b] \in Word
         /\ pinout'[b].data = IF Accessing(b) /\ ~pinout[b].rw THEN mem[pinout[b].addr] ELSE pinout[b].data
         /\ slave'[b].at = IF Accessing(b) THEN "answered"
                           ELSE IF slave[b].at = "answered" THEN "wait" ELSE slave[b].at
         /\ slave[b].at = "sampled" /\ ~Accessing(b) =>
              slave[b].left > 0 /\ slave'[b].left = slave[b].left - 1
         /\ slave'[b].at # "wait" => slave'[b].acc = slave[b].acc
         /\ edge'[b] = IF Accessing(b) THEN "up"
                       ELSE IF slave[b].at = "answered" THEN "down" ELSE "none"
         /\ slave'[b] \in [at : {"wait", "sampled", "answered"}, left : Nat, acc : Word]
<1>1. /\ slave[b] \in [at : {"wait", "sampled", "answered"}, left : Nat, acc : Word]
      /\ pinout[b] \in Word /\ mem \in [Addrs -> {0, 1}]
  BY DEF Invariant, TypeOK
<1>2. edge'[b] = IF Accessing(b) THEN "up" ELSE IF slave[b].at = "answered" THEN "down" ELSE "none"
  BY DEF Slaves
<1>3. pinout'[b] = IF Accessing(b) /\ ~slave[b].acc.rw
                   THEN [slave[b].acc EXCEPT !.data = mem[slave[b].acc.addr]] ELSE pinout[b]
  BY DEF Slaves
<1>4. /\ slave[b].at # "wait" => slave[b].acc.addr = pinout[b].addr /\ slave[b].acc.rw = pinout[b].rw
      /\ slave[b].at # "wait" => pinout[b].addr \in Addrs
  BY OfBank, AtSlaves DEF SlaveInv, Slaves
<1>5. /\ pinout'[b].addr = pinout[b].addr /\ pinout'[b].rw = pinout[b].rw /\ pinout'[b] \in Word
      /\ pinout'[b].data = IF Accessing(b) /\ ~pinout[b].rw THEN mem[pinout[b].addr] ELSE pinout[b].data
  <2>1. CASE Accessing(b) /\ ~slave[b].acc.rw
    <3>1. slave[b].at # "wait" /\ slave[b].acc \in Word /\ mem[slave[b].acc.addr] \in {0, 1}
      BY <1>1, <1>4, <2>1 DEF Accessing
    <3>2. /\ pinout'[b] \in Word /\ pinout'[b].addr = slave[b].acc.addr
          /\ pinout'[b].rw = slave[b].acc.rw /\ pinout'[b].data = mem[slave[b].acc.addr]
      <4>1. ASSUME NEW w \in Word, NEW x \in {0, 1}, pinout'[b] = [w EXCEPT !.data = x]
            PROVE  /\ pinout'[b] \in Word /\ pinout'[b].addr = w.addr
                   /\ pinout'[b].rw = w.rw /\ pinout'[b].data = x
        BY <4>1 DEF Word
      <4>2. pinout'[b] = [slave[b].acc EXCEPT !.data = mem[slave[b].acc.addr]]
        BY <1>3, <2>1
      <4>3. QED
        BY <3>1, <4>1, <4>2
    <3>3. QED
      BY <1>4, <2>1, <3>1, <3>2
  <2>2. CASE ~(Accessing(b) /\ ~slave[b].acc.rw)
    BY <1>1, <1>3, <1>4, <2>2 DEF Accessing
  <2>3. QED
    BY <2>1, <2>2
<1>6. slave'[b] = CASE Accessing(b) -> [slave[b] EXCEPT !.at = "answered"]
                    [] slave[b].at = "answered" -> [slave[b] EXCEPT !.at = "wait", !.acc = Free]
                    [] slave[b].at = "sampled" /\ slave[b].left > 0 -> [slave[b] EXCEPT !.left = @ - 1]
                    [] OTHER -> slave[b]
  BY DEF Slaves
<1>7. Free \in Word
  BY DEF Free, Word
<1>8. /\ slave'[b].at = IF Accessing(b) THEN "answered"
                        ELSE IF slave[b].at = "answered" THEN "wait" ELSE slave[b].at
      /\ slave[b].at = "sampled" /\ ~Accessing(b) =>
           slave[b].left > 0 /\ slave'[b].left = slave[b].left - 1
      /\ slave'[b].at # "wait" => slave'[b].acc = slave[b].acc
      /\ slave'[b] \in [at : {"wait", "sampled", "answered"}, left : Nat, acc : Word]
  <2>1. CASE Accessing(b)
    <3>1. slave'[b] = [slave[b] EXCEPT !.at = "answered"]
      BY <1>6, <2>1 DEF Accessing
    <3>2. QED
      BY <1>1, <2>1, <3>1
  <2>2. CASE slave[b].at = "answered"
    <3>1. slave'[b] = [slave[b] EXCEPT !.at = "wait", !.acc = Free] /\ ~Accessing(b)
      BY <1>6, <2>2 DEF Accessing
    <3>2. QED
      BY <1>1, <1>7, <2>2, <3>1
  <2>3. CASE slave[b].at = "sampled" /\ ~Accessing(b)
    <3>1. slave[b].left > 0
      BY <1>1, <2>3 DEF Accessing
    <3>2. slave'[b] = [slave[b] EXCEPT !.left = slave[b].left - 1]
      BY <1>6, <2>3, <3>1
    <3>3. QED
      BY <1>1, <2>3, <3>1, <3>2
  <2>4. CASE slave[b].at = "wait"
    <3>1. slave'[b] = slave[b] /\ ~Accessing(b)
      BY <1>6, <2>4 DEF Accessing
    <3>2. QED
      BY <1>1, <2>4, <3>1
  <2>5. QED
    BY <1>1, <2>1, <2>2, <2>3, <2>4
<1>9. QED
  BY <1>2, <1>5, <1>8

LEMMA MemoryMoves ==
  ASSUME Invariant, Slaves, NEW a \in Addrs
  PROVE  mem'[a] = IF ~Accessing(BankOf[a]) \/ pinout[BankOf[a]].addr # a THEN mem[a]
                   ELSE IF pinout[BankOf[a]].rw THEN pinout[BankOf[a]].data
                   ELSE IF kind = "pic" /\ a \in LockAddrs THEN 1 ELSE mem[a]
<1>1. BankOf[a] \in Banks
  BY ConstantsAssumption
<1>2. Accessing(BankOf[a]) => /\ slave[BankOf[a]].acc.addr = pinout[BankOf[a]].addr
                              /\ slave[BankOf[a]].acc.rw = pinout[BankOf[a]].rw
  BY <1>1, OfBank DEF SlaveInv, Accessing
<1>3. QED
  BY <1>2 DEF Slaves

\* The stages of a slave before and after an edge.
LEMMA SlaveStages ==
  ASSUME Invariant, Slaves, NEW b \in Banks
  PROVE  /\ Due(b)' /\ cs'[b] = cs[b] /\ Set(b)' = Set(b)
         /\ Made(b)' <=> Accessing(b)
         /\ Asked(b)' <=> Asked(b) /\ ~Accessing(b)
         /\ Lowered(b)' <=> Told(b)
         /\ ~Told(b)' /\ ~Made(b) /\ ~Lowered(b)
         /\ Told(b) => ~Asked(b) /\ cs[b] # "IDLE"
<1>1. cs' = cs /\ phase' = "fsm" /\ todo' = Banks /\ phase = "slaves"
  BY DEF Slaves
<1>2. Due(b)'
  BY <1>1 DEF Due
<1>3. slave[b].at \in {"wait", "sampled", "answered"}
  BY DEF Invariant, TypeOK
<1>4. QED
  BY <1>1, <1>2, <1>3, SlaveMoves, AtSlaves DEF Made, Asked, Lowered, Told, Set, Accessing

LEMMA SlavesBank ==
  ASSUME Invariant, Slaves, NEW b \in Banks
  PROVE  ListInv(b)' /\ SlaveInv(b)' /\ WordInv(b)' /\ ServedInv(b)' /\ ValueInv(b)'
<1>1. /\ phase = "slaves" /\ phase' = "fsm" /\ todo' = Banks
      /\ UNCHANGED <<kind, half, table, idc, busy, go, pending, isTas, cs, request, port, ready>>
  BY DEF Slaves, arbVars
<1>2. ListInv(b)'
  BY <1>1, OfBank DEF ListInv, Early, Due
<1>3. SlaveInv(b)'
  <2>1. NextHalf <=> half
    BY <1>1 DEF NextHalf
  <2>2. NextHalf' <=> ~half
    BY <1>1 DEF NextHalf
  <2>3. half => DoubleClock
    BY DEF Invariant, Clock
  <2>4. slave[b].at \in {"wait", "sampled", "answered"} /\ slave[b].left \in Nat
    BY DEF Invariant, TypeOK
  <2>5. ASSUME slave[b].at = "sampled", ~Accessing(b)
        PROVE  slave'[b].left % 2 = 0 <=> ~(slave[b].left % 2 = 0)
    BY <2>4, <2>5, SlaveMoves
  <2>6. ASSUME Accessing(b) PROVE slave[b].left % 2 = 0
    BY <2>6 DEF Accessing
  <2>7. DoubleClock' = DoubleClock
    BY <1>1 DEF DoubleClock
  <2>8. DoubleClock => /\ slave'[b].at = "sampled" => (slave'[b].left % 2 = 0 <=> NextHalf')
                       /\ slave'[b].at = "answered" => ~NextHalf'
    BY <2>1, <2>2, <2>4, <2>5, <2>6, SlaveMoves, OfBank DEF SlaveInv, Accessing
  <2>9. cs[b] # "IDLE" /\ slave'[b].at = "wait" => ~half
    BY <1>1, <2>1, <2>3, <2>4, SlaveMoves, AtSlaves, OfBank DEF SlaveInv
  <2>10. cs[b] = "IDLE" => slave'[b].at = "wait" /\ edge'[b] = "none"
    BY SlaveMoves, OfBank DEF SlaveInv, Accessing
  <2>11. edge'[b] = IF slave'[b].at = "answered" THEN "up"
                    ELSE IF cs[b] # "IDLE" /\ slave'[b].at = "wait" THEN "down" ELSE "none"
    BY <1>1, <2>4, <2>10, SlaveMoves, AtSlaves DEF Accessing
  <2>12. slave'[b].at # "wait" => slave'[b].acc.addr = pinout'[b].addr /\ slave'[b].acc.rw = pinout'[b].rw
    BY <2>4, SlaveMoves, OfBank DEF SlaveInv, Accessing
  <2>13. QED
    BY <1>1, <2>7, <2>8, <2>9, <2>10, <2>11, <2>12, OfBank DEF SlaveInv
<1>4. WordInv(b)'
  <2>1. pinout[b].rw => pinout'[b].data = pinout[b].data
    BY SlaveMoves
  <2>2. pinout'[b].addr = pinout[b].addr /\ pinout'[b].rw = pinout[b].rw
    BY SlaveMoves
  <2>3. QED
    BY <1>1, <2>1, <2>2, OfBank DEF WordInv, IsTas, Set
<1>5. ServedInv(b)'
  <2>1. ASSUME NEW c \in idc[b] PROVE ServedOf(b, c)'
    <3>1. applied'[c] = applied[c] + IF Accessing(b) THEN 1 ELSE 0
      <4>1. c \in Masters
        BY <2>1 DEF Invariant, TypeOK
      <4>2. applied'[c] = applied[c] + Cardinality({d \in Banks : Accessing(d) /\ c \in idc[d]})
        BY <4>1 DEF Slaves
      <4>3. QED
        BY <2>1, <4>1, <4>2, AccessCount
    <3>2. ServedOf(b, c)
      BY <2>1, OfBank DEF ServedInv
    <3>3. CASE Accessing(b)
      <4>1. Asked(b) /\ Made(b)' /\ ~Asked(b)' /\ ~Told(b)' /\ ~Lowered(b)' /\ cs[b] # "IDLE"
        BY <1>1, <3>3, SlaveStages, AtSlaves
      <4>2. applied[c] = IF Set(b) THEN 1 ELSE 0
        BY <3>2, <4>1 DEF ServedOf
      <4>3. QED
        BY <1>1, <3>1, <3>2, <3>3, <4>1, <4>2, SlaveStages DEF ServedOf
    <3>4. CASE ~Accessing(b)
      <4>1. applied'[c] = applied[c]
        <5>1. applied[c] \in Nat
          <6>1. c \in Masters /\ applied \in [Masters -> 0 .. 2]
            BY <2>1 DEF Invariant, TypeOK
          <6>2. QED
            BY <6>1
        <5>2. QED
          BY <3>1, <3>4, <5>1
      <4>2. ~Made(b)' /\ ~Told(b)' /\ (Asked(b)' <=> Asked(b)) /\ (Lowered(b)' <=> Told(b)) /\ Set(b)' = Set(b)
        BY <3>4, SlaveStages
      <4>3. QED
        BY <1>1, <3>2, <4>1, <4>2 DEF ServedOf
    <3>5. QED
      BY <3>3, <3>4
  <2>2. QED
    BY <1>1, <2>1 DEF ServedInv
<1>6. ValueInv(b)'
  <2> SUFFICES ASSUME cs[b] # "IDLE" PROVE ValueInv(b)'
    BY <1>1, SlaveMoves, SlaveStages, AtSlaves DEF ValueInv, Set
  <2> DEFINE a == pinout[b].addr
  <2>1. a \in Addrs /\ BankOf[a] = b /\ pinout'[b].addr = a
    BY <1>1, AtSlaves, SlaveMoves
  <2>2. mem'[a] = IF ~Accessing(b) THEN mem[a] ELSE IF pinout[b].rw THEN pinout[b].data
                  ELSE IF kind = "pic" /\ a \in LockAddrs THEN 1 ELSE mem[a]
    BY <2>1, MemoryMoves
  <2>3. PICK c \in idc[b] : TRUE
    BY OfBank DEF ListInv
  <2>4. CASE Accessing(b)
    <3>1. Made(b)' /\ ~Asked(b)' /\ ~Told(b)' /\ ~Lowered(b)' /\ cs'[b] = cs[b] /\ Set(b)' = Set(b)
      BY <1>1, <2>4, SlaveStages, AtSlaves
    <3>2. CASE cs[b] = "WRITE"
      BY <1>1, <2>1, <2>2, <2>3, <2>4, <3>1, <3>2, SlaveMoves, OfBank DEF ValueInv, WordInv, Set
    <3>3. CASE Set(b)
      BY <1>1, <2>1, <2>2, <2>3, <2>4, <3>1, <3>3, SlaveMoves, OfBank DEF ValueInv, WordInv, Set
    <3>4. CASE cs[b] = "TAS"
      BY <1>1, <2>1, <2>2, <2>3, <2>4, <3>1, <3>4, SlaveMoves, OfBank DEF ValueInv, WordInv, Set, IsTas
    <3>5. CASE cs[b] = "READ"
      <4>1. ~pinout[b].rw /\ pinout'[b].data = mem[a] /\ (IsLock(a) => kind = "pic")
        <5>1. ~pinout[b].rw /\ ~port[c].rw /\ ~IsTas(c) /\ a = port[c].addr
          BY <2>3, <3>5, OfBank DEF WordInv
        <5>2. kind \in {"lic", "pic", "shi"}
          BY ConstantsAssumption DEF Invariant, TypeOK
        <5>3. QED
          BY <2>4, <5>1, <5>2, SlaveMoves DEF IsTas, IsLock
      <4>2. IF IsLock(a) THEN mem'[a] = 1 ELSE mem'[a] = mem[a]
        BY <2>2, <2>4, <4>1 DEF IsLock
      <4>3. QED
        BY <1>1, <2>1, <3>1, <3>5, <4>1, <4>2 DEF ValueInv, Set, IsLock
    <3>6. QED
      BY <3>2, <3>3, <3>4, <3>5 DEF Set, Invariant, TypeOK
  <2>5. CASE ~Accessing(b)
    <3>1. /\ ~Made(b)' /\ ~Told(b)' /\ (Asked(b)' <=> Asked(b)) /\ (Lowered(b)' <=> Told(b))
          /\ pinout'[b].data = pinout[b].data /\ mem'[a] = mem[a]
      BY <2>2, <2>5, SlaveStages, SlaveMoves
    <3>2. QED
      BY <1>1, <2>1, <3>1, OfBank DEF ValueInv
  <2>6. QED
    BY <2>4, <2>5
<1>7. QED
  BY <1>2, <1>3, <1>4, <1>5, <1>6

\* Who owns lock a changes only by an access to it.
LEMMA OwnersKept ==
  ASSUME Invariant, Slaves, kind # "shi", NEW a \in LockAddrs, NEW c \in Masters,
         c \in idc[BankOf[a]] /\ port[c].addr = a => ~Accessing(BankOf[a])
  PROVE  Owner(c, a)' <=> Owner(c, a)
<1> DEFINE b == BankOf[a]
<1>1. UNCHANGED <<kind, idc, cs, port, ready, holds>> /\ phase = "slaves"
  BY DEF Slaves
<1>2. b \in Banks /\ a \in Addrs
  BY ConstantsAssumption
<1>3. applied'[c] = applied[c] + Cardinality({d \in Banks : Accessing(d) /\ c \in idc[d]})
  BY DEF Slaves
<1>4. applied[c] \in 0 .. 2
  BY DEF Invariant, TypeOK
<1>5. CASE port[c].addr # a
  BY <1>1, <1>5 DEF Owner, Winning, Releasing
<1>6. CASE port[c].addr = a /\ c \in idc[b]
  <2>1. ~Accessing(b) /\ applied'[c] = applied[c]
    BY <1>2, <1>3, <1>4, <1>6, AccessCount
  <2>2. pinout'[b].data = pinout[b].data
    BY <1>2, <2>1, SlaveMoves
  <2>3. QED
    BY <1>1, <2>1, <2>2 DEF Owner, Winning, Releasing, Accesses, IsLock
<1>7. CASE port[c].addr = a /\ c \notin idc[b]
  <2>1. ~served[c]
    <3>1. ASSUME NEW d \in Banks, c \in idc[d] PROVE FALSE
      <4>1. c \in table[d]
        BY <3>1, OfBank DEF ListInv
      <4>2. BankOf[port[c].addr] = d
        BY <4>1, OneList
      <4>3. QED
        BY <1>7, <3>1, <4>2
    <3>2. QED
      BY <3>1, OfMaster DEF MasterInv
  <2>2. applied[c] = 0 /\ applied'[c] = 0
    BY <1>3, <1>4, <2>1, AccessCount, OfMaster DEF MasterInv
  <2>3. QED
    BY <1>1, <2>2 DEF Owner, Winning, Releasing, Accesses
<1>8. QED
  BY <1>5, <1>6, <1>7

LEMMA SlavesLocks == ASSUME Invariant, Slaves PROVE LockInv'
<1> SUFFICES ASSUME kind # "shi" PROVE LockInv'
  BY DEF LockInv, Slaves
<1>1. UNCHANGED <<kind, idc, cs, port, ready, holds>> /\ phase = "slaves"
  BY DEF Slaves
<1>2. ASSUME NEW c \in Masters
      PROVE  /\ holds'[c] \in LockAddrs \cup {None}
             /\ (port[c].on /\ IsLock(port[c].addr))' => holds'[c] = None
  BY <1>1, <1>2 DEF Invariant, LockInv, IsLock
<1>3. ASSUME NEW a \in LockAddrs
      PROVE  /\ mem'[a] = 0 => \A c \in Masters : ~Owner(c, a)'
             /\ mem'[a] = 1 => \E c \in Masters : Owner(c, a)'
             /\ \A c, d \in Masters : Owner(c, a)' /\ Owner(d, a)' => c = d
  <2> DEFINE b == BankOf[a]
  <2>1. b \in Banks /\ a \in Addrs /\ a # None /\ mem[a] \in {0, 1}
    BY ConstantsAssumption DEF Invariant, TypeOK, None
  <2>2. /\ mem[a] = 0 => \A c \in Masters : ~Owner(c, a)
        /\ mem[a] = 1 => \E c \in Masters : Owner(c, a)
        /\ \A c, d \in Masters : Owner(c, a) /\ Owner(d, a) => c = d
    BY DEF Invariant, LockInv
  <2>3. CASE ~(Accessing(b) /\ pinout[b].addr = a)
    <3>1. mem'[a] = mem[a]
      BY <2>1, <2>3, MemoryMoves
    <3>2. ASSUME NEW c \in Masters PROVE Owner(c, a)' <=> Owner(c, a)
      <4>1. c \in idc[b] /\ Accessing(b) => port[c].addr = pinout[b].addr
        BY <1>1, <2>1, AtSlaves, OfBank DEF WordInv
      <4>2. QED
        BY <2>3, <4>1, OwnersKept
    <3>3. QED
      BY <2>2, <3>1, <3>2
  <2>4. CASE Accessing(b) /\ pinout[b].addr = a
    <3>1. cs[b] # "IDLE" /\ Asked(b)
      BY <1>1, <2>1, <2>4, AtSlaves
    <3>2. PICK c \in idc[b] : TRUE
      BY <2>1, <3>1, OfBank DEF ListInv
    <3>3. c \in Masters /\ port[c].addr = a /\ port[c].on /\ ~ready[c] /\ holds[c] = None
      <4>1. c \in Masters /\ port[c].addr = a
        BY <2>1, <2>4, <3>1, <3>2, OfBank DEF WordInv, Invariant, TypeOK
      <4>2. port[c].on /\ ~ready[c]
        BY <2>1, <3>1, <3>2, OfBank DEF ServedInv, ServedOf
      <4>3. QED
        BY <4>1, <4>2 DEF Invariant, LockInv, IsLock
    <3>4. port[c].rw \/ kind = "pic" \/ IsTas(c)
      <4>1. kind \in {"lic", "pic", "shi"}
        BY ConstantsAssumption DEF Invariant, TypeOK
      <4>2. QED
        BY <3>3, <4>1 DEF IsTas
    <3>5. idc[b] = {c}
      BY <2>1, <3>2, <3>4, OfBank DEF WordInv
    <3>6. ASSUME NEW d \in Masters, d # c PROVE Owner(d, a)' <=> Owner(d, a)
      BY <3>5, <3>6, OwnersKept
    <3>7. applied'[c] = applied[c] + 1 /\ applied[c] = IF Set(b) THEN 1 ELSE 0
      <4>1. applied'[c] = applied[c] + Cardinality({d \in Banks : Accessing(d) /\ c \in idc[d]})
        BY <3>3 DEF Slaves
      <4>2. QED
        BY <2>1, <2>4, <3>1, <3>2, <3>3, <4>1, AccessCount, OfBank DEF ServedInv, ServedOf
    <3>8. mem'[a] = IF pinout[b].rw THEN pinout[b].data ELSE IF kind = "pic" THEN 1 ELSE mem[a]
      BY <2>1, <2>4, MemoryMoves
    <3>9. CASE cs[b] = "WRITE"
      <4>1. port[c].rw /\ pinout[b].rw /\ pinout[b].data = port[c].data /\ ~Set(b)
        BY <2>1, <3>2, <3>9, OfBank DEF WordInv, Set
      <4>2. port[c].data = 0
        <5>1. IsOp(c) /\ kind \in Kinds
          BY <3>3, OfMaster DEF MasterInv, Invariant, TypeOK
        <5>2. PICK op \in Ops[kind][c] : /\ port[c].addr = op.addr /\ port[c].rw = op.rw
                                         /\ op.rw => port[c].data = op.data
          BY <5>1 DEF IsOp
        <5>3. QED
          BY <3>3, <4>1, <5>1, <5>2, UsageAssumption
      <4>3. Releasing(c, a)
        BY <3>3, <3>7, <4>1 DEF Releasing
      <4>4. ~Owner(c, a)'
        BY <1>1, <2>1, <3>3, <3>7, <4>1 DEF Owner, Releasing, Winning
      <4>5. \A d \in Masters : ~Owner(d, a)'
        BY <2>2, <3>3, <3>6, <4>3, <4>4 DEF Owner
      <4>6. mem'[a] = 0
        BY <3>8, <4>1, <4>2
      <4>7. QED
        BY <4>5, <4>6
    <3>10. CASE cs[b] = "READ"
      <4>1. ~port[c].rw /\ ~pinout[b].rw /\ ~Set(b) /\ ~IsTas(c)
        BY <2>1, <3>2, <3>10, OfBank DEF WordInv, Set
      <4>2. kind = "pic" /\ mem'[a] = 1 /\ pinout'[b].data = mem[a]
        BY <2>1, <2>4, <3>4, <3>8, <4>1, SlaveMoves
      <4>3. Accesses(c) = 1 /\ Accesses(c)' = 1
        BY <1>1, <4>2 DEF Accesses
      <4>4. ~Owner(c, a)
        BY <2>1, <3>3, <3>7, <4>1, <4>3 DEF Owner, Winning, Releasing
      <4>5. Owner(c, a)' <=> mem[a] = 0
        BY <1>1, <2>1, <3>3, <3>7, <4>1, <4>2, <4>3 DEF Owner, Winning, Releasing
      <4>6. QED
        BY <2>1, <2>2, <3>3, <3>6, <4>2, <4>4, <4>5
    <3>11. CASE cs[b] = "TAS"
      <4>1. IsTas(c) /\ ~pinout[b].rw /\ ~Set(b) /\ kind = "lic"
        BY <2>1, <3>2, <3>11, OfBank DEF WordInv, Set, IsTas
      <4>2. mem'[a] = mem[a] /\ Accesses(c) = 2 /\ Accesses(c)' = 2
        BY <1>1, <3>3, <3>8, <4>1 DEF Accesses, IsTas, IsLock
      <4>3. ~Owner(c, a) /\ ~Owner(c, a)'
        BY <1>1, <2>1, <3>3, <3>7, <4>1, <4>2 DEF Owner, Winning, Releasing, IsTas
      <4>4. QED
        BY <2>2, <3>3, <3>6, <4>2, <4>3
    <3>12. CASE Set(b)
      <4>1. IsTas(c) /\ pinout[b].rw /\ pinout[b].data = 1 /\ kind = "lic"
        BY <2>1, <3>2, <3>12, OfBank DEF WordInv, IsTas
      <4>2. mem'[a] = 1 /\ Accesses(c) = 2 /\ Accesses(c)' = 2
        BY <1>1, <3>3, <3>8, <4>1 DEF Accesses, IsTas, IsLock
      <4>3. mem[a] = IF cs[b] = "SET0" THEN 0 ELSE 1
        BY <2>1, <2>4, <3>1, <3>12, OfBank DEF ValueInv, Set
      <4>4. ~Owner(c, a)
        BY <2>1, <3>3, <3>7, <3>12, <4>1, <4>2 DEF Owner, Winning, Releasing, IsTas
      <4>5. Owner(c, a)' <=> mem[a] = 0
        BY <1>1, <2>1, <3>3, <3>7, <3>12, <4>1, <4>2, <4>3 DEF Owner, Winning, Releasing, IsTas
      <4>6. QED
        BY <2>1, <2>2, <3>3, <3>6, <4>2, <4>4, <4>5
    <3>13. QED
      BY <2>1, <3>1, <3>9, <3>10, <3>11, <3>12 DEF Set, Invariant, TypeOK
  <2>5. QED
    BY <2>3, <2>4
<1>4. QED
  BY <1>1, <1>2, <1>3 DEF LockInv

LEMMA SlavesStep == ASSUME Invariant, Slaves PROVE Invariant'
<1>1. TypeOK'
  <2>1. slave' \in [Banks -> [at : {"wait", "sampled", "answered"}, left : Nat, acc : Word]]
    <3> DEFINE Moved(b) ==
          CASE Accessing(b) -> [slave[b] EXCEPT !.at = "answered"]
            [] slave[b].at = "answered" -> [slave[b] EXCEPT !.at = "wait", !.acc = Free]
            [] slave[b].at = "sampled" /\ slave[b].left > 0 -> [slave[b] EXCEPT !.left = @ - 1]
            [] OTHER -> slave[b]
    <3>1. slave' = [b \in Banks |-> Moved(b)]
      BY DEF Slaves
    <3> HIDE DEF Moved
    <3>2. QED
      BY <3>1, SlaveMoves
  <2>2. pinout' \in [Banks -> Word] /\ edge' \in [Banks -> {"none", "up", "down"}]
    <3>1. pinout' = [b \in Banks |-> pinout'[b]] /\ edge' = [b \in Banks |-> edge'[b]]
      BY DEF Slaves
    <3>2. QED
      BY <3>1, SlaveMoves
  <2>3. mem' \in [Addrs -> {0, 1}]
    <3>1. mem' = [a \in Addrs |-> mem'[a]]
      BY DEF Slaves
    <3>2. ASSUME NEW a \in Addrs PROVE mem'[a] \in {0, 1}
      <4>1. mem[a] \in {0, 1} /\ pinout[BankOf[a]].data \in {0, 1}
        BY ConstantsAssumption DEF Invariant, TypeOK, Word
      <4>2. QED
        BY <3>2, <4>1, MemoryMoves
    <3>3. QED
      BY <3>1, <3>2
  <2>4. applied' \in [Masters -> 0 .. 2]
    <3>1. applied' = [c \in Masters |->
            applied[c] + Cardinality({b \in Banks : Accessing(b) /\ c \in idc[b]})]
      BY DEF Slaves
    <3>2. ASSUME NEW c \in Masters PROVE applied'[c] \in 0 .. 2
      <4>1. CASE ~served[c]
        BY <3>1, <3>2, <4>1, AccessCount, OfMaster DEF MasterInv
      <4>2. CASE served[c]
        <5>1. PICK b \in Banks : c \in idc[b]
          BY <3>2, <4>2, OfMaster DEF MasterInv
        <5>2. applied'[c] = applied[c] + IF Accessing(b) THEN 1 ELSE 0
          BY <3>1, <3>2, <5>1, AccessCount
        <5>3. Accessing(b) => applied[c] \in {0, 1}
          BY <5>1, AtSlaves, OfBank DEF ServedInv, ServedOf, Slaves
        <5>4. applied[c] \in 0 .. 2
          BY <3>2 DEF Invariant, TypeOK
        <5>5. QED
          BY <5>2, <5>3, <5>4
      <4>3. QED
        BY <4>1, <4>2
    <3>3. QED
      BY <3>1, <3>2
  <2>5. QED
    BY <2>1, <2>2, <2>3, <2>4 DEF Invariant, TypeOK, Slaves, arbVars
<1>2. Clock'
  BY DEF Invariant, Clock, Slaves, DoubleClock
<1>3. ASSUME NEW c \in Masters PROVE MasterInv(c)' /\ PassInv(c)'
  <2>1. ~served[c] => applied'[c] = 0
    <3>1. applied'[c] = applied[c] + Cardinality({b \in Banks : Accessing(b) /\ c \in idc[b]})
      BY <1>3 DEF Slaves
    <3>2. QED
      BY <1>3, <3>1, AccessCount, OfMaster DEF MasterInv
  <2>2. UNCHANGED <<kind, req, served, poll, table, idc, port, ready, next, passed>>
    BY DEF Slaves, arbVars
  <2>3. QED
    BY <1>3, <2>1, <2>2, OfMaster DEF MasterInv, PassInv, IsOp, Way
<1>4. QED
  BY <1>1, <1>2, <1>3, SlavesBank, SlavesLocks DEF Invariant

-----------------------------------------------------------------------------
(* A step of the machine of slave b. *)

\* What it leaves alone.
Apart(b) ==
  /\ phase = "fsm" /\ b \in todo /\ todo' = todo \ {b}
  /\ UNCHANGED <<kind, phase, half, slave, edge, mem, holds, applied, isTas, pending>>
  /\ \A x \in Banks \ {b} :
       /\ table'[x] = table[x] /\ idc'[x] = idc[x] /\ busy'[x] = busy[x] /\ go'[x] = go[x]
       /\ cs'[x] = cs[x] /\ request'[x] = request[x] /\ pinout'[x] = pinout[x] /\ next'[x] = next[x]
  /\ \A c \in Masters \ idc[b] : port'[c] = port[c] /\ (ready'[c] <=> ready[c])

\* The other slaves do not notice.
LEMMA OtherBank ==
  ASSUME Invariant, NEW b \in Banks, Apart(b), NEW x \in Banks \ {b}
  PROVE  ListInv(x)' /\ SlaveInv(x)' /\ WordInv(x)' /\ ServedInv(x)' /\ ValueInv(x)'
<1>1. /\ table'[x] = table[x] /\ idc'[x] = idc[x] /\ busy'[x] = busy[x] /\ go'[x] = go[x]
      /\ cs'[x] = cs[x] /\ request'[x] = request[x] /\ pinout'[x] = pinout[x]
      /\ kind' = kind /\ phase' = phase /\ half' = half /\ slave' = slave /\ edge' = edge
      /\ mem' = mem /\ applied' = applied /\ isTas' = isTas /\ pending' = pending
  BY DEF Apart
<1>2. Due(x)' <=> Due(x)
  BY DEF Apart, Due
<1>3. ASSUME NEW c \in idc[x] PROVE port'[c] = port[c] /\ (ready'[c] <=> ready[c])
  <2>1. c \in Masters /\ c \in table[x]
    BY <1>3, OfBank DEF ListInv, Invariant, TypeOK
  <2>2. c \notin idc[b]
    BY <2>1, OneList
  <2>3. QED
    BY <2>1, <2>2 DEF Apart
<1>4. ListInv(x)' /\ SlaveInv(x)'
  <2>1. Early(x)' <=> Early(x)
    BY <1>1, <1>2 DEF Early
  <2>2. (NextHalf' <=> NextHalf) /\ DoubleClock' = DoubleClock
    BY <1>1 DEF NextHalf, DoubleClock
  <2>3. QED
    BY <1>1, <1>2, <2>1, <2>2, OfBank DEF ListInv, SlaveInv
<1>5. /\ Asked(x)' <=> Asked(x)
      /\ Made(x)' <=> Made(x)
      /\ Told(x)' <=> Told(x)
      /\ Lowered(x)' <=> Lowered(x)
      /\ Set(x)' <=> Set(x)
  BY <1>1, <1>2 DEF Asked, Made, Told, Lowered, Set
<1>6. WordInv(x)'
  BY <1>1, <1>3, <1>5, OfBank DEF WordInv, IsTas
<1>7. ServedInv(x)'
  <2>1. ASSUME NEW c \in idc[x] PROVE ServedOf(x, c)'
    <3>1. ServedOf(x, c)
      BY <2>1, OfBank DEF ServedInv
    <3>2. QED
      BY <1>1, <1>3, <1>5, <2>1, <3>1 DEF ServedOf
  <2>2. QED
    BY <1>1, <2>1 DEF ServedInv
<1>8. ValueInv(x)'
  BY <1>1, <1>3, <1>5, OfBank DEF ValueInv, IsLock
<1>9. QED
  BY <1>4, <1>6, <1>7, <1>8

\* Nor do the locks, unless the masters being served do.
LEMMA LocksKept ==
  ASSUME Invariant, NEW b \in Banks, Apart(b),
         \A c \in idc[b] : /\ port'[c].on <=> port[c].on
                           /\ port'[c].addr = port[c].addr
                           /\ port'[c].rw <=> port[c].rw,
         kind # "shi" => \A c \in idc[b] : \A a \in LockAddrs : Winning(c, a)' <=> Winning(c, a)
  PROVE  LockInv'
<1> SUFFICES ASSUME kind # "shi" PROVE LockInv'
  BY DEF LockInv, Apart
<1>1. UNCHANGED <<kind, mem, holds, applied>>
  BY DEF Apart
<1>2. ASSUME NEW c \in Masters
      PROVE  /\ port'[c].on <=> port[c].on
             /\ port'[c].addr = port[c].addr
             /\ port'[c].rw <=> port[c].rw
  BY <1>2 DEF Apart
<1>3. ASSUME NEW c \in Masters
      PROVE  /\ holds'[c] \in LockAddrs \cup {None}
             /\ (port[c].on /\ IsLock(port[c].addr))' => holds'[c] = None
  BY <1>1, <1>2, <1>3 DEF Invariant, LockInv, IsLock
<1>4. ASSUME NEW c \in Masters, NEW a \in LockAddrs PROVE Winning(c, a)' <=> Winning(c, a)
  <2>1. CASE c \in idc[b]
    BY <1>4, <2>1
  <2>2. CASE c \notin idc[b]
    <3>1. port'[c] = port[c] /\ (ready'[c] <=> ready[c]) /\ (Accesses(c)' = Accesses(c))
      BY <1>1, <1>4, <2>2 DEF Apart, Accesses, IsLock
    <3>2. BankOf[a] \in Banks
      BY ConstantsAssumption
    <3>3. CASE BankOf[a] # b
      <4>1. cs'[BankOf[a]] = cs[BankOf[a]] /\ pinout'[BankOf[a]] = pinout[BankOf[a]]
        BY <3>2, <3>3 DEF Apart
      <4>2. QED
        BY <1>1, <3>1, <4>1 DEF Winning
    <3>4. CASE BankOf[a] = b /\ port[c].addr = a
      <4>1. ~served[c]
        <5>1. ASSUME NEW d \in Banks, c \in idc[d] PROVE FALSE
          <6>1. c \in table[d]
            BY <5>1, OfBank DEF ListInv
          <6>2. BankOf[port[c].addr] = d
            BY <6>1, OneList
          <6>3. QED
            BY <2>2, <3>4, <5>1, <6>2
        <5>2. QED
          BY <1>4, <5>1, OfMaster DEF MasterInv
      <4>2. applied[c] = 0 /\ applied'[c] = 0
        BY <1>1, <1>4, <4>1, OfMaster DEF MasterInv
      <4>3. QED
        BY <4>2 DEF Winning, Accesses
    <3>5. QED
      BY <3>1, <3>3, <3>4 DEF Winning
  <2>3. QED
    BY <2>1, <2>2
<1>5. ASSUME NEW c \in Masters, NEW a \in LockAddrs PROVE Owner(c, a)' <=> Owner(c, a)
  BY <1>1, <1>2, <1>4, <1>5 DEF Owner, Releasing
<1>6. QED
  BY <1>1, <1>3, <1>5 DEF Invariant, LockInv

\* Nor the masters, unless the lists change.
LEMMA ListsKept ==
  ASSUME Invariant, NEW b \in Banks, Apart(b),
         UNCHANGED <<req, served, poll, table, idc, next, passed>>,
         \A c \in idc[b] : /\ port'[c].on <=> port[c].on
                           /\ port'[c].addr = port[c].addr
                           /\ port'[c].rw = port[c].rw
                           /\ port[c].rw => port'[c].data = port[c].data,
         NEW c \in Masters
  PROVE  MasterInv(c)' /\ PassInv(c)'
<1>1. /\ port'[c].on <=> port[c].on
      /\ port'[c].addr = port[c].addr
      /\ port'[c].rw = port[c].rw
      /\ port[c].rw => port'[c].data = port[c].data
      /\ kind' = kind /\ applied' = applied
  BY DEF Apart
<1>2. IsOp(c) => IsOp(c)'
  BY <1>1 DEF IsOp
<1>3. ~served[c] => (ready'[c] <=> ready[c])
  <2>1. ~served[c] => c \notin idc[b]
    BY OfMaster DEF MasterInv
  <2>2. QED
    BY <2>1 DEF Apart
<1>4. MasterInv(c)'
  BY <1>1, <1>2, <1>3, OfMaster DEF MasterInv
<1>5. PassInv(c)'
  BY <1>1, OfMaster DEF PassInv, Way
<1>6. QED
  BY <1>4, <1>5

LEMMA BankStep ==
  ASSUME Invariant, NEW b \in Banks, Apart(b), TypeOK', LockInv',
         ListInv(b)' /\ SlaveInv(b)' /\ WordInv(b)' /\ ServedInv(b)' /\ ValueInv(b)',
         \A c \in Masters : MasterInv(c)' /\ PassInv(c)'
  PROVE  Invariant'
<1>1. Clock'
  BY DEF Apart, Invariant, Clock, DoubleClock
<1>2. QED
  BY <1>1, OtherBank DEF Invariant

\* The machine of slave b has an event.
LEMMA AtTurn ==
  ASSUME Invariant, NEW b \in Banks, Turn(b)
  PROVE  /\ Due(b) /\ ~Due(b)' /\ phase = "fsm" /\ b \in todo /\ todo' = todo \ {b}
         /\ edge[b] = IF slave[b].at = "answered" THEN "up"
                      ELSE IF cs[b] # "IDLE" /\ slave[b].at = "wait" THEN "down" ELSE "none"
         /\ slave[b].at \in {"wait", "sampled", "answered"}
         /\ edge[b] = "up" => Made(b) /\ cs[b] # "IDLE"
         /\ edge[b] = "down" => Lowered(b) /\ ~half /\ Early(b)
<1>1. Due(b) /\ ~Due(b)' /\ phase = "fsm" /\ b \in todo /\ todo' = todo \ {b}
  BY DEF Turn, Due
<1>2. slave[b].at \in {"wait", "sampled", "answered"}
  BY DEF Invariant, TypeOK
<1>3. QED
  BY <1>1, <1>2, OfBank DEF SlaveInv, Made, Lowered, Early

LEMMA StartStep == ASSUME Invariant, NEW b \in Banks, Start(b) PROVE Invariant'
<1> DEFINE w == FirstFrom(idc[b], 0)
<1>1. /\ cs[b] = "IDLE" /\ go[b] = "rise" /\ Due(b) /\ ~Due(b)' /\ phase = "fsm" /\ todo' = todo \ {b}
      /\ b \in todo
      /\ UNCHANGED <<kind, phase, half, slave, edge, mem, holds, applied, req, served, poll, table, busy,
                     pending, isTas, nextToServe, idc, next, port, ready, passed>>
  BY AtTurn DEF Start, Rest
<1>2. TypeOK
  BY DEF Invariant
<1>3. busy[b] /\ idc[b] # {} /\ idc[b] \in SUBSET Masters /\ ~half /\ slave[b].at = "wait"
  <2>1. busy[b] /\ Early(b) /\ idc[b] # {}
    BY <1>1, OfBank DEF ListInv
  <2>2. QED
    BY <1>1, <2>1, OfBank DEF SlaveInv, Early, Invariant, TypeOK
<1>4. w \in idc[b] /\ w \in Masters
  BY <1>3, FirstIn
<1>5. port[w] \in Word
  BY <1>2, <1>4 DEF TypeOK
<1>6. /\ pinout' = [pinout EXCEPT ![b] = port[w]]
      /\ cs' = [cs EXCEPT ![b] = IF port[w].rw THEN "WRITE" ELSE IF isTas[b] THEN "TAS" ELSE "READ"]
      /\ request' = [request EXCEPT ![b] = TRUE] /\ go' = [go EXCEPT ![b] = "on"]
  BY DEF Start
<1> HIDE DEF w
<1>7. /\ pinout'[b] = port[w] /\ request'[b] = TRUE /\ go'[b] = "on"
      /\ cs'[b] = IF port[w].rw THEN "WRITE" ELSE IF isTas[b] THEN "TAS" ELSE "READ"
      /\ \A x \in Banks \ {b} : pinout'[x] = pinout[x] /\ request'[x] = request[x]
                                /\ go'[x] = go[x] /\ cs'[x] = cs[x]
  BY <1>2, <1>6 DEF TypeOK
<1>8. Apart(b)
  BY <1>1, <1>7 DEF Apart
<1>9. TypeOK'
  <2>1. pinout' \in [Banks -> Word] /\ request' \in [Banks -> BOOLEAN] /\ go' \in [Banks -> {"off", "rise", "on"}]
        /\ cs' \in [Banks -> {"IDLE", "READ", "WRITE", "TAS", "SET0", "SET1"}]
    BY <1>2, <1>5, <1>6 DEF TypeOK
  <2>2. todo' \subseteq Banks
    BY <1>1, <1>2 DEF TypeOK
  <2>3. QED
    BY <1>1, <1>2, <2>1, <2>2 DEF TypeOK
<1>10. /\ Asked(b)' /\ ~Made(b)' /\ ~Told(b)' /\ ~Lowered(b)' /\ ~Set(b)' /\ ~Early(b)'
       /\ cs'[b] # "IDLE"
  BY <1>1, <1>3, <1>7 DEF Asked, Made, Told, Lowered, Set, Early
<1>11. ASSUME NEW c \in idc[b] PROVE ~ready[c] /\ port[c].on /\ applied[c] = 0
  BY <1>1, <1>11, OfBank DEF ServedInv, ServedOf, Set
<1>12. LockInv'
  <2>1. ASSUME NEW c \in idc[b], NEW a \in LockAddrs PROVE ~Winning(c, a)' /\ ~Winning(c, a)
    BY <1>1, <1>11, <2>1 DEF Winning, Accesses
  <2>2. QED
    BY <1>1, <1>8, <2>1, LocksKept
<1>13. ListInv(b)' /\ SlaveInv(b)'
  BY <1>1, <1>3, <1>7, <1>10, OfBank DEF ListInv, SlaveInv
<1>14. WordInv(b)'
  <2>1. ASSUME NEW c \in idc[b]
        PROVE  /\ port[c].addr = port[w].addr /\ port[c].rw = port[w].rw
               /\ port[w].rw => port[c].data = port[w].data
               /\ ~port[c].rw => isTas[b] = IsTas(c)
    BY <1>1, <1>4, <2>1, OfBank DEF WordInv
  <2>2. \A c, d \in idc[b] : /\ port[c].addr = port[d].addr /\ port[c].rw = port[d].rw
                             /\ port[c].rw \/ kind = "pic" \/ IsTas(c) => c = d
    BY OfBank DEF WordInv
  <2>3. ASSUME NEW c \in idc[b] PROVE IsTas(c)' = IsTas(c)
    BY <1>1 DEF IsTas
  <2>4. ASSUME NEW c \in idc[b]
        PROVE  /\ cs'[b] = "READ" => ~port[c].rw /\ ~port[w].rw /\ ~IsTas(c)
               /\ cs'[b] = "WRITE" => port[c].rw /\ port[w].rw /\ port[w].data = port[c].data
               /\ cs'[b] = "TAS" => IsTas(c) /\ ~port[w].rw
    BY <1>7, <2>1, <2>4
  <2>5. QED
    BY <1>1, <1>7, <1>10, <2>1, <2>2, <2>3, <2>4 DEF WordInv
<1>15. ServedInv(b)'
  BY <1>1, <1>10, <1>11 DEF ServedInv, ServedOf
<1>16. ValueInv(b)'
  BY <1>1, <1>10 DEF ValueInv, Set
<1>17. \A c \in Masters : MasterInv(c)' /\ PassInv(c)'
  BY <1>1, <1>8, ListsKept
<1>18. QED
  BY <1>8, <1>9, <1>12, <1>13, <1>14, <1>15, <1>16, <1>17, BankStep

LEMMA SleepStep == ASSUME Invariant, NEW b \in Banks, Sleep(b) PROVE Invariant'
<1>1. /\ Due(b) /\ ~Due(b)' /\ phase = "fsm" /\ todo' = todo \ {b} /\ b \in todo
      /\ UNCHANGED <<kind, phase, half, slave, edge, mem, holds, applied, req, served, poll, table, busy,
                     pending, isTas, nextToServe, idc, next, cs, request, pinout, port, ready, passed>>
      /\ go' = [go EXCEPT ![b] = IF go[b] = "rise" THEN "on" ELSE go[b]]
  BY AtTurn DEF Sleep, Rest
<1>2. TypeOK
  BY DEF Invariant
<1>3. go[b] # "rise"
  BY OfBank DEF ListInv, Sleep
<1>4. go' = go
  BY <1>1, <1>2, <1>3 DEF TypeOK
<1>5. Apart(b)
  BY <1>1, <1>4 DEF Apart
<1>6. TypeOK'
  <2>1. todo' \subseteq Banks
    BY <1>1, <1>2 DEF TypeOK
  <2>2. QED
    BY <1>1, <1>2, <1>4, <2>1 DEF TypeOK
<1>7. cs[b] = "IDLE" \/ slave[b].at = "sampled" \/ (cs[b] = "TAS" /\ slave[b].at = "answered")
  BY AtTurn DEF Sleep
<1>8. cs[b] = "IDLE" => slave[b].at = "wait" /\ idc[b] = {}
  <2>1. cs[b] = "IDLE" => ~busy[b]
    BY <1>3, OfBank DEF ListInv
  <2>2. QED
    BY <2>1, OfBank DEF ListInv, SlaveInv
<1>9. /\ Asked(b)' <=> Asked(b)
      /\ ~Made(b)' /\ ~Lowered(b)' /\ ~Early(b)' /\ ~Lowered(b)
      /\ Told(b)' <=> Made(b)
      /\ Made(b) => cs[b] = "TAS"
      /\ Set(b)' <=> Set(b)
  BY <1>1, <1>7, <1>8 DEF Asked, Made, Told, Lowered, Early, Set
<1>10. LockInv'
  <2>1. ASSUME NEW c \in idc[b], NEW a \in LockAddrs PROVE Winning(c, a)' <=> Winning(c, a)
    BY <1>1 DEF Winning, Accesses, IsLock
  <2>2. QED
    BY <1>1, <1>5, <2>1, LocksKept
<1>11. ListInv(b)'
  BY <1>1, <1>3, <1>4, <1>9, OfBank DEF ListInv
<1>12. SlaveInv(b)'
  <2>1. (NextHalf' <=> NextHalf) /\ DoubleClock' = DoubleClock
    BY <1>1 DEF NextHalf, DoubleClock
  <2>2. QED
    BY <1>1, <1>7, <2>1, OfBank DEF SlaveInv
<1>13. WordInv(b)'
  BY <1>1, <1>9, OfBank DEF WordInv, IsTas
<1>14. ServedInv(b)'
  <2>1. ASSUME NEW c \in idc[b] PROVE ServedOf(b, c)'
    <3>1. ServedOf(b, c) /\ cs[b] # "IDLE"
      BY <1>8, <2>1, OfBank DEF ServedInv
    <3>2. cs[b] = "TAS" => ~Set(b)
      BY DEF Set
    <3>3. QED
      BY <1>1, <1>9, <3>1, <3>2 DEF ServedOf
  <2>2. QED
    BY <1>1, <2>1 DEF ServedInv
<1>15. ValueInv(b)'
  <2>1. cs[b] = "TAS" => ~Set(b)
    BY DEF Set
  <2>2. QED
    BY <1>1, <1>9, <2>1, OfBank DEF ValueInv
<1>16. \A c \in Masters : MasterInv(c)' /\ PassInv(c)'
  BY <1>1, <1>5, ListsKept
<1>17. QED
  BY <1>5, <1>6, <1>10, <1>11, <1>12, <1>13, <1>14, <1>15, <1>16, BankStep

\* The machine tells the masters being served that the access is made.
LEMMA ToldStep ==
  ASSUME Invariant, NEW b \in Banks, Turn(b), edge[b] = "up", cs[b] # "TAS",
         UNCHANGED <<kind, phase, half, slave, edge, mem, holds, applied, req, served, poll, table, busy, go,
                     pending, isTas, nextToServe, idc, next, cs, request, pinout, passed>>,
         ready' = [c \in Masters |-> ready[c] \/ c \in idc[b]],
         port' \in [Masters -> Word],
         \A c \in Masters \ idc[b] : port'[c] = port[c],
         \A c \in idc[b] : /\ port'[c].on = port[c].on
                           /\ port'[c].addr = port[c].addr
                           /\ port'[c].rw = port[c].rw
                           /\ port[c].rw => port'[c].data = port[c].data
                           /\ cs[b] = "READ" => port'[c].data = pinout[b].data
                           /\ cs[b] = "SET0" => port'[c].data = 0
                           /\ cs[b] = "SET1" => port'[c].data = 1
  PROVE  Invariant'
<1>1. /\ Due(b) /\ ~Due(b)' /\ phase = "fsm" /\ b \in todo /\ todo' = todo \ {b}
      /\ Made(b) /\ cs[b] # "IDLE" /\ slave[b].at = "answered"
  BY AtTurn DEF Made
<1>2. TypeOK
  BY DEF Invariant
<1>3. \A c \in Masters : ready'[c] <=> ready[c] \/ c \in idc[b]
  OBVIOUS
<1>4. Apart(b)
  BY <1>1, <1>3 DEF Apart
<1>5. TypeOK'
  <2>1. todo' \subseteq Banks /\ ready' \in [Masters -> BOOLEAN]
    BY <1>1, <1>2 DEF TypeOK
  <2>2. QED
    BY <1>2, <2>1 DEF TypeOK
<1>6. ~Asked(b)' /\ ~Made(b)' /\ Told(b)' /\ ~Lowered(b)' /\ ~Early(b)' /\ (Set(b)' <=> Set(b))
  BY <1>1 DEF Asked, Made, Told, Lowered, Early, Set
<1>7. ASSUME NEW c \in idc[b]
      PROVE  c \in Masters /\ ~ready[c] /\ ready'[c] /\ port[c].on /\ applied[c] = IF Set(b) THEN 2 ELSE 1
  <2>1. c \in Masters
    BY <1>2, <1>7 DEF TypeOK
  <2>2. QED
    BY <1>1, <1>3, <1>7, <2>1, OfBank DEF ServedInv, ServedOf
<1>8. ASSUME NEW c \in idc[b] PROVE IsTas(c)' <=> IsTas(c)
  BY <1>8 DEF IsTas
<1>9. LockInv'
  <2>1. ASSUME kind # "shi", NEW c \in idc[b], NEW a \in LockAddrs PROVE Winning(c, a)' <=> Winning(c, a)
    <3> SUFFICES ASSUME port[c].addr = a, ~port[c].rw PROVE Winning(c, a)' <=> Winning(c, a)
      BY <2>1 DEF Winning
    <3>1. BankOf[a] = b
      <4>1. c \in table[b]
        BY <2>1, OfBank DEF ListInv
      <4>2. QED
        BY <4>1, OneList
    <3>2. Accesses(c)' = Accesses(c) /\ kind \in {"lic", "pic"}
      BY <1>2, <2>1, ConstantsAssumption DEF Accesses, IsLock, TypeOK
    <3>3. (IF kind = "lic" THEN cs[b] = "SET0" ELSE pinout[b].data = 0) <=> port'[c].data = 0
      <4>1. cs[b] \in {"READ", "WRITE", "SET0", "SET1"}
        BY <1>1, <1>2 DEF TypeOK
      <4>2. cs[b] # "WRITE"
        BY <2>1, OfBank DEF WordInv
      <4>3. cs[b] = "READ" => kind = "pic"
        BY <2>1, <3>2, OfBank DEF WordInv, IsTas
      <4>4. cs[b] \in {"SET0", "SET1"} => kind = "lic"
        BY <2>1, OfBank DEF WordInv, IsTas, Set
      <4>5. QED
        BY <2>1, <3>2, <4>1, <4>2, <4>3, <4>4
    <3>4. QED
      BY <1>7, <2>1, <3>1, <3>2, <3>3 DEF Winning
  <2>2. QED
    BY <1>4, <2>1, LocksKept
<1>10. ListInv(b)'
  BY <1>1, <1>6, OfBank DEF ListInv
<1>11. SlaveInv(b)'
  <2>1. (NextHalf' <=> NextHalf) /\ DoubleClock' = DoubleClock
    BY DEF NextHalf, DoubleClock
  <2>2. QED
    BY <1>1, <2>1, OfBank DEF SlaveInv
<1>12. WordInv(b)'
  <2>1. ASSUME NEW c \in idc[b] PROVE cs[b] = "WRITE" => port[c].rw
    BY <2>1, OfBank DEF WordInv
  <2>2. QED
    BY <1>1, <1>6, <1>8, <2>1, OfBank DEF WordInv
<1>13. ServedInv(b)'
  BY <1>1, <1>6, <1>7 DEF ServedInv, ServedOf
<1>14. ValueInv(b)'
  <2>1. /\ cs[b] = "READ" => IF IsLock(pinout[b].addr) THEN mem[pinout[b].addr] = 1
                             ELSE pinout[b].data = mem[pinout[b].addr]
        /\ cs[b] = "WRITE" => mem[pinout[b].addr] = pinout[b].data
        /\ Set(b) => mem[pinout[b].addr] = 1
    BY <1>1, OfBank DEF ValueInv
  <2>2. IsLock(pinout[b].addr)' <=> IsLock(pinout[b].addr)
    BY DEF IsLock
  <2>3. QED
    BY <1>6, <2>1, <2>2 DEF ValueInv
<1>15. \A c \in Masters : MasterInv(c)' /\ PassInv(c)'
  BY <1>4, ListsKept
<1>16. QED
  BY <1>4, <1>5, <1>9, <1>10, <1>11, <1>12, <1>13, <1>14, <1>15, BankStep

\* Answering with a word.
LEMMA AnswerStep ==
  ASSUME Invariant, NEW b \in Banks, Turn(b), edge[b] = "up", cs[b] # "TAS", NEW word \in {0, 1},
         Answer(b, word), UNCHANGED Rest,
         UNCHANGED <<req, served, poll, arbVars, idc, next, cs, request, pinout, passed>>,
         cs[b] # "WRITE", cs[b] = "READ" => word = pinout[b].data,
         cs[b] = "SET0" => word = 0, cs[b] = "SET1" => word = 1
  PROVE  Invariant'
<1>1. UNCHANGED <<kind, phase, half, slave, edge, mem, holds, applied, req, served, poll, table, busy, go,
                  pending, isTas, nextToServe, idc, next, cs, request, pinout, passed>>
  BY DEF Rest, arbVars
<1>2. /\ port' = [c \in Masters |-> IF c \in idc[b] THEN [port[c] EXCEPT !.data = word] ELSE port[c]]
      /\ ready' = [c \in Masters |-> ready[c] \/ c \in idc[b]]
  BY DEF Answer
<1>3. ASSUME NEW c \in Masters PROVE port[c] \in Word /\ [port[c] EXCEPT !.data = word] \in Word
  BY <1>3, DataFields DEF Invariant, TypeOK
<1>4. port' \in [Masters -> Word]
  BY <1>2, <1>3
<1>5. ASSUME NEW c \in idc[b]
      PROVE  /\ port'[c].on = port[c].on /\ port'[c].addr = port[c].addr
             /\ port'[c].rw = port[c].rw /\ port'[c].data = word
  <2>1. c \in Masters
    BY <1>5 DEF Invariant, TypeOK
  <2>2. port'[c] = [port[c] EXCEPT !.data = word] /\ port[c] \in Word
    BY <1>2, <1>3, <1>5, <2>1
  <2>3. QED
    BY <2>2, DataFields
<1>6. ASSUME NEW c \in idc[b] PROVE ~port[c].rw
  <2>1. cs[b] \in {"READ", "SET0", "SET1"}
    BY AtTurn DEF Invariant, TypeOK
  <2>2. QED
    BY <1>6, <2>1, OfBank DEF WordInv, Set, IsTas
<1>7. \A c \in Masters \ idc[b] : port'[c] = port[c]
  BY <1>2
<1>8. QED
  BY <1>1, <1>2, <1>4, <1>5, <1>6, <1>7, ToldStep

\* The second half of a test-and-set.
LEMMA SetStep ==
  ASSUME Invariant, NEW b \in Banks, Turn(b), cs[b] = "TAS", edge[b] = "down",
         pinout' = [pinout EXCEPT ![b].data = 1, ![b].rw = TRUE],
         cs' = [cs EXCEPT ![b] = IF pinout[b].data = 0 THEN "SET0" ELSE "SET1"],
         UNCHANGED Rest,
         UNCHANGED <<port, ready, req, served, poll, arbVars, idc, next, request, passed>>
  PROVE  Invariant'
<1>1. /\ Due(b) /\ ~Due(b)' /\ phase = "fsm" /\ b \in todo /\ todo' = todo \ {b}
      /\ Lowered(b) /\ ~half /\ slave[b].at = "wait"
  BY AtTurn DEF Lowered
<1>2. UNCHANGED <<kind, phase, half, slave, edge, mem, holds, applied, req, served, poll, table, busy, go,
                  pending, isTas, nextToServe, idc, next, request, passed, port, ready>>
  BY DEF Rest, arbVars
<1>3. TypeOK
  BY DEF Invariant
<1>4. /\ pinout'[b].addr = pinout[b].addr /\ pinout'[b].rw = TRUE /\ pinout'[b].data = 1
      /\ pinout'[b] \in Word
      /\ \A x \in Banks \ {b} : pinout'[x] = pinout[x]
      /\ pinout' \in [Banks -> Word]
  <2>1. pinout[b] \in Word /\ pinout \in [Banks -> Word]
    BY <1>3 DEF TypeOK
  <2>2. pinout' = [pinout EXCEPT ![b] = [pinout[b] EXCEPT !.data = 1, !.rw = TRUE]]
    BY <2>1
  <2>3. ASSUME NEW w \in Word, NEW v, v = [w EXCEPT !.data = 1, !.rw = TRUE]
        PROVE  v \in Word /\ v.addr = w.addr /\ v.rw = TRUE /\ v.data = 1
    BY <2>3 DEF Word
  <2>4. LET v == [pinout[b] EXCEPT !.data = 1, !.rw = TRUE] IN
        v \in Word /\ v.addr = pinout[b].addr /\ v.rw = TRUE /\ v.data = 1
    BY <2>1, <2>3
  <2>5. QED
    BY <2>1, <2>2, <2>4
<1>5. /\ cs'[b] = IF pinout[b].data = 0 THEN "SET0" ELSE "SET1"
      /\ \A x \in Banks \ {b} : cs'[x] = cs[x]
      /\ cs' \in [Banks -> {"IDLE", "READ", "WRITE", "TAS", "SET0", "SET1"}]
  BY <1>3 DEF TypeOK
<1>6. Apart(b)
  BY <1>1, <1>2, <1>4, <1>5 DEF Apart
<1>7. TypeOK'
  <2>1. todo' \subseteq Banks
    BY <1>1, <1>3 DEF TypeOK
  <2>2. QED
    BY <1>2, <1>3, <1>4, <1>5, <2>1 DEF TypeOK
<1>8. Asked(b)' /\ ~Made(b)' /\ ~Told(b)' /\ ~Lowered(b)' /\ ~Early(b)' /\ Set(b)' /\ cs'[b] # "TAS"
  BY <1>1, <1>2, <1>5 DEF Asked, Made, Told, Lowered, Early, Set
<1>9. ASSUME NEW c \in idc[b]
      PROVE  /\ ~ready[c] /\ port[c].on /\ applied[c] = 1 /\ IsTas(c) /\ IsTas(c)'
             /\ Accesses(c) = 2 /\ Accesses(c)' = 2
  <2>1. ~ready[c] /\ port[c].on /\ applied[c] = 1
    BY <1>1, <1>9, OfBank DEF ServedInv, ServedOf
  <2>2. IsTas(c)
    BY <1>9, OfBank DEF WordInv
  <2>3. QED
    BY <1>2, <2>1, <2>2 DEF IsTas, Accesses, IsLock
<1>10. LockInv'
  <2>1. ASSUME NEW c \in idc[b], NEW a \in LockAddrs PROVE ~Winning(c, a)' /\ ~Winning(c, a)
    BY <1>2, <1>9, <2>1 DEF Winning
  <2>2. QED
    BY <1>2, <1>6, <2>1, LocksKept
<1>11. ListInv(b)'
  BY <1>2, <1>5, <1>8, OfBank DEF ListInv
<1>12. SlaveInv(b)'
  BY <1>1, <1>2, <1>5, <1>8, OfBank DEF SlaveInv
<1>13. WordInv(b)'
  <2>1. \A c, d \in idc[b] : /\ port[c].addr = port[d].addr /\ port[c].rw = port[d].rw
                             /\ c = d
                             /\ pinout[b].addr = port[c].addr
    BY <1>9, OfBank DEF WordInv
  <2>2. QED
    BY <1>2, <1>4, <1>5, <1>8, <1>9, <2>1 DEF WordInv
<1>14. ServedInv(b)'
  BY <1>2, <1>8, <1>9 DEF ServedInv, ServedOf
<1>15. ValueInv(b)'
  <2>1. pinout[b].data = mem[pinout[b].addr]
    BY <1>1, OfBank DEF ValueInv
  <2>2. pinout[b].data \in {0, 1}
    BY <1>3 DEF TypeOK, Word
  <2>3. QED
    BY <1>2, <1>4, <1>5, <1>8, <2>1, <2>2 DEF ValueInv
<1>16. \A c \in Masters : MasterInv(c)' /\ PassInv(c)'
  BY <1>2, <1>6, ListsKept
<1>17. QED
  BY <1>6, <1>7, <1>10, <1>11, <1>12, <1>13, <1>14, <1>15, <1>16, BankStep

\* The way from the pointer to a master gets shorter with each master passed.
LEMMA PlaceIs ==
  ASSUME NEW c \in Masters, NEW p \in 0 .. N
  PROVE  Place(c, p) = IF p = N THEN c ELSE IF p <= c THEN c - p ELSE c + N - p
<1>1. N \in Nat \ {0}
  BY ConstantsAssumption
<1>2. p % N = IF p = N THEN 0 ELSE p
  <2>1. CASE p = N
    <3>1. (0 + N) % N = 0
      BY <1>1, RoundOnce
    <3>2. QED
      BY <1>1, <2>1, <3>1
  <2>2. CASE p # N
    BY <1>1, <2>2, RoundOnce
  <2>3. QED
    BY <2>1, <2>2
<1>3. ASSUME NEW r \in 0 .. N - 1
      PROVE  (c + N - r) % N = IF r <= c THEN c - r ELSE c + N - r
  <2>1. c \in 0 .. N - 1
    BY DEF Masters
  <2>2. CASE r <= c
    <3>1. c - r \in 0 .. N - 1 /\ c + N - r = (c - r) + N
      BY <1>1, <2>1, <2>2
    <3>2. ((c - r) + N) % N = c - r
      BY <1>1, <3>1, RoundOnce
    <3>3. QED
      BY <2>2, <3>1, <3>2
  <2>3. CASE ~(r <= c)
    <3>1. c + N - r \in 0 .. N - 1
      BY <1>1, <2>1, <2>3
    <3>2. (c + N - r) % N = c + N - r
      BY <1>1, <3>1, RoundOnce
    <3>3. QED
      BY <2>3, <3>2
  <2>4. QED
    BY <2>2, <2>3
<1>4. CASE p = N
  <2>1. 0 \in 0 .. N - 1 /\ p % N = 0
    BY <1>1, <1>2, <1>4
  <2>2. Place(c, p) = (c + N - 0) % N
    BY <2>1 DEF Place
  <2>3. (c + N - 0) % N = IF 0 <= c THEN c - 0 ELSE c + N - 0
    BY <1>3, <2>1
  <2>4. c \in 0 .. N - 1
    BY DEF Masters
  <2>5. QED
    BY <1>1, <1>4, <2>2, <2>3, <2>4
<1>5. CASE p # N
  <2>1. p \in 0 .. N - 1 /\ p % N = p
    BY <1>1, <1>2, <1>5
  <2>2. QED
    BY <1>3, <1>5, <2>1 DEF Place
<1>6. QED
  BY <1>4, <1>5

LEMMA PlaceDrops ==
  ASSUME NEW p \in 1 .. N, NEW c \in Masters, NEW d \in Masters, c # d, Place(d, p) <= Place(c, p)
  PROVE  Place(c, d + 1) + 1 <= Place(c, p)
<1>1. N \in Nat \ {0} /\ c \in 0 .. N - 1 /\ d \in 0 .. N - 1 /\ d + 1 \in 0 .. N /\ p \in 0 .. N
  BY ConstantsAssumption DEF Masters
<1>2. /\ Place(c, p) = IF p = N THEN c ELSE IF p <= c THEN c - p ELSE c + N - p
      /\ Place(d, p) = IF p = N THEN d ELSE IF p <= d THEN d - p ELSE d + N - p
      /\ Place(c, d + 1) = IF d + 1 = N THEN c ELSE IF d + 1 <= c THEN c - (d + 1) ELSE c + N - (d + 1)
  BY <1>1, PlaceIs
<1>3. QED
  BY <1>1, <1>2

\* A master that waits at slave b.
LEMMA Waiting ==
  ASSUME Invariant, NEW b \in Banks, NEW d \in table[b], d \notin idc[b]
  PROVE  /\ d \in Masters /\ ~served[d] /\ req[d] /\ port[d].on /\ IsOp(d) /\ ~ready[d] /\ applied[d] = 0
         /\ port[d].addr \in Addrs /\ BankOf[port[d].addr] = b /\ poll[d] = "served"
<1>1. d \in Masters /\ port[d].addr \in Addrs /\ BankOf[port[d].addr] = b
  BY OneList
<1>2. ~served[d]
  <2>1. ASSUME NEW x \in Banks, d \in idc[x] PROVE FALSE
    BY <2>1, OneList
  <2>2. QED
    BY <1>1, <2>1, OfMaster DEF MasterInv
<1>3. QED
  BY <1>1, <1>2, OfMaster DEF MasterInv

\* One master uses a test-and-set bank.
LEMMA UsesAlone ==
  ASSUME Invariant, NEW c \in Masters, NEW d \in Masters, kind = "lic", IsOp(c), IsOp(d),
         port[c].addr \in LockAddrs, BankOf[port[d].addr] = BankOf[port[c].addr]
  PROVE  c = d
<1>1. "lic" \in Kinds
  BY DEF Invariant, TypeOK
<1>2. PICK o \in Ops["lic"][c] : port[c].addr = o.addr
  BY DEF IsOp
<1>3. PICK q \in Ops["lic"][d] : port[d].addr = q.addr
  BY DEF IsOp
<1>4. QED
  BY <1>1, <1>2, <1>3, UsageAssumption

\* The masters done with, when the machine clears them.
LEMMA Cleared ==
  ASSUME Invariant, NEW b \in Banks, Turn(b), edge[b] = "down", cs[b] # "TAS", NEW c \in idc[b]
  PROVE  /\ c \in Masters /\ c \in table[b] /\ ready[c] /\ ~port[c].on /\ applied[c] = 0
         /\ served[c] /\ req[c] /\ passed[c] = 0 /\ IsOp(c) /\ BankOf[port[c].addr] = b
<1>1. c \in Masters /\ c \in table[b]
  BY OfBank DEF ListInv, Invariant, TypeOK
<1>2. Lowered(b)
  BY AtTurn
<1>3. ready[c] /\ ~port[c].on /\ applied[c] = 0
  BY <1>2, OfBank DEF ServedInv, ServedOf
<1>4. QED
  BY <1>1, <1>3, OfMaster DEF MasterInv, PassInv

\* What clearing them does: master nx, if any (ch), is next.
Finished(b, nx, ch) ==
  /\ ch => /\ nx \in table[b] /\ nx \notin idc[b] /\ nx \in Masters
           /\ \A c \in table[b] \ idc[b] : Place(nx, next[b] + 1) <= Place(c, next[b] + 1)
  /\ \A c \in Masters : /\ ready'[c] <=> ready[c] /\ c \notin idc[b]
                        /\ req'[c] <=> req[c] /\ c \notin idc[b]
                        /\ served'[c] <=> (served[c] /\ c \notin idc[b]) \/ (ch /\ c = nx)
                        /\ c \notin idc[b] => poll'[c] = poll[c]
                        /\ c \in idc[b] => poll'[c] = IF kind = "pic" THEN "clock" ELSE "edge"
                        /\ passed'[c] = IF ch /\ c \in table[b] \ (idc[b] \cup {nx})
                                        THEN passed[c] + 1 ELSE passed[c]
  /\ table'[b] = table[b] \ idc[b] /\ idc'[b] = IF ch THEN {nx} ELSE {}
  /\ request'[b] <=> ch
  /\ ch => /\ next'[b] = nx /\ pinout'[b] = port[nx] /\ busy' = busy /\ go' = go
           /\ cs'[b] = IF port[nx].rw THEN "WRITE" ELSE "READ"
  /\ ~ch => ~busy'[b] /\ go'[b] = "off" /\ cs'[b] = "IDLE"
  /\ Apart(b) /\ port' = port
  /\ TypeOK'

LEMMA FinishMoves ==
  ASSUME Invariant, NEW b \in Banks, Turn(b), edge[b] = "down", cs[b] # "TAS",
         NEW chain \in BOOLEAN, Finish(b, chain), UNCHANGED Rest,
         ~chain => table[b] \subseteq idc[b], NEW nx, nx = NextPending(b),
         NEW ch, ch = (table[b] \ idc[b] # {})
  PROVE  Finished(b, nx, ch)
<1>1. TypeOK
  BY DEF Invariant
<1>2. (chain /\ pending[b]) <=> ch
  <2>1. Early(b)
    BY AtTurn
  <2>2. QED
    BY <2>1, OfBank DEF ListInv
<1>3. ch => /\ nx \in table[b] /\ nx \notin idc[b] /\ nx \in Masters
            /\ \A c \in table[b] \ idc[b] : Place(nx, next[b] + 1) <= Place(c, next[b] + 1)
  <2>1. next[b] + 1 \in Nat /\ table[b] \ idc[b] \in SUBSET Masters
    BY <1>1 DEF TypeOK, Masters
  <2>2. ch => nx = FirstFrom(table[b] \ idc[b], next[b] + 1)
    BY DEF NextPending
  <2>3. QED
    BY <2>1, <2>2, FirstIn
<1>4. /\ ready' = [c \in Masters |-> ready[c] /\ c \notin idc[b]]
      /\ req' = [c \in Masters |-> IF c \in idc[b] THEN kind = "shi" /\ port[c].on ELSE req[c]]
      /\ poll' = [c \in Masters |-> IF c \in idc[b] /\ served[c] THEN Repoll(c) ELSE poll[c]]
      /\ table' = [table EXCEPT ![b] = table[b] \ idc[b]]
      /\ idc' = [idc EXCEPT ![b] = IF chain /\ pending[b] THEN {nx} ELSE {}]
      /\ served' = [c \in Masters |-> \/ served[c] /\ c \notin idc[b]
                                      \/ (chain /\ pending[b]) /\ c = nx]
      /\ request' = [request EXCEPT ![b] = chain /\ pending[b]]
      /\ UNCHANGED <<pending, isTas, port>>
  BY DEF Finish
<1>5. chain /\ pending[b] =>
        /\ next' = [next EXCEPT ![b] = nx]
        /\ nextToServe' = [nextToServe EXCEPT ![b] = nx]
        /\ pinout' = [pinout EXCEPT ![b] = port[nx]]
        /\ cs' = [cs EXCEPT ![b] = IF port[nx].rw THEN "WRITE" ELSE "READ"]
        /\ passed' = [c \in Masters |-> IF c \in table[b] \ (idc[b] \cup {nx})
                                        THEN passed[c] + 1 ELSE passed[c]]
        /\ UNCHANGED <<busy, go>>
  BY DEF Finish
<1>6. ~(chain /\ pending[b]) =>
        /\ busy' = [busy EXCEPT ![b] = FALSE]
        /\ go' = [go EXCEPT ![b] = "off"]
        /\ cs' = [cs EXCEPT ![b] = "IDLE"]
        /\ UNCHANGED <<next, nextToServe, pinout, passed>>
  BY DEF Finish
<1>7. /\ Due(b) /\ ~Due(b)' /\ phase = "fsm" /\ b \in todo /\ todo' = todo \ {b}
      /\ UNCHANGED <<kind, phase, half, slave, edge, mem, holds, applied>>
  BY AtTurn DEF Rest
<1>8. ASSUME NEW c \in Masters
      PROVE  /\ ready'[c] <=> ready[c] /\ c \notin idc[b]
             /\ req'[c] <=> req[c] /\ c \notin idc[b]
             /\ served'[c] <=> (served[c] /\ c \notin idc[b]) \/ (ch /\ c = nx)
             /\ c \notin idc[b] => poll'[c] = poll[c]
             /\ c \in idc[b] => poll'[c] = IF kind = "pic" THEN "clock" ELSE "edge"
             /\ passed'[c] = IF ch /\ c \in table[b] \ (idc[b] \cup {nx})
                             THEN passed[c] + 1 ELSE passed[c]
  <2>1. ready'[c] <=> ready[c] /\ c \notin idc[b]
    BY <1>4, <1>8
  <2>2. req'[c] <=> req[c] /\ c \notin idc[b]
    <3>1. CASE c \in idc[b]
      BY <1>4, <1>8, <3>1, Cleared
    <3>2. CASE c \notin idc[b]
      BY <1>4, <1>8, <3>2
    <3>3. QED
      BY <3>1, <3>2
  <2>3. served'[c] <=> (served[c] /\ c \notin idc[b]) \/ (ch /\ c = nx)
    BY <1>2, <1>4, <1>8
  <2>4. c \notin idc[b] => poll'[c] = poll[c]
    BY <1>4, <1>8
  <2>5. ASSUME c \in idc[b] PROVE poll'[c] = IF kind = "pic" THEN "clock" ELSE "edge"
    <3>1. poll'[c] = Repoll(c) /\ ~port[c].on
      BY <1>4, <1>8, <2>5, Cleared
    <3>2. kind \in {"lic", "pic", "shi"}
      BY <1>1, ConstantsAssumption DEF TypeOK
    <3>3. QED
      BY <3>1, <3>2 DEF Repoll
  <2>6. passed'[c] = IF ch /\ c \in table[b] \ (idc[b] \cup {nx}) THEN passed[c] + 1 ELSE passed[c]
    <3>1. CASE ch
      BY <1>2, <1>5, <1>8, <3>1
    <3>2. CASE ~ch
      BY <1>2, <1>6, <1>8, <3>2
    <3>3. QED
      BY <3>1, <3>2
  <2>7. QED
    BY <2>1, <2>2, <2>3, <2>4, <2>5, <2>6
<1>9. /\ table'[b] = table[b] \ idc[b] /\ idc'[b] = (IF ch THEN {nx} ELSE {}) /\ (request'[b] <=> ch)
      /\ \A x \in Banks \ {b} : table'[x] = table[x] /\ idc'[x] = idc[x] /\ request'[x] = request[x]
  BY <1>1, <1>2, <1>4 DEF TypeOK
<1>10. ch => /\ next'[b] = nx /\ pinout'[b] = port[nx] /\ busy' = busy /\ go' = go
             /\ cs'[b] = IF port[nx].rw THEN "WRITE" ELSE "READ"
             /\ \A x \in Banks \ {b} : next'[x] = next[x] /\ pinout'[x] = pinout[x] /\ cs'[x] = cs[x]
  BY <1>1, <1>2, <1>5 DEF TypeOK
<1>11. ~ch => /\ ~busy'[b] /\ go'[b] = "off" /\ cs'[b] = "IDLE" /\ next' = next /\ pinout' = pinout
              /\ \A x \in Banks \ {b} : busy'[x] = busy[x] /\ go'[x] = go[x] /\ cs'[x] = cs[x]
  BY <1>1, <1>2, <1>6 DEF TypeOK
<1>12. Apart(b)
  <2>1. \A x \in Banks \ {b} : busy'[x] = busy[x] /\ go'[x] = go[x] /\ cs'[x] = cs[x]
                               /\ next'[x] = next[x] /\ pinout'[x] = pinout[x]
    BY <1>10, <1>11
  <2>2. QED
    BY <1>4, <1>7, <1>8, <1>9, <2>1 DEF Apart
<1>13. TypeOK'
  <2>1. todo' \subseteq Banks
    BY <1>1, <1>7 DEF TypeOK
  <2>2. /\ ready' \in [Masters -> BOOLEAN] /\ req' \in [Masters -> BOOLEAN] /\ served' \in [Masters -> BOOLEAN]
        /\ table' \in [Banks -> SUBSET Masters]
    BY <1>1, <1>4 DEF TypeOK, Word
  <2>3. idc' \in [Banks -> SUBSET Masters] /\ request' \in [Banks -> BOOLEAN]
    <3>1. (IF chain /\ pending[b] THEN {nx} ELSE {}) \in SUBSET Masters /\ (chain /\ pending[b]) \in BOOLEAN
      BY <1>1, <1>2, <1>3 DEF TypeOK
    <3>2. QED
      BY <1>1, <1>4, <3>1 DEF TypeOK
  <2>4. poll' \in [Masters -> {"edge", "served", "clock"}]
    <3>1. \A c \in Masters : poll'[c] \in {"edge", "served", "clock"}
      BY <1>1, <1>8 DEF TypeOK
    <3>2. QED
      BY <1>4, <3>1
  <2>5. /\ next' \in [Banks -> Masters] /\ nextToServe' \in [Banks -> 0 .. N] /\ pinout' \in [Banks -> Word]
        /\ cs' \in [Banks -> {"IDLE", "READ", "WRITE", "TAS", "SET0", "SET1"}]
        /\ passed' \in [Masters -> Nat] /\ busy' \in [Banks -> BOOLEAN] /\ go' \in [Banks -> {"off", "rise", "on"}]
    <3>1. CASE ch
      <4>1. nx \in Masters /\ nx \in 0 .. N /\ port[nx] \in Word
        BY <1>1, <1>3, <3>1, ConstantsAssumption DEF TypeOK, Masters
      <4>2. /\ next' = [next EXCEPT ![b] = nx]
            /\ nextToServe' = [nextToServe EXCEPT ![b] = nx]
            /\ pinout' = [pinout EXCEPT ![b] = port[nx]]
            /\ cs' = [cs EXCEPT ![b] = IF port[nx].rw THEN "WRITE" ELSE "READ"]
            /\ passed' = [c \in Masters |-> IF c \in table[b] \ (idc[b] \cup {nx})
                                            THEN passed[c] + 1 ELSE passed[c]]
            /\ UNCHANGED <<busy, go>>
        BY <1>2, <1>5, <3>1
      <4>3. next' \in [Banks -> Masters] /\ nextToServe' \in [Banks -> 0 .. N] /\ pinout' \in [Banks -> Word]
        BY <1>1, <4>1, <4>2 DEF TypeOK
      <4>4. /\ cs' \in [Banks -> {"IDLE", "READ", "WRITE", "TAS", "SET0", "SET1"}]
            /\ busy' \in [Banks -> BOOLEAN] /\ go' \in [Banks -> {"off", "rise", "on"}]
        BY <1>1, <4>2 DEF TypeOK
      <4>5. passed' \in [Masters -> Nat]
        BY <1>1, <4>2 DEF TypeOK
      <4>6. QED
        BY <4>3, <4>4, <4>5
    <3>2. CASE ~ch
      BY <1>1, <1>2, <1>6, <3>2 DEF TypeOK
    <3>3. QED
      BY <3>1, <3>2
  <2>6. QED
    BY <1>1, <1>4, <1>7, <2>1, <2>2, <2>3, <2>4, <2>5 DEF TypeOK
<1>14. QED
  BY <1>3, <1>4, <1>8, <1>9, <1>10, <1>11, <1>12, <1>13 DEF Finished

LEMMA FinishStep ==
  ASSUME Invariant, NEW b \in Banks, Turn(b), edge[b] = "down", cs[b] # "TAS",
         NEW chain \in BOOLEAN, Finish(b, chain), UNCHANGED Rest,
         ~chain => table[b] \subseteq idc[b]
  PROVE  Invariant'
<1>0. PICK nx, ch : nx = NextPending(b) /\ ch = (table[b] \ idc[b] # {})
  OBVIOUS
<1>1. Finished(b, nx, ch)
  BY <1>0, FinishMoves
<1> USE DEF Finished
<1>2. /\ TypeOK /\ Due(b) /\ ~Due(b)' /\ phase = "fsm" /\ ~half /\ cs[b] # "IDLE" /\ slave[b].at = "wait"
      /\ UNCHANGED <<kind, phase, half, slave, edge, mem, holds, applied, isTas, pending>>
      /\ \A x \in Banks \ {b} : table'[x] = table[x] /\ idc'[x] = idc[x] /\ next'[x] = next[x]
  BY <1>1, AtTurn DEF Invariant, Lowered, Apart
<1>3. ch => /\ ~served[nx] /\ req[nx] /\ port[nx].on /\ IsOp(nx) /\ ~ready[nx] /\ applied[nx] = 0
            /\ poll[nx] = "served" /\ BankOf[port[nx].addr] = b /\ port[nx].addr \in Addrs
  BY <1>1, Waiting
<1>4. LockInv'
  <2>1. ASSUME NEW c \in idc[b], NEW a \in LockAddrs PROVE ~Winning(c, a)' /\ ~Winning(c, a)
    BY <1>1, <2>1, Cleared DEF Winning
  <2>2. QED
    BY <1>1, <2>1, LocksKept
<1>5. /\ ch => Asked(b)'
      /\ ~Made(b)' /\ ~Told(b)' /\ ~Lowered(b)' /\ ~Early(b)' /\ ~Set(b)' /\ cs'[b] # "TAS"
      /\ ch <=> cs'[b] # "IDLE"
  BY <1>1, <1>2 DEF Asked, Made, Told, Lowered, Early, Set
<1>6. ListInv(b)'
  <2>1. ch <=> table'[b] # {}
    BY <1>0, <1>1
  <2>2. go[b] = "on" /\ busy[b]
    BY <1>2, OfBank DEF ListInv
  <2>3. ~ch => ~pending'[b]
    <3>1. pending[b] = (table[b] \ idc[b] # {})
      BY AtTurn, OfBank DEF ListInv
    <3>2. QED
      BY <1>0, <1>2, <3>1
  <2>4. CASE ch
    BY <1>1, <1>5, <2>1, <2>2, <2>4 DEF ListInv
  <2>5. CASE ~ch
    BY <1>1, <1>5, <2>1, <2>2, <2>3, <2>5 DEF ListInv
  <2>6. QED
    BY <2>4, <2>5
<1>7. SlaveInv(b)'
  BY <1>1, <1>2, <1>5 DEF SlaveInv
<1>8. WordInv(b)'
  <2>1. CASE ~ch
    BY <1>1, <2>1 DEF WordInv
  <2>2. CASE ch
    <3>1. idc'[b] = {nx} /\ nx \in Masters /\ pinout'[b] = port[nx] /\ cs'[b] = IF port[nx].rw THEN "WRITE" ELSE "READ"
      BY <1>1, <2>2
    <3>2. ~IsTas(nx)
      <4>1. PICK c \in idc[b] : TRUE
        BY <1>2, OfBank DEF ListInv
      <4>2. c \in Masters /\ IsOp(c) /\ BankOf[port[c].addr] = b /\ c # nx
        BY <1>1, <2>2, <4>1, Cleared
      <4>3. QED
        BY <1>3, <2>2, <3>1, <4>2, UsesAlone DEF IsTas
    <3>3. ~IsTas(nx)'
      BY <1>1, <1>2, <3>2 DEF IsTas
    <3>4. QED
      BY <1>1, <1>5, <3>1, <3>3 DEF WordInv
  <2>3. QED
    BY <2>1, <2>2
<1>9. ServedInv(b)'
  <2>1. CASE ~ch
    BY <1>1, <2>1 DEF ServedInv
  <2>2. CASE ch
    <3>1. idc'[b] = {nx} /\ ~ready'[nx] /\ port'[nx].on /\ applied'[nx] = 0
      BY <1>1, <1>2, <1>3, <2>2
    <3>2. ServedOf(b, nx)'
      BY <1>5, <3>1 DEF ServedOf
    <3>3. QED
      BY <3>1, <3>2 DEF ServedInv
  <2>3. QED
    BY <2>1, <2>2
<1>10. ValueInv(b)'
  BY <1>5 DEF ValueInv, Set
<1>11. ASSUME NEW c \in Masters PROVE MasterInv(c)'
  <2>0. (IsOp(c)' <=> IsOp(c)) /\ port'[c] = port[c] /\ applied'[c] = applied[c] /\ kind' = kind
    BY <1>1, <1>2 DEF IsOp
  <2>1. CASE c \in idc[b]
    <3>1. /\ ~req'[c] /\ poll'[c] = (IF kind = "pic" THEN "clock" ELSE "edge") /\ ~served'[c] /\ ~ready'[c]
          /\ ~port[c].on /\ applied[c] = 0
      BY <1>1, <1>11, <2>1, Cleared
    <3>2. ASSUME NEW x \in Banks PROVE c \notin table'[x] /\ c \notin idc'[x]
      <4>1. CASE x = b
        BY <1>1, <2>1, <4>1
      <4>2. CASE x # b
        <5>1. c \in table[b]
          BY <2>1, Cleared
        <5>2. c \notin table[x] /\ c \notin idc[x]
          BY <3>2, <4>2, <5>1, OneList
        <5>3. QED
          BY <1>2, <3>2, <4>2, <5>2
      <4>3. QED
        BY <4>1, <4>2
    <3>3. QED
      BY <2>0, <3>1, <3>2 DEF MasterInv
  <2>2. CASE ch /\ c = nx
    <3>1. req'[c] /\ poll'[c] = "served" /\ served'[c] /\ c \in idc'[b] /\ IsOp(c)' /\ port'[c].on
      BY <1>1, <1>3, <2>0, <2>2
    <3>2. ASSUME NEW x \in Banks, c \in table'[x] PROVE x = b
      <4>1. c \in table[x] /\ c \in table[b]
        BY <1>1, <1>2, <2>2, <3>2
      <4>2. QED
        BY <3>2, <4>1, OneList
    <3>3. QED
      BY <1>3, <2>0, <2>2, <3>1, <3>2 DEF MasterInv
  <2>3. CASE c \notin idc[b] /\ ~(ch /\ c = nx)
    <3>1. /\ (req'[c] <=> req[c]) /\ poll'[c] = poll[c] /\ (served'[c] <=> served[c]) /\ (ready'[c] <=> ready[c])
      BY <1>1, <1>11, <2>3
    <3>2. \A x \in Banks : (c \in table'[x] <=> c \in table[x]) /\ (c \in idc'[x] <=> c \in idc[x])
      BY <1>1, <1>2, <2>3
    <3>3. QED
      BY <1>11, <2>0, <3>1, <3>2, OfMaster DEF MasterInv
  <2>4. QED
    BY <2>1, <2>2, <2>3
<1>12. ASSUME NEW c \in Masters PROVE PassInv(c)'
  <2>0. passed[c] \in Nat /\ passed[c] <= N /\ N \in Nat \ {0}
        /\ passed'[c] = IF ch /\ c \in table[b] \ (idc[b] \cup {nx}) THEN passed[c] + 1 ELSE passed[c]
    BY <1>1, <1>2, <1>12, OfMaster, ConstantsAssumption DEF PassInv, TypeOK
  <2>1. CASE c \in idc[b]
    <3>1. passed'[c] = 0
      BY <2>0, <2>1, Cleared
    <3>2. ASSUME NEW x \in Banks PROVE c \notin table'[x]
      <4>1. c \in table[b]
        BY <2>1, Cleared
      <4>2. c \in table[x] => x = b
        BY <3>2, <4>1, OneList
      <4>3. QED
        BY <1>1, <1>2, <2>1, <3>2, <4>2
    <3>3. QED
      BY <2>0, <3>1, <3>2 DEF PassInv
  <2>2. CASE c \notin table[b]
    <3>1. passed'[c] = passed[c] /\ port' = port
      BY <1>1, <2>0, <2>2
    <3>2. ASSUME NEW x \in Banks, c \in table'[x]
          PROVE  x # b /\ c \in table[x] /\ idc'[x] = idc[x] /\ Way(x, c)' = Way(x, c)
      BY <1>1, <1>2, <2>2, <3>2 DEF Way
    <3>3. \A x \in Banks : c \in table[x] => c \in table'[x]
      BY <1>2, <2>2
    <3>4. QED
      BY <1>12, <3>1, <3>2, <3>3, OfMaster DEF PassInv
  <2>3. CASE c \in table[b] /\ c \notin idc[b]
    <3>1. ch /\ c \in table'[b] /\ port'[c].on
      BY <1>0, <1>1, <2>3, Waiting
    <3>2. ASSUME NEW x \in Banks, c \in table'[x] PROVE x = b
      <4>1. c \in table[x]
        BY <1>1, <1>2, <3>2
      <4>2. QED
        BY <2>3, <3>2, <4>1, OneList
    <3>3. CASE c = nx
      BY <1>1, <2>0, <3>1, <3>2, <3>3 DEF PassInv
    <3>4. CASE c # nx
      <4>1. passed[c] + Way(b, c) <= N
        BY <1>12, <2>3, OfMaster DEF PassInv
      <4>2. Way(b, c) = Place(c, next[b] + 1) /\ Way(b, c) \in 0 .. N - 1
        BY <1>2, <1>12, WayRange
      <4>3. Way(b, c)' = Place(c, nx + 1)
        BY <1>1, <3>1 DEF Way, Place
      <4>4. next[b] + 1 \in 1 .. N
        BY <1>2, <2>0 DEF TypeOK, Masters
      <4>5. Place(c, nx + 1) + 1 <= Place(c, next[b] + 1)
        BY <1>1, <1>12, <2>3, <3>1, <3>4, <4>4, PlaceDrops
      <4>6. Place(c, nx + 1) \in 0 .. N - 1
        <5>1. nx \in Masters /\ nx + 1 \in Nat
          BY <1>1, <2>0, <3>1 DEF Masters
        <5>2. QED
          BY <1>12, <5>1, PlaceRange
      <4>7. passed'[c] = passed[c] + 1
        BY <2>0, <2>3, <3>1, <3>4
      <4>8. passed'[c] + Way(b, c)' <= N /\ passed'[c] <= N
        BY <2>0, <4>1, <4>2, <4>3, <4>5, <4>6, <4>7
      <4>9. QED
        BY <3>1, <3>2, <4>8 DEF PassInv
    <3>5. QED
      BY <3>3, <3>4
  <2>4. QED
    BY <2>1, <2>2, <2>3
<1>13. QED
  BY <1>1, <1>4, <1>6, <1>7, <1>8, <1>9, <1>10, <1>11, <1>12, BankStep

LEMMA ReadStep == ASSUME Invariant, NEW b \in Banks, Read(b) PROVE Invariant'
<1>1. Turn(b) /\ cs[b] = "READ" /\ UNCHANGED Rest
  BY DEF Read
<1>2. CASE /\ edge[b] = "up" /\ Answer(b, pinout[b].data)
           /\ UNCHANGED <<req, served, poll, arbVars, idc, next, cs, request, pinout, passed>>
  <2>1. pinout[b].data \in {0, 1}
    BY DEF Invariant, TypeOK, Word
  <2>2. QED
    BY <1>1, <1>2, <2>1, AnswerStep
<1>3. CASE edge[b] = "down" /\ Finish(b, TRUE)
  BY <1>1, <1>3, FinishStep
<1>4. QED
  BY <1>2, <1>3 DEF Read

LEMMA WriteStep == ASSUME Invariant, NEW b \in Banks, Write(b) PROVE Invariant'
<1>1. Turn(b) /\ cs[b] = "WRITE" /\ UNCHANGED Rest
  BY DEF Write
<1>2. CASE /\ edge[b] = "up" /\ ready' = [c \in Masters |-> ready[c] \/ c \in idc[b]]
           /\ UNCHANGED <<port, req, served, poll, arbVars, idc, next, cs, request, pinout, passed>>
  <2>1. UNCHANGED <<kind, phase, half, slave, edge, mem, holds, applied, req, served, poll, table, busy, go,
                    pending, isTas, nextToServe, idc, next, cs, request, pinout, passed>>
    BY <1>1, <1>2 DEF Rest, arbVars
  <2>2. port' = port /\ port' \in [Masters -> Word]
    BY <1>2 DEF Invariant, TypeOK
  <2>3. QED
    BY <1>1, <1>2, <2>1, <2>2, ToldStep
<1>3. CASE edge[b] = "down" /\ Finish(b, TRUE)
  BY <1>1, <1>3, FinishStep
<1>4. QED
  BY <1>2, <1>3 DEF Write

LEMMA TasStep == ASSUME Invariant, NEW b \in Banks, Tas(b) PROVE Invariant'
<1>1. Turn(b) /\ UNCHANGED Rest
  BY DEF Tas
<1>2. CASE /\ cs[b] = "TAS" /\ edge[b] = "down"
           /\ pinout' = [pinout EXCEPT ![b].data = 1, ![b].rw = TRUE]
           /\ cs' = [cs EXCEPT ![b] = IF pinout[b].data = 0 THEN "SET0" ELSE "SET1"]
           /\ UNCHANGED <<port, ready, req, served, poll, arbVars, idc, next, request, passed>>
  BY <1>1, <1>2, SetStep
<1>3. CASE /\ cs[b] \in {"SET0", "SET1"} /\ edge[b] = "up"
           /\ Answer(b, IF cs[b] = "SET0" THEN 0 ELSE 1)
           /\ UNCHANGED <<req, served, poll, arbVars, idc, next, cs, request, pinout, passed>>
  <2>1. CASE cs[b] = "SET0"
    <3>1. Answer(b, 0)
      BY <1>3, <2>1
    <3>2. QED
      BY <1>1, <1>3, <2>1, <3>1, AnswerStep
  <2>2. CASE cs[b] = "SET1"
    <3>1. Answer(b, 1)
      BY <1>3, <2>2
    <3>2. QED
      BY <1>1, <1>3, <2>2, <3>1, AnswerStep
  <2>3. QED
    BY <1>3, <2>1, <2>2
<1>4. CASE cs[b] \in {"SET0", "SET1"} /\ edge[b] = "down" /\ Finish(b, FALSE)
  <2>1. PICK c \in idc[b] : TRUE
    BY <1>4, OfBank DEF ListInv
  <2>2. c \in Masters /\ IsOp(c) /\ BankOf[port[c].addr] = b
    BY <1>1, <1>4, <2>1, Cleared
  <2>3. kind = "lic" /\ port[c].addr \in LockAddrs
    BY <1>4, <2>1, OfBank DEF WordInv, Set, IsTas
  <2>4. ASSUME NEW d \in table[b], d \notin idc[b] PROVE FALSE
    <3>1. d \in Masters /\ IsOp(d) /\ BankOf[port[d].addr] = b
      BY <2>4, Waiting
    <3>2. QED
      BY <2>1, <2>2, <2>3, <2>4, <3>1, UsesAlone
  <2>5. QED
    BY <1>1, <1>4, <2>4, FinishStep
<1>5. QED
  BY <1>2, <1>3, <1>4 DEF Tas

LEMMA FsmStep == ASSUME Invariant, NEW b \in Banks, Fsm(b) PROVE Invariant'
  BY StartStep, ReadStep, WriteStep, TasStep, SleepStep DEF Fsm

-----------------------------------------------------------------------------
(* Arbiter. *)

LEMMA Asks ==
  ASSUME Invariant, NEW early \in SUBSET Polled, NEW c \in Asking(early)
  PROVE  /\ c \in Masters /\ ~served[c] /\ port[c].on /\ IsOp(c) /\ ~ready[c] /\ applied[c] = 0
         /\ port[c].addr \in Addrs /\ BankOf[port[c].addr] \in Banks
         /\ req[c] \/ poll[c] = "clock"
<1>1. c \in Masters /\ ~served[c] /\ (IF c \in early THEN port[c].on ELSE req[c])
  BY DEF Asking
<1>2. port[c].on /\ IsOp(c) /\ ~ready[c] /\ applied[c] = 0
  BY <1>1, OfMaster DEF MasterInv
<1>3. port[c].addr \in Addrs /\ BankOf[port[c].addr] \in Banks
  <2>1. PICK op \in Ops[kind][c] : port[c].addr = op.addr
    BY <1>2 DEF IsOp
  <2>2. op \in [addr : Addrs, rw : BOOLEAN, data : {0, 1}]
    BY <1>1, ConstantsAssumption DEF Invariant, TypeOK
  <2>3. QED
    BY <2>1, <2>2, ConstantsAssumption
<1>4. QED
  BY <1>1, <1>2, <1>3 DEF Polled

LEMMA InTab ==
  ASSUME Invariant, NEW early \in SUBSET Polled, NEW b \in Banks, NEW c \in Tab(early, b)
  PROVE  /\ c \in Masters /\ port[c].addr \in Addrs /\ BankOf[port[c].addr] = b
         /\ req[c] \/ (poll[c] = "clock" /\ port[c].on)
         /\ c \notin idc[b] => ~served[c] /\ port[c].on /\ IsOp(c) /\ ~ready[c] /\ applied[c] = 0
         /\ \A d \in Banks : c \in Tab(early, d) \/ c \in idc[d] \/ c \in table[d] => b = d
<1>1. CASE c \in table[b]
  <2>1. c \in Masters /\ port[c].addr \in Addrs /\ BankOf[port[c].addr] = b /\ req[c]
    BY <1>1, OneList, OfMaster DEF MasterInv
  <2>2. c \notin idc[b] => ~served[c] /\ port[c].on /\ IsOp(c) /\ ~ready[c] /\ applied[c] = 0
    BY <1>1, Waiting
  <2>3. \A d \in Banks : c \in Tab(early, d) \/ c \in idc[d] \/ c \in table[d] => b = d
    BY <1>1, <2>1, OneList DEF Tab
  <2>4. QED
    BY <2>1, <2>2, <2>3
<1>2. CASE c \in Asking(early) /\ BankOf[port[c].addr] = b
  <2>1. /\ c \in Masters /\ ~served[c] /\ port[c].on /\ IsOp(c) /\ ~ready[c] /\ applied[c] = 0
        /\ port[c].addr \in Addrs /\ (req[c] \/ poll[c] = "clock")
    BY <1>2, Asks
  <2>2. ASSUME NEW d \in Banks, c \in table[d] \/ c \in idc[d] PROVE b = d
    <3>1. c \in table[d]
      BY <2>2, OfBank DEF ListInv
    <3>2. QED
      BY <1>2, <3>1, OneList
  <2>3. \A d \in Banks : c \in Tab(early, d) => b = d
    BY <1>2, <2>2 DEF Tab
  <2>4. QED
    BY <1>2, <2>1, <2>2, <2>3
<1>3. QED
  BY <1>1, <1>2 DEF Tab

\* A free slave is granted to one master, and to those that read the same
\* word where the crossbar multicasts; a busy one to nobody.
LEMMA Grants ==
  ASSUME Invariant, NEW early \in SUBSET Polled, NEW b \in Banks
  PROVE  /\ busy[b] => New(early, b) = {}
         /\ ~busy[b] /\ Tab(early, b) # {} => New(early, b) # {}
         /\ New(early, b) \subseteq Tab(early, b)
         /\ \A c, d \in New(early, b) : /\ port[c].addr = port[d].addr
                                        /\ port[c].rw = port[d].rw
                                        /\ port[c].rw \/ kind = "pic" => c = d
<1> DEFINE tab == Tab(early, b)
           g == FirstFrom(tab, nextToServe[b])
<1>1. tab \in SUBSET Masters /\ nextToServe[b] \in Nat
  <2>1. tab \subseteq Masters
    BY InTab
  <2>2. nextToServe[b] \in 0 .. N
    BY DEF Invariant, TypeOK
  <2>3. QED
    BY <2>1, <2>2
<1>2. tab # {} => g \in tab
  BY <1>1, FirstIn
<1>3. ASSUME busy[b] \/ tab = {} PROVE New(early, b) = {}
  <2>1. Granted(b, tab) = {}
    BY <1>3 DEF Granted
  <2>2. Joined(b, tab, Asking(early)) \subseteq {c \in tab : port[c].addr = 0}
    BY <2>1 DEF Joined
  <2>3. \A c \in tab : port[c].addr # 0
    BY InTab, ConstantsAssumption
  <2>4. QED
    BY <2>1, <2>2, <2>3 DEF New
<1>4. ASSUME ~busy[b], tab # {}
      PROVE  /\ Granted(b, tab) = {g}
             /\ \A c \in Joined(b, tab, Asking(early)) :
                  c \in tab /\ port[c].addr = port[g].addr /\ ~port[c].rw /\ ~port[g].rw /\ kind # "pic"
  <2>1. ~pending[b]
    BY <1>4, OfBank DEF ListInv
  <2>2. Granted(b, tab) = {g}
    BY <1>4, <2>1 DEF Granted
  <2> HIDE DEF tab, g
  <2>3. (CHOOSE c \in {g} : TRUE) = g
    OBVIOUS
  <2>4. Joined(b, tab, Asking(early)) =
          IF ~Multicasts \/ pending[b] \/ port[g].rw THEN {}
          ELSE {c \in tab \cap Asking(early) : c # g /\ ~port[c].rw /\ port[c].addr = port[g].addr}
    BY <2>2, <2>3 DEF Joined
  <2>5. QED
    BY <2>2, <2>4 DEF Multicasts
<1>5. ASSUME NEW c \in New(early, b), NEW d \in New(early, b)
      PROVE  c \in tab /\ port[c].addr = port[d].addr /\ port[c].rw = port[d].rw
             /\ (port[c].rw \/ kind = "pic" => c = d)
  <2>1. ~busy[b] /\ tab # {} /\ g \in tab /\ g \in Masters
    BY <1>1, <1>2, <1>3, <1>5
  <2>2. \A e \in New(early, b) : \/ e = g
                                 \/ e \in tab /\ port[e].addr = port[g].addr
                                    /\ ~port[e].rw /\ ~port[g].rw /\ kind # "pic"
    BY <1>4, <2>1 DEF New
  <2> HIDE DEF tab, g
  <2>3. c \in Masters /\ d \in Masters /\ c \in tab /\ d \in tab
    BY <1>1, <1>5, <2>1, <2>2
  <2>4. \A e \in {c, d, g} : port[e].rw \in BOOLEAN
    BY <2>1, <2>3 DEF Invariant, TypeOK, Word
  <2>5. QED
    BY <1>5, <2>2, <2>3, <2>4
<1>6. ~busy[b] /\ tab # {} => New(early, b) # {}
  BY <1>4 DEF New
<1>7. QED
  BY <1>3, <1>5, <1>6

\* A test-and-set is granted alone.
LEMMA TasAlone ==
  ASSUME Invariant, NEW early \in SUBSET Polled, NEW b \in Banks, NEW c \in New(early, b), IsTas(c),
         NEW d \in Tab(early, b), d \notin idc[b]
  PROVE  c = d
<1>1. c \in Tab(early, b) /\ c \notin idc[b]
  <2>1. c \in Tab(early, b) /\ ~busy[b]
    BY Grants
  <2>2. QED
    BY <2>1, OfBank DEF ListInv
<1>2. c \in Masters /\ IsOp(c) /\ BankOf[port[c].addr] = b
  BY <1>1, InTab
<1>3. d \in Masters /\ IsOp(d) /\ BankOf[port[d].addr] = b
  BY InTab
<1>4. QED
  BY <1>2, <1>3, UsesAlone DEF IsTas

\* What the arbiter does to the lists.
Arbitrates(early) ==
  /\ \A b \in Banks :
       /\ table'[b] = Tab(early, b) /\ idc'[b] = idc[b] \cup New(early, b)
       /\ isTas'[b] <=> kind = "lic" /\ \E c \in Asking(early) :
                          port[c].addr \in LockAddrs /\ ~port[c].rw /\ BankOf[port[c].addr] = b
       /\ pending'[b] <=> {c \in Tab(early, b) \ (idc[b] \cup New(early, b)) :
                             kind = "shi" \/ ~served[c]} # {}
       /\ busy'[b] <=> busy[b] \/ Tab(early, b) # {}
       /\ go'[b] = IF Tab(early, b) = {} THEN "off" ELSE IF go[b] = "off" THEN "rise" ELSE "on"
  /\ \A c \in Masters :
       /\ served'[c] <=> served[c] \/ \E b \in Banks : c \in New(early, b)
       /\ passed'[c] = passed[c] + Cardinality({b \in Banks : /\ c \in Tab(early, b) \ New(early, b)
                                                              /\ c \notin idc[b] /\ New(early, b) # {}})
       /\ req'[c] <=> IF c \in Polled THEN port[c].on ELSE req[c]
       /\ poll'[c] = IF c \notin Polled THEN poll[c] ELSE IF port[c].on THEN "served" ELSE "edge"

LEMMA ArbiterMoves ==
  ASSUME Invariant, Arbiter
  PROVE  \E early \in SUBSET Polled :
           /\ Arbitrates(early)
           /\ table' \in [Banks -> SUBSET Masters] /\ idc' \in [Banks -> SUBSET Masters]
           /\ isTas' \in [Banks -> BOOLEAN] /\ pending' \in [Banks -> BOOLEAN] /\ busy' \in [Banks -> BOOLEAN]
           /\ go' \in [Banks -> {"off", "rise", "on"}]
           /\ served' \in [Masters -> BOOLEAN] /\ req' \in [Masters -> BOOLEAN]
           /\ nextToServe' \in [Banks -> 0 .. N] /\ DOMAIN passed' = Masters
           /\ passed' = [c \in Masters |-> passed'[c]]
           /\ poll' \in [Masters -> {"edge", "served", "clock"}]
<1>1. PICK early \in SUBSET Polled :
        /\ table' = [b \in Banks |-> Tab(early, b)]
        /\ isTas' = [b \in Banks |-> kind = "lic" /\ \E c \in Asking(early) :
                       port[c].addr \in LockAddrs /\ ~port[c].rw /\ BankOf[port[c].addr] = b]
        /\ idc' = [b \in Banks |-> idc[b] \cup New(early, b)]
        /\ served' = [c \in Masters |-> served[c] \/ \E b \in Banks : c \in New(early, b)]
        /\ nextToServe' = [b \in Banks |-> IF Granted(b, Tab(early, b)) = {} THEN nextToServe[b]
                             ELSE FirstFrom(Tab(early, b), nextToServe[b]) + 1]
        /\ pending' = [b \in Banks |-> {c \in Tab(early, b) \ (idc[b] \cup New(early, b)) :
                                          kind = "shi" \/ ~served[c]} # {}]
        /\ busy' = [b \in Banks |-> busy[b] \/ Tab(early, b) # {}]
        /\ go' = [b \in Banks |-> IF Tab(early, b) = {} THEN "off"
                                  ELSE IF go[b] = "off" THEN "rise" ELSE "on"]
        /\ passed' = [c \in Masters |-> passed[c] +
             Cardinality({b \in Banks : /\ c \in Tab(early, b) \ New(early, b)
                                        /\ c \notin idc[b] /\ New(early, b) # {}})]
  BY DEF Arbiter
<1>2. /\ req' = [c \in Masters |-> IF c \in Polled THEN port[c].on ELSE req[c]]
      /\ poll' = [c \in Masters |-> IF c \notin Polled THEN poll[c]
                                    ELSE IF port[c].on THEN "served" ELSE "edge"]
  BY DEF Arbiter
<1>3. TypeOK
  BY DEF Invariant
<1>4. Arbitrates(early)
  BY <1>1, <1>2 DEF Arbitrates
<1>5. \A b \in Banks : Tab(early, b) \in SUBSET Masters /\ New(early, b) \in SUBSET Masters
  <2>1. ASSUME NEW b \in Banks PROVE Tab(early, b) \subseteq Masters
    BY <2>1, InTab
  <2>2. QED
    BY <2>1, Grants
<1>6. table' \in [Banks -> SUBSET Masters] /\ idc' \in [Banks -> SUBSET Masters]
  BY <1>1, <1>3, <1>5 DEF TypeOK
<1>7. isTas' \in [Banks -> BOOLEAN] /\ pending' \in [Banks -> BOOLEAN] /\ busy' \in [Banks -> BOOLEAN]
  <2>1. isTas' \in [Banks -> BOOLEAN]
    BY <1>1
  <2>2. pending' \in [Banks -> BOOLEAN]
    BY <1>1
  <2>3. busy' \in [Banks -> BOOLEAN]
    BY <1>1
  <2>4. QED
    BY <2>1, <2>2, <2>3
<1>8. go' \in [Banks -> {"off", "rise", "on"}]
  BY <1>1
<1>9. served' \in [Masters -> BOOLEAN] /\ req' \in [Masters -> BOOLEAN]
      /\ poll' \in [Masters -> {"edge", "served", "clock"}]
  <2>1. served' \in [Masters -> BOOLEAN]
    BY <1>1
  <2>2. req' \in [Masters -> BOOLEAN]
    BY <1>2, <1>3 DEF TypeOK, Word
  <2>3. poll' \in [Masters -> {"edge", "served", "clock"}]
    BY <1>2, <1>3 DEF TypeOK
  <2>4. QED
    BY <2>1, <2>2, <2>3
<1>10. nextToServe' \in [Banks -> 0 .. N]
  <2>1. ASSUME NEW b \in Banks, Granted(b, Tab(early, b)) # {}
        PROVE  FirstFrom(Tab(early, b), nextToServe[b]) + 1 \in 0 .. N
    <3>1. Tab(early, b) # {} /\ nextToServe[b] \in Nat /\ N \in Nat
      BY <1>3, <2>1, ConstantsAssumption DEF Granted, TypeOK
    <3>2. FirstFrom(Tab(early, b), nextToServe[b]) \in Masters
      BY <1>5, <3>1, FirstIn
    <3>3. QED
      BY <3>1, <3>2 DEF Masters
  <2>2. QED
    BY <1>1, <1>3, <2>1 DEF TypeOK
<1>11. DOMAIN passed' = Masters /\ passed' = [c \in Masters |-> passed'[c]]
  BY <1>1
<1>12. QED
  BY <1>4, <1>6, <1>7, <1>8, <1>9, <1>10, <1>11

\* A master newly put in a list, or in the table.
LEMMA NewMaster ==
  ASSUME Invariant, NEW early \in SUBSET Polled, NEW b \in Banks, NEW c \in New(early, b)
  PROVE  /\ c \in Tab(early, b) /\ c \notin idc[b] /\ ~busy[b] /\ table[b] = {} /\ idc[b] = {}
         /\ cs[b] = "IDLE" /\ c \in Masters /\ ~served[c] /\ port[c].on /\ IsOp(c)
         /\ ~ready[c] /\ applied[c] = 0 /\ c \in Asking(early)
         /\ port[c].addr \in Addrs /\ BankOf[port[c].addr] = b
<1>1. c \in Tab(early, b) /\ ~busy[b]
  BY Grants
<1>2. table[b] = {} /\ idc[b] = {} /\ cs[b] = "IDLE"
  BY <1>1, OfBank DEF ListInv
<1>3. QED
  BY <1>1, <1>2, InTab DEF Tab

LEMMA ArbiterBank ==
  ASSUME Invariant, Arbiter, NEW early \in SUBSET Polled, Arbitrates(early), NEW b \in Banks
  PROVE  ListInv(b)' /\ SlaveInv(b)' /\ WordInv(b)' /\ ServedInv(b)' /\ ValueInv(b)'
<1>1. /\ phase = (IF DoubleClock THEN "edge" ELSE "issue") /\ phase' = "cores" /\ ~half'
      /\ UNCHANGED <<kind, todo, next, cs, request, pinout, slave, edge, mem, port, ready, holds, applied>>
  BY DEF Arbiter
<1>2. phase # "fsm" /\ phase # "slaves" /\ phase # "cores" /\ ~Due(b) /\ ~Due(b)' /\ ~Early(b) /\ Early(b)'
  BY <1>1 DEF Due, Early
<1>3. /\ table'[b] = Tab(early, b) /\ idc'[b] = idc[b] \cup New(early, b)
      /\ pending'[b] <=> {c \in Tab(early, b) \ (idc[b] \cup New(early, b)) :
                            kind = "shi" \/ ~served[c]} # {}
      /\ busy'[b] <=> busy[b] \/ Tab(early, b) # {}
      /\ go'[b] = IF Tab(early, b) = {} THEN "off" ELSE IF go[b] = "off" THEN "rise" ELSE "on"
      /\ isTas'[b] <=> kind = "lic" /\ \E c \in Asking(early) :
                         port[c].addr \in LockAddrs /\ ~port[c].rw /\ BankOf[port[c].addr] = b
  BY DEF Arbitrates
<1>4. busy[b] <=> cs[b] # "IDLE"
  BY <1>2, OfBank DEF ListInv
<1>5. table[b] \subseteq Tab(early, b)
  BY DEF Tab
<1>6. Asked(b)' = Asked(b) /\ Made(b)' = Made(b) /\ Told(b)' = Told(b) /\ Lowered(b)' = Lowered(b)
      /\ Set(b)' = Set(b) /\ ~Made(b) /\ ~Lowered(b)
  BY <1>1, <1>2 DEF Asked, Made, Told, Lowered, Set
<1>7. ListInv(b)'
  <2>1. busy[b] <=> table[b] # {}
    BY OfBank DEF ListInv
  <2>2. (busy'[b] <=> Tab(early, b) # {}) /\ idc'[b] \subseteq Tab(early, b)
    BY <1>3, <1>5, <2>1, Grants, OfBank DEF ListInv
  <2>3. Tab(early, b) # {} => idc'[b] # {}
    <3>1. CASE busy[b]
      BY <1>3, <2>1, <3>1, OfBank DEF ListInv
    <3>2. CASE ~busy[b]
      BY <1>3, <3>2, Grants
    <3>3. QED
      BY <3>1, <3>2
  <2>4. ~busy'[b] => cs[b] = "IDLE" /\ go'[b] = "off" /\ ~pending'[b]
    BY <1>3, <1>4, <2>2
  <2>5. cs[b] = "IDLE" => go[b] = "off"
    BY <1>4, OfBank DEF ListInv
  <2>6. cs[b] # "IDLE" => go'[b] = "on"
    <3>1. cs[b] # "IDLE" => go[b] = "on" /\ Tab(early, b) # {}
      BY <1>4, <1>5, <2>1, OfBank DEF ListInv
    <3>2. QED
      BY <1>3, <3>1
  <2>7. pending'[b] <=> Tab(early, b) \ idc'[b] # {}
    <3>1. \A c \in Tab(early, b) \ (idc[b] \cup New(early, b)) : ~served[c]
      BY InTab
    <3>2. QED
      BY <1>3, <3>1
  <2>8. pending'[b] = (table'[b] \ idc'[b] # {})
    <3>1. pending' \in [Banks -> BOOLEAN]
      BY DEF Arbiter
    <3>2. pending'[b] \in BOOLEAN
      BY <3>1
    <3>3. QED
      BY <1>3, <2>7, <3>2
  <2>9. cs[b] = "IDLE" /\ busy'[b] => go'[b] = "rise"
    BY <1>3, <2>2, <2>5
  <2>10. QED
    BY <1>1, <1>2, <1>3, <2>2, <2>3, <2>4, <2>6, <2>8, <2>9 DEF ListInv
<1>8. SlaveInv(b)'
  <2>1. DoubleClock' = DoubleClock /\ (DoubleClock => phase = "edge")
    BY <1>1 DEF DoubleClock
  <2>2. (DoubleClock => ~NextHalf) /\ ~NextHalf'
    BY <1>1, <2>1 DEF NextHalf
  <2>3. QED
    BY <1>1, <1>2, <2>1, <2>2, OfBank DEF SlaveInv
<1>9. ASSUME NEW c PROVE IsTas(c)' <=> IsTas(c)
  BY <1>1 DEF IsTas
<1>10. CASE New(early, b) = {}
  <2>1. idc'[b] = idc[b]
    BY <1>3, <1>10
  <2>2. idc[b] # {} => cs[b] # "IDLE"
    BY <1>4, OfBank DEF ListInv
  <2>3. WordInv(b)'
    BY <1>1, <1>6, <1>9, <2>1, <2>2, OfBank DEF WordInv
  <2>4. ServedInv(b)'
    <3>1. ASSUME NEW c \in idc[b] PROVE ServedOf(b, c)'
      <4>1. ServedOf(b, c)
        BY <3>1, OfBank DEF ServedInv
      <4>2. QED
        BY <1>1, <1>2, <1>6, <4>1 DEF ServedOf
    <3>2. QED
      BY <2>1, <3>1 DEF ServedInv
  <2>5. ValueInv(b)'
    BY <1>1, <1>6, <2>1, OfBank DEF ValueInv, IsLock
  <2>6. QED
    BY <1>7, <1>8, <2>3, <2>4, <2>5
<1>11. CASE New(early, b) # {}
  <2>1. idc'[b] = New(early, b) /\ cs[b] = "IDLE" /\ slave[b].at = "wait" /\ Tab(early, b) \cap idc[b] = {}
    <3>1. PICK c : c \in New(early, b)
      BY <1>11
    <3>2. cs[b] = "IDLE" /\ idc[b] = {}
      BY <3>1, NewMaster
    <3>3. slave[b].at = "wait"
      BY <3>2, OfBank DEF SlaveInv
    <3>4. QED
      BY <1>3, <3>2, <3>3
  <2>2. ~Asked(b)' /\ ~Told(b)' /\ ~Set(b)'
    BY <1>1, <1>6, <2>1 DEF Asked, Told, Set
  <2>3. WordInv(b)'
    <3>1. ASSUME NEW c \in New(early, b), NEW d \in New(early, b)
          PROVE  /\ port[c].addr = port[d].addr /\ port[c].rw = port[d].rw
                 /\ port[c].rw \/ kind = "pic" \/ IsTas(c) => c = d
      <4>1. d \in Tab(early, b) /\ d \notin idc[b]
        BY <3>1, NewMaster
      <4>2. IsTas(c) => c = d
        BY <3>1, <4>1, TasAlone
      <4>3. /\ port[c].addr = port[d].addr /\ port[c].rw = port[d].rw
            /\ port[c].rw \/ kind = "pic" => c = d
        BY <3>1, Grants, Zenon
      <4>4. QED
        BY <4>2, <4>3
    <3>2. ASSUME NEW c \in New(early, b), ~port[c].rw PROVE isTas'[b] <=> IsTas(c)
      <4>1. c \in Asking(early) /\ BankOf[port[c].addr] = b /\ c \in Masters /\ IsOp(c)
        BY <3>2, NewMaster
      <4>2. IsTas(c) => isTas'[b]
        BY <1>3, <3>2, <4>1 DEF IsTas
      <4>3. ASSUME isTas'[b] PROVE IsTas(c)
        <5>1. kind = "lic"
          BY <1>3, <4>3
        <5>2. PICK d \in Asking(early) : port[d].addr \in LockAddrs /\ ~port[d].rw /\ BankOf[port[d].addr] = b
          BY <1>3, <4>3
        <5>3. d \in Masters /\ IsOp(d)
          BY <5>2, Asks
        <5>4. c = d
          BY <4>1, <5>1, <5>2, <5>3, UsesAlone
        <5>5. QED
          BY <5>1, <5>2, <5>4 DEF IsTas
      <4>4. QED
        BY <4>2, <4>3
    <3>3. isTas'[b] \in BOOLEAN
      <4>1. isTas' \in [Banks -> BOOLEAN]
        BY DEF Arbiter
      <4>2. QED
        BY <4>1
    <3>4. ASSUME NEW c \in New(early, b), ~port[c].rw PROVE isTas'[b] = IsTas(c)'
      BY <1>9, <3>2, <3>3, <3>4 DEF IsTas
    <3>5. QED
      BY <1>1, <1>6, <1>9, <2>1, <2>2, <3>1, <3>4 DEF WordInv
  <2>4. ServedInv(b)'
    <3>1. ASSUME NEW c \in New(early, b) PROVE ServedOf(b, c)'
      <4>1. c \in Tab(early, b) /\ c \notin idc[b]
        BY <3>1, NewMaster
      <4>2. ~ready[c] /\ port[c].on /\ applied[c] = 0
        BY <4>1, InTab
      <4>3. QED
        BY <1>1, <1>6, <2>1, <2>2, <4>2 DEF ServedOf
    <3>2. QED
      BY <2>1, <3>1 DEF ServedInv
  <2>5. ValueInv(b)'
    BY <1>1, <1>6, <2>1, <2>2 DEF ValueInv, Set
  <2>6. QED
    BY <1>7, <1>8, <2>3, <2>4, <2>5
<1>12. QED
  BY <1>10, <1>11

\* Grants to others at this edge, while c waits.
LEMMA PassedOver ==
  ASSUME Invariant, NEW early \in SUBSET Polled, NEW c \in Masters
  PROVE  LET S == {b \in Banks : c \in Tab(early, b) \ New(early, b) /\ c \notin idc[b] /\ New(early, b) # {}}
         IN /\ S = {} => Cardinality(S) = 0
            /\ S # {} => Cardinality(S) = 1 /\ passed[c] = 0 /\ port[c].on /\ \E b \in Banks : c \in Tab(early, b)
<1> DEFINE S == {b \in Banks : c \in Tab(early, b) \ New(early, b) /\ c \notin idc[b] /\ New(early, b) # {}}
<1>1. S = {} => Cardinality(S) = 0
  BY FS_EmptySet
<1>2. ASSUME NEW b \in S PROVE Cardinality(S) = 1 /\ passed[c] = 0 /\ port[c].on /\ c \in Tab(early, b)
  <2>1. \A d \in S : d = b
    BY <1>2, InTab
  <2>2. S = {b}
    BY <1>2, <2>1
  <2>3. Cardinality(S) = 1
    BY <2>2, FS_Singleton
  <2>4. c \in Tab(early, b) /\ c \notin idc[b]
    BY <1>2
  <2>5. table[b] = {}
    BY <1>2, NewMaster
  <2>6. \A x \in Banks : c \notin table[x]
    BY <2>4, <2>5, InTab
  <2>7. passed[c] = 0
    BY <2>6, OfMaster DEF PassInv
  <2>8. port[c].on
    BY <2>4, InTab
  <2>9. QED
    BY <2>3, <2>4, <2>7, <2>8
<1>3. QED
  BY <1>1, <1>2

LEMMA ArbiterStep == ASSUME Invariant, Arbiter PROVE Invariant'
<1>1. PICK early \in SUBSET Polled :
        /\ Arbitrates(early)
        /\ table' \in [Banks -> SUBSET Masters] /\ idc' \in [Banks -> SUBSET Masters]
        /\ isTas' \in [Banks -> BOOLEAN] /\ pending' \in [Banks -> BOOLEAN] /\ busy' \in [Banks -> BOOLEAN]
        /\ go' \in [Banks -> {"off", "rise", "on"}]
        /\ served' \in [Masters -> BOOLEAN] /\ req' \in [Masters -> BOOLEAN]
        /\ nextToServe' \in [Banks -> 0 .. N] /\ DOMAIN passed' = Masters
        /\ passed' = [c \in Masters |-> passed'[c]]
        /\ poll' \in [Masters -> {"edge", "served", "clock"}]
  BY ArbiterMoves
<1>2. /\ phase = (IF DoubleClock THEN "edge" ELSE "issue") /\ phase' = "cores" /\ half' = FALSE
      /\ UNCHANGED <<kind, todo, next, cs, request, pinout, slave, edge, mem, port, ready, holds, applied>>
  BY DEF Arbiter
<1>3. ASSUME NEW c \in Masters
      PROVE  /\ served'[c] <=> served[c] \/ \E b \in Banks : c \in New(early, b)
             /\ req'[c] <=> IF c \in Polled THEN port[c].on ELSE req[c]
             /\ poll'[c] = IF c \notin Polled THEN poll[c] ELSE IF port[c].on THEN "served" ELSE "edge"
             /\ passed'[c] = passed[c] + Cardinality({b \in Banks : /\ c \in Tab(early, b) \ New(early, b)
                                                                    /\ c \notin idc[b] /\ New(early, b) # {}})
  BY <1>1, <1>3 DEF Arbitrates
<1>4. \A b \in Banks : table'[b] = Tab(early, b) /\ idc'[b] = idc[b] \cup New(early, b)
  BY <1>1 DEF Arbitrates
<1>5. ASSUME NEW c \in Masters
      PROVE  \/ passed'[c] = passed[c]
             \/ passed'[c] = 1 /\ passed[c] = 0 /\ port[c].on /\ \E b \in Banks : c \in Tab(early, b)
  <2> DEFINE S == {b \in Banks : c \in Tab(early, b) \ New(early, b) /\ c \notin idc[b] /\ New(early, b) # {}}
  <2>1. passed'[c] = passed[c] + Cardinality(S) /\ passed[c] \in Nat
    BY <1>3, <1>5 DEF Invariant, TypeOK
  <2>2. /\ S = {} => Cardinality(S) = 0
        /\ S # {} => Cardinality(S) = 1 /\ passed[c] = 0 /\ port[c].on /\ \E b \in Banks : c \in Tab(early, b)
    BY <1>5, PassedOver
  <2>3. QED
    BY <2>1, <2>2
<1>6. TypeOK'
  <2>1. TypeOK
    BY DEF Invariant
  <2>2. \A c \in Masters : passed'[c] \in Nat
    BY <1>5, <2>1 DEF TypeOK
  <2>3. passed' \in [Masters -> Nat]
    BY <1>1, <2>2
  <2>4. QED
    BY <1>1, <1>2, <2>1, <2>3 DEF TypeOK
<1>7. Clock'
  BY <1>2 DEF Invariant, Clock
<1>8. LockInv'
  BY <1>2 DEF Invariant, LockInv, Owner, Winning, Releasing, IsLock, Accesses
<1>9. ASSUME NEW c \in Masters PROVE MasterInv(c)'
  <2>1. (IsOp(c)' <=> IsOp(c)) /\ port' = port /\ ready' = ready /\ applied' = applied /\ kind' = kind
    BY <1>2 DEF IsOp
  <2>2. c \in Polled <=> poll[c] = "clock"
    BY <1>9 DEF Polled
  <2>3. req'[c] <=> poll'[c] = "served"
    BY <1>3, <1>9, <2>2, OfMaster DEF MasterInv
  <2>4. poll'[c] # "clock" /\ (poll'[c] = "edge" => ~port[c].on)
    BY <1>3, <1>9, <2>2, OfMaster DEF MasterInv
  <2>5. req[c] \/ (poll[c] = "clock" /\ port[c].on) => req'[c]
    BY <1>3, <1>9, <2>2, OfMaster DEF MasterInv
  <2>6. ASSUME NEW b \in Banks, c \in New(early, b)
        PROVE  port[c].on /\ IsOp(c) /\ ~ready[c] /\ applied[c] = 0 /\ req'[c]
    <3>1. c \in Tab(early, b) /\ c \notin idc[b]
      BY <2>6, NewMaster
    <3>2. QED
      BY <2>5, <3>1, InTab
  <2>7. (served'[c] => req'[c]) /\ (req'[c] /\ ~served'[c] => port[c].on)
    BY <1>3, <1>9, <2>2, <2>5, <2>6, OfMaster DEF MasterInv
  <2>8. served'[c] <=> \E b \in Banks : c \in idc'[b]
    <3>1. served[c] <=> \E b \in Banks : c \in idc[b]
      BY <1>9, OfMaster DEF MasterInv
    <3>2. served'[c] <=> served[c] \/ \E b \in Banks : c \in New(early, b)
      BY <1>3, <1>9
    <3>3. QED
      BY <1>4, <3>1, <3>2
  <2>9. \A b \in Banks : c \in table'[b] => req'[c] /\ port[c].addr \in Addrs /\ BankOf[port[c].addr] = b
    BY <1>4, <2>5, InTab
  <2>10. (~served'[c] => ~ready[c] /\ applied[c] = 0) /\ (port[c].on \/ served'[c] => IsOp(c))
    BY <1>3, <1>9, <2>6, OfMaster DEF MasterInv
  <2>11. QED
    BY <2>1, <2>3, <2>4, <2>7, <2>8, <2>9, <2>10 DEF MasterInv
<1>10. ASSUME NEW c \in Masters PROVE PassInv(c)'
  <2>1. N \in Nat \ {0} /\ passed[c] \in Nat /\ passed[c] <= N
    BY <1>10, OfMaster, ConstantsAssumption DEF PassInv, Invariant, TypeOK
  <2>2. ASSUME NEW b \in Banks PROVE Way(b, c)' = Way(b, c) /\ Way(b, c) \in 0 .. N - 1
    BY <1>2, <1>10, <2>2, WayRange DEF Way, Invariant
  <2>3. CASE passed'[c] = 1 /\ passed[c] = 0 /\ port[c].on /\ \E b \in Banks : c \in Tab(early, b)
    BY <1>2, <1>4, <2>1, <2>2, <2>3 DEF PassInv
  <2>4. CASE passed'[c] = passed[c]
    <3>1. ASSUME NEW b \in Banks, c \in table'[b], c \notin idc'[b] PROVE passed[c] + Way(b, c) <= N
      <4>1. c \in Tab(early, b) /\ c \notin idc[b]
        BY <1>4, <3>1
      <4>2. CASE c \in table[b]
        BY <1>10, <4>1, <4>2, OfMaster DEF PassInv
      <4>3. CASE c \notin table[b]
        <5>1. \A x \in Banks : c \notin table[x]
          BY <4>1, <4>3, InTab
        <5>2. passed[c] = 0
          BY <1>10, <5>1, OfMaster DEF PassInv
        <5>3. QED
          BY <2>1, <2>2, <5>2
      <4>4. QED
        BY <4>2, <4>3
    <3>2. ~port[c].on \/ (\A b \in Banks : c \notin table'[b]) => passed[c] = 0
      BY <1>4, <1>10, OfMaster DEF PassInv, Tab
    <3>3. QED
      BY <1>2, <2>1, <2>2, <2>4, <3>1, <3>2 DEF PassInv
  <2>5. QED
    BY <1>5, <1>10, <2>3, <2>4
<1>11. \A b \in Banks : ListInv(b)' /\ SlaveInv(b)' /\ WordInv(b)' /\ ServedInv(b)' /\ ValueInv(b)'
  BY <1>1, ArbiterBank
<1>12. QED
  BY <1>6, <1>7, <1>8, <1>9, <1>10, <1>11 DEF Invariant

-----------------------------------------------------------------------------
(* The theorems. *)

LEMMA InitInvariant == Init => Invariant
<1> SUFFICES ASSUME Init PROVE Invariant
  OBVIOUS
<1> USE DEF Init
<1>1. N \in Nat \ {0} /\ 0 \in Masters /\ 0 \in 0 .. N
  BY ConstantsAssumption DEF Masters
<1>2. Free \in Word
  BY DEF Free, Word
<1>3. TypeOK
  <2>1. mem \in [Addrs -> {0, 1}]
    <3>1. \A a \in Addrs : a % 2 \in {0, 1}
      BY ConstantsAssumption
    <3>2. QED
      BY <3>1
  <2>2. slave \in [Banks -> [at : {"wait", "sampled", "answered"}, left : Nat, acc : Word]]
    BY <1>2
  <2>3. /\ next \in [Banks -> Masters] /\ nextToServe \in [Banks -> 0 .. N]
        /\ pinout \in [Banks -> Word] /\ port \in [Masters -> Word]
        /\ applied \in [Masters -> 0 .. 2] /\ passed \in [Masters -> Nat]
        /\ holds \in [Masters -> Addrs \cup {None}]
    BY <1>1, <1>2
  <2>4. /\ req \in [Masters -> BOOLEAN] /\ served \in [Masters -> BOOLEAN]
        /\ ready \in [Masters -> BOOLEAN] /\ poll \in [Masters -> {"edge", "served", "clock"}]
        /\ table \in [Banks -> SUBSET Masters] /\ idc \in [Banks -> SUBSET Masters]
    OBVIOUS
  <2>5. /\ busy \in [Banks -> BOOLEAN] /\ go \in [Banks -> {"off", "rise", "on"}]
        /\ pending \in [Banks -> BOOLEAN] /\ isTas \in [Banks -> BOOLEAN] /\ request \in [Banks -> BOOLEAN]
        /\ cs \in [Banks -> {"IDLE", "READ", "WRITE", "TAS", "SET0", "SET1"}]
        /\ edge \in [Banks -> {"none", "up", "down"}]
    OBVIOUS
  <2>6. kind \in Kinds /\ phase = "issue" /\ half = FALSE /\ todo = {}
    OBVIOUS
  <2> HIDE DEF Init
  <2>7. QED
    BY <2>1, <2>2, <2>3, <2>4, <2>5, <2>6 DEF TypeOK
<1>4. Clock
  BY DEF Clock
<1>5. LockInv
  <2>1. \A c \in Masters : holds[c] = None /\ ~port[c].on
    BY DEF Free
  <2>2. \A a \in LockAddrs : a # None /\ mem[a] = 0
    BY ConstantsAssumption DEF None
  <2>3. \A a \in LockAddrs : \A c \in Masters : ~Owner(c, a)
    BY <2>1, <2>2 DEF Owner, Winning, Releasing
  <2>4. QED
    BY <2>1, <2>2, <2>3 DEF LockInv
<1>6. ASSUME NEW b \in Banks
      PROVE  ListInv(b) /\ SlaveInv(b) /\ WordInv(b) /\ ServedInv(b) /\ ValueInv(b)
  <2>1. ListInv(b) /\ WordInv(b) /\ ServedInv(b)
    BY <1>6 DEF ListInv, Early, Due, WordInv, ServedInv
  <2>2. SlaveInv(b)
    BY <1>6 DEF SlaveInv, Due
  <2>3. ValueInv(b)
    BY <1>6 DEF ValueInv, Asked, Made, Told, Lowered, Set
  <2>4. QED
    BY <2>1, <2>2, <2>3
<1>7. ASSUME NEW c \in Masters PROVE MasterInv(c) /\ PassInv(c)
  BY <1>1, <1>7 DEF MasterInv, PassInv, Free
<1>8. QED
  BY <1>3, <1>4, <1>5, <1>6, <1>7 DEF Invariant

LEMMA StutterInvariant == ASSUME Invariant, UNCHANGED vars PROVE Invariant'
<1>1. /\ UNCHANGED <<kind, phase, half, todo, req, served, poll, idc, next, cs, request, pinout>>
      /\ UNCHANGED <<table, busy, pending, isTas, nextToServe, go>>
      /\ UNCHANGED <<slave, edge, mem, port, ready, holds, applied, passed>>
  BY DEF vars, arbVars
<1>2. TypeOK' /\ Clock'
  BY <1>1 DEF Invariant, TypeOK, Clock, DoubleClock
<1>3. LockInv'
  BY <1>1 DEF Invariant, LockInv, Owner, Winning, Releasing, IsLock, Accesses
<1>4. ASSUME NEW b \in Banks
      PROVE  ListInv(b)' /\ SlaveInv(b)' /\ WordInv(b)' /\ ServedInv(b)' /\ ValueInv(b)'
  <2>1. ListInv(b)' /\ SlaveInv(b)'
    BY <1>1, <1>4, OfBank DEF ListInv, SlaveInv, Early, Due, NextHalf, DoubleClock
  <2>2. WordInv(b)'
    BY <1>1, <1>4, OfBank DEF WordInv, IsTas, Set
  <2>3. ServedInv(b)'
    BY <1>1, <1>4, OfBank DEF ServedInv, ServedOf, Asked, Made, Told, Lowered, Due, Set
  <2>4. ValueInv(b)'
    BY <1>1, <1>4, OfBank DEF ValueInv, Asked, Made, Told, Lowered, Due, Set, IsLock
  <2>5. QED
    BY <2>1, <2>2, <2>3, <2>4
<1>5. ASSUME NEW c \in Masters PROVE MasterInv(c)' /\ PassInv(c)'
  BY <1>1, <1>5, OfMaster DEF MasterInv, PassInv, IsOp, Way
<1>6. QED
  BY <1>2, <1>3, <1>4, <1>5 DEF Invariant

LEMMA NextInvariant == Invariant /\ [Next]_vars => Invariant'
  BY HalfEdgeStep, ArbiterStep, CoresStep, SlavesStep, FsmStep, SampleStep, IssueStep, StutterInvariant
     DEF Next, Cycle

\* The lists of pollers, arbiter and machines, the handshakes with the slaves
\* and the words they carry stay in step, from any legal use of the crossbars.
THEOREM Invariance == Spec => []Invariant
  BY InitInvariant, NextInvariant, PTL DEF Spec

LEMMA SoundLists == Invariant => ListsSound
<1> SUFFICES ASSUME Invariant PROVE ListsSound
  OBVIOUS
<1>1. ASSUME NEW b \in Banks
      PROVE  /\ idc[b] \subseteq table[b]
             /\ \A c \in table[b] : port[c].on \/ ready[c]
             /\ \A d \in Banks \ {b} : table[b] \cap table[d] = {}
             /\ cs[b] # "IDLE" \/ go[b] = "rise" => idc[b] # {} /\ busy[b]
             /\ ~busy[b] => idc[b] = {}
             /\ phase = "cores" => pending[b] = (table[b] \ idc[b] # {}) /\ busy[b] = (table[b] # {})
  <2>1. ASSUME NEW c \in table[b] PROVE port[c].on \/ ready[c]
    <3>1. CASE c \notin idc[b]
      BY <1>1, <2>1, <3>1, Waiting
    <3>2. CASE c \in idc[b]
      <4>1. ServedOf(b, c) /\ slave[b].at \in {"wait", "sampled", "answered"}
        BY <1>1, <3>2, OfBank DEF ServedInv, Invariant, TypeOK
      <4>2. cs[b] = "IDLE" \/ Asked(b) \/ Made(b) \/ Told(b) \/ Lowered(b)
        BY <4>1 DEF Asked, Made, Told, Lowered
      <4>3. QED
        BY <4>1, <4>2 DEF ServedOf
    <3>3. QED
      BY <3>1, <3>2
  <2>2. \A d \in Banks \ {b} : table[b] \cap table[d] = {}
    BY <1>1, OneList
  <2>3. phase = "cores" => Early(b)
    BY DEF Early, Invariant, Clock
  <2>4. busy[b] \in BOOLEAN
    BY <1>1 DEF Invariant, TypeOK
  <2>5. phase = "cores" => pending[b] = (table[b] \ idc[b] # {}) /\ busy[b] = (table[b] # {})
    BY <1>1, <2>3, <2>4, OfBank DEF ListInv
  <2>6. QED
    BY <1>1, <2>1, <2>2, <2>5, OfBank DEF ListInv
<1>2. ASSUME NEW c \in Masters, port[c].on PROVE req[c] \/ poll[c] = "clock" \/ ready[c]
  <2>1. poll[c] \in {"edge", "served", "clock"}
    BY <1>2 DEF Invariant, TypeOK
  <2>2. QED
    BY <1>2, <2>1, OfMaster DEF MasterInv
<1>3. QED
  BY <1>1, <1>2 DEF ListsSound, ListsAgree, RequestSeen, Invariant

\* The crossbars' lists agree and no request is lost: pollers, arbiter and
\* machines, which run in different deltas of the clock cycle, never disagree.
THEOREM ListsSoundAlways == Spec => []ListsSound
  BY Invariance, SoundLists, PTL

LEMMA RightAnswer == Invariant => OwnAnswer
<1> SUFFICES ASSUME Invariant, phase = "cores", NEW c \in Masters, Took(c)
             PROVE  /\ applied[c] = Accesses(c)
                    /\ IF IsLock(port[c].addr) /\ ~port[c].rw THEN mem[port[c].addr] = 1
                       ELSE mem[port[c].addr] = port[c].data
  BY DEF OwnAnswer
<1>1. PICK b \in Banks : c \in idc[b]
  BY TakerServed
<1>2. applied[c] = Accesses(c) /\ Told(b) /\ cs[b] \notin {"TAS", "IDLE"}
  BY <1>1, WhoTakes
<1>3. pinout[b].addr = port[c].addr
  BY <1>1, <1>2, OfBank DEF WordInv
<1>4. CASE cs[b] = "READ"
  <2>1. ~port[c].rw
    BY <1>1, <1>4, OfBank DEF WordInv
  <2>2. IF IsLock(port[c].addr) THEN mem[port[c].addr] = 1 ELSE port[c].data = mem[port[c].addr]
    BY <1>1, <1>2, <1>3, <1>4, OfBank DEF ValueInv
  <2>3. QED
    BY <1>2, <2>1, <2>2
<1>5. CASE cs[b] = "WRITE"
  BY <1>1, <1>2, <1>3, <1>5, OfBank DEF WordInv, ValueInv
<1>6. CASE Set(b)
  <2>1. IsTas(c) /\ mem[port[c].addr] = 1
    BY <1>1, <1>2, <1>3, <1>6, OfBank DEF WordInv, ValueInv
  <2>2. IsLock(port[c].addr) /\ ~port[c].rw
    BY <2>1 DEF IsTas, IsLock
  <2>3. QED
    BY <1>2, <2>1, <2>2
<1>7. QED
  BY <1>1, <1>2, <1>4, <1>5, <1>6 DEF Set, Invariant, TypeOK

\* A master that sees ready has had its own access made, once, and has the
\* word of its own address.
THEOREM OwnAnswerAlways == Spec => []OwnAnswer
  BY Invariance, RightAnswer, PTL

LEMMA AccountedSemaphores == Invariant => SemaphoresAccounted
<1> SUFFICES ASSUME Invariant, NEW a \in LockAddrs, kind = "pic"
             PROVE  mem[a] = Cardinality(OwnersOf(a))
  BY DEF SemaphoresAccounted
<1> DEFINE S == OwnersOf(a)
<1>1. mem[a] \in {0, 1}
  BY ConstantsAssumption DEF Invariant, TypeOK
<1>2. /\ mem[a] = 0 => \A c \in Masters : ~Owner(c, a)
      /\ mem[a] = 1 => \E c \in Masters : Owner(c, a)
      /\ \A c, d \in Masters : Owner(c, a) /\ Owner(d, a) => c = d
  BY DEF Invariant, LockInv
<1>3. CASE mem[a] = 0
  <2>1. S = {}
    BY <1>2, <1>3 DEF Owner, OwnersOf
  <2>2. QED
    BY <1>3, <2>1, FS_EmptySet
<1>4. CASE mem[a] = 1
  <2>1. PICK c \in Masters : Owner(c, a)
    BY <1>2, <1>4
  <2>2. S = {c}
    BY <1>2, <2>1 DEF Owner, OwnersOf
  <2>3. Cardinality(S) = 1
    BY <2>2, FS_Singleton
  <2>4. QED
    BY <1>4, <2>3
<1>5. QED
  BY <1>1, <1>3, <1>4

\* However many masters contend for it, a semaphore word is set exactly while
\* one of them owns it, and no two do.
THEOREM SemaphoresAccountedAlways == Spec => []SemaphoresAccounted
  BY Invariance, AccountedSemaphores, PTL

LEMMA BypassBounded == Invariant => BoundedBypass
  BY OfMaster DEF BoundedBypass, PassInv

\* No master waits at a slave for more than N grants to others, although the
\* arbiter and the machine go round with pointers of their own.
THEOREM BoundedBypassAlways == Spec => []BoundedBypass
  BY Invariance, BypassBounded, PTL
=============================================================================
