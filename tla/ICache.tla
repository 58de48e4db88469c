-------------------------------- MODULE ICache --------------------------------
(***************************************************************************)
(* An instruction cache (cache_module.cpp, cache_RPU.cpp,                  *)
(* cache_storagetypes.cpp, cache_address.cpp) between the fetch port of a  *)
(* core and a memory that answers bursts.  The cache is clocked twice per  *)
(* core cycle: every Tick is one edge of its clock, every other one is an  *)
(* edge of the core and the memory too.  All processes of an edge read the *)
(* signals of before it.                                                   *)
(*                                                                         *)
(* The memory's word at offset o of line a is the number of the word.      *)
(***************************************************************************)
EXTENDS Integers, FiniteSets

CONSTANTS Configs,  \* records [assoc, records, repl, tag]: CL_ICACHE_ASSOC_TYPE,
                    \* number of lines, CL_ICACHE_REPL_POL, and the value the
                    \* tags have before they are written
          Fetches,  \* records [line, off]: the words the core fetches
          Words,    \* words of a line (4 in the code)
          Oldest,   \* initial age of a line under LRU (30000 or 99999)
          MaxReqs,  \* bound on the fetches of a run
          MaxWait   \* bound on the wait states of the memory

ASSUME ConstantsAssumption ==
  /\ Words \in Nat \ {0} /\ Oldest \in Nat
  /\ Fetches \subseteq [line : Nat, off : 0 .. Words - 1]
  /\ \A c \in Configs : c.assoc < 2 \/ c.records % c.assoc = 0

Addrs == {f.line : f \in Fetches}

RANDOM == 0
FIFO == 1
LRU == 2
None == -1       \* no way, no word

VARIABLES
  cfg,
  rec,       \* rec[s][w]: Ch_Tag, Ch_Valid, Ch_Data of way w of set s
  info,      \* info[s][w]: Ch_info
  nextIp,    \* Ch_next_ip
  half,      \* the next edge is the one in the middle of a core cycle
  req, want, \* request_from_CPU, its address and offset
  ready, pin,\* ready_to_CPU and the word on the port
  pc, loc, beat, word, \* the cache's thread
  memReq, mem,         \* request_to_MEM; the memory's thread
  memReady, memPin,    \* ready_from_MEM and the word on the port
  \* history
  reqs,      \* fetches so far
  handled,   \* calls of handle_request for the present fetch
  used, filled \* used[a], filled[a]: fetch that last used, or filled, line a

vars == <<cfg, rec, info, nextIp, half, req, want, ready, pin, pc, loc, beat, word,
          memReq, mem, memReady, memPin, reqs, handled, used, filled>>

\* The word the memory holds; it is never written.
Memory(a, o) == a * Words + o

\* Direct, fully associative and set associative caches, as sets and ways.
Full == cfg.assoc = 1
Ways == IF cfg.assoc = 0 THEN 0 .. 0
        ELSE IF Full THEN 0 .. cfg.records - 1 ELSE 0 .. cfg.assoc - 1
SetCount == cfg.records \div Cardinality(Ways)
Sets == 0 .. SetCount - 1
Index(a) == a % SetCount

Tag(a) == a \div SetCount
LineOf(s, w) == rec[s][w].tag * SetCount + s

Least(S) == CHOOSE w \in S : \A v \in S : w <= v

Init ==
  /\ cfg \in Configs
  /\ rec = [s \in Sets |-> [w \in Ways |->
              [tag |-> cfg.tag, valid |-> FALSE, data |-> [o \in 0 .. Words - 1 |-> None]]]]
  /\ info = [s \in Sets |-> [w \in Ways |-> IF cfg.repl = LRU THEN Oldest ELSE 0]]
  /\ nextIp = 0 /\ half = FALSE
  /\ req = FALSE /\ want = [line |-> 0, off |-> 0] /\ ready = FALSE /\ pin = None
  /\ pc = "loop" /\ loc = 0 /\ beat = 0 /\ word = None
  /\ memReq = FALSE /\ mem = [at |-> "idle", line |-> 0, left |-> 0, beat |-> 0]
  /\ memReady = FALSE /\ memPin = None
  /\ reqs = 0 /\ handled = 0
  /\ used = [a \in Addrs |-> 0] /\ filled = [a \in Addrs |-> 0]

------------------------------------------------------------------------------
\* RPU: lookup and replacement.

\* Records with the tag of a in its set, valid or not.
Tagged(a) == {w \in Ways : rec[Index(a)][w].tag = Tag(a)}
\* full_storage::read_cache, return_index: the first record with the tag,
\* valid or not; the last record if there is none.
FirstTagged(a) == IF Tagged(a) = {} THEN cfg.records - 1 ELSE Least(Tagged(a))

\* check_exist
Check_exist(a) ==
  LET hits == {w \in IF Full THEN Tagged(a) \cap {FirstTagged(a)} ELSE Tagged(a) :
                 rec[Index(a)][w].valid}
  IN IF hits = {} THEN None ELSE Least(hits)

\* where_to: the ways it may answer.
Where_to(s) ==
  CASE cfg.assoc = 0 -> {0}
    [] cfg.assoc # 0 /\ cfg.repl = RANDOM -> Ways
    [] cfg.assoc # 0 /\ cfg.repl = FIFO ->
         {Least({w \in Ways : \A v \in Ways : info[s][w] <= info[s][v]})}
    [] cfg.assoc # 0 /\ cfg.repl = LRU ->
         {Least({w \in Ways : \A v \in Ways : info[s][w] >= info[s][v]})}

\* Mutant: a read does not make the line young.
Bug_Young(ages, w) == ages
\* Everybody of the set one older, way w new.
Young(ages, w) == [v \in Ways |-> IF v = w THEN 0 ELSE ages[v] + 1]

\* read_data(a, i), i the answer of check_exist: the way read, and the ages.
ReadWay(a, i) == IF Full THEN FirstTagged(a) ELSE IF cfg.assoc = 0 THEN 0 ELSE i
Aged(a, i) == IF cfg.repl = LRU /\ cfg.assoc # 0
              THEN [info EXCEPT ![Index(a)] = Young(@, ReadWay(a, i))] ELSE info

\* Mutant: the victim is chosen anew for every word.
Bug_TagWay(a) == CHOOSE w \in Where_to(Index(a)) : TRUE
\* write_data: the way that gets the tag; a set associative cache looks for
\* the line that may have its first words already.
TagWay(a) == IF cfg.assoc > 1 /\ Check_exist(a) # None THEN Check_exist(a) ELSE loc

\* write_data(a, d, loc), for the word at offset o.  A fully associative
\* cache writes the tag to loc and then the word to the first record with
\* that tag.
Write_data(a, o, d) ==
  LET s == Index(a)
      w == TagWay(a)
      tagged == [rec[s] EXCEPT ![w].tag = Tag(a)]
      v == IF Full THEN Least({x \in Ways : tagged[x].tag = Tag(a)}) ELSE w
  IN /\ rec' = [rec EXCEPT ![s] = [tagged EXCEPT ![v].data[o] = d, ![v].valid = TRUE]]
     /\ info' = CASE cfg.assoc = 0 \/ cfg.repl = RANDOM -> info
                  [] cfg.assoc # 0 /\ cfg.repl = FIFO -> [info EXCEPT ![s][w] = nextIp]
                  [] cfg.assoc = 1 /\ cfg.repl = LRU -> [info EXCEPT ![s][w] = 0]
                  [] cfg.assoc > 1 /\ cfg.repl = LRU -> [info EXCEPT ![s] = Young(@, w)]
     /\ nextIp' = IF cfg.assoc # 0 /\ cfg.repl = FIFO THEN nextIp + 1 ELSE nextIp

------------------------------------------------------------------------------
\* The cache's thread: request_cache, handle_request, read_from_mem.  Each
\* step ends at a wait of the thread.

Same == UNCHANGED <<rec, info, nextIp, used, filled>>

\* request_cache, and handle_request up to its first wait: a hit is answered
\* at once, a miss chooses the victim and asks the memory for the line.
Loop ==
  /\ pc = "loop"
  /\ IF ~req
     THEN Same /\ UNCHANGED <<pc, ready, pin, loc, beat, memReq>>
     ELSE LET a == want.line
              ind == Check_exist(a)
          IN IF ind # None
             THEN /\ pin' = rec[Index(a)][ReadWay(a, ind)].data[want.off]
                  /\ info' = Aged(a, ind)
                  /\ used' = [used EXCEPT ![a] = reqs]
                  /\ ready' = TRUE /\ pc' = "end"
                  /\ UNCHANGED <<rec, nextIp, filled, loc, beat, memReq>>
             ELSE /\ loc' \in Where_to(Index(a))
                  /\ beat' = 0 /\ memReq' = TRUE /\ pc' = "beat"
                  /\ Same /\ UNCHANGED <<ready, pin>>
  /\ UNCHANGED word

\* Mutant: no wait for the core's edge (DOUBLECLOCK).
Bug_Beat ==
  /\ pc = "beat"
  /\ IF ~memReady
     THEN Same /\ UNCHANGED <<pc, beat, memReq>>
     ELSE /\ Write_data(want.line, beat, memPin)
          /\ beat' = beat + 1
          /\ filled' = [filled EXCEPT ![want.line] = reqs]
          /\ pc' = IF beat + 1 < Words THEN "beat" ELSE "answer"
          /\ memReq' = (beat + 1 < Words)
          /\ UNCHANGED used
  /\ UNCHANGED <<ready, pin, loc, word>>
\* read_from_mem: wait for a word, wait one more edge (DOUBLECLOCK), store it.
Beat ==
  /\ pc = "beat"
  /\ IF memReady THEN pc' = "store" /\ word' = memPin ELSE UNCHANGED <<pc, word>>
  /\ Same /\ UNCHANGED <<ready, pin, loc, beat, memReq>>

\* Mutant: the answer does not wait for the next edge (DOUBLECLOCK).
Bug_Store ==
  /\ pc = "store"
  /\ Write_data(want.line, beat, word)
  /\ beat' = beat + 1
  /\ filled' = [filled EXCEPT ![want.line] = reqs]
  /\ memReq' = (beat + 1 < Words) /\ ready' = (beat + 1 = Words)
  /\ pc' = IF beat + 1 < Words THEN "beat" ELSE "end"
  /\ pin' = Memory(want.line, want.off)
  /\ UNCHANGED <<used, loc, word>>
Store ==
  /\ pc = "store"
  /\ Write_data(want.line, beat, word)
  /\ beat' = beat + 1
  /\ pc' = IF beat + 1 < Words THEN "beat" ELSE "answer"
  /\ memReq' = (beat + 1 < Words)
  /\ filled' = [filled EXCEPT ![want.line] = reqs]
  /\ UNCHANGED <<used, ready, pin, loc, word>>

\* After the fill: read the word, wait one edge (DOUBLECLOCK), answer it.
\* Nobody else touches the records, so the word is read after the wait.
Answer ==
  /\ pc = "answer"
  /\ LET a == want.line
         ind == Check_exist(a)
     IN /\ pin' = rec[Index(a)][ReadWay(a, ind)].data[want.off]
        /\ info' = Aged(a, ind)
        /\ used' = [used EXCEPT ![a] = reqs]
  /\ ready' = TRUE /\ pc' = "end"
  /\ UNCHANGED <<rec, nextIp, filled, word, loc, beat, memReq>>

End ==
  /\ pc = "end"
  /\ ready' = FALSE /\ pc' = "loop"
  /\ Same /\ UNCHANGED <<pin, loc, beat, word, memReq>>

Cache == Loop \/ Beat \/ Store \/ Answer \/ End

------------------------------------------------------------------------------
\* The core's fetch port, working_processI: it takes an answer it sees and
\* may raise the next fetch at once.
Taken == req /\ ready /\ ~half
Core ==
  \/ /\ req /\ ~ready
     /\ UNCHANGED <<req, want, reqs>>
  \/ /\ ~req \/ Taken
     /\ req' = FALSE /\ UNCHANGED <<want, reqs>>
  \/ /\ ~req \/ Taken
     /\ reqs < MaxReqs /\ reqs' = reqs + 1
     /\ req' = TRUE
     /\ want' \in Fetches

\* The L3 memory with its multiplexer: wait states, then a word every other
\* edge, ready low in between (L3_BB_WS is 1).
Mem ==
  CASE mem.at = "idle" ->
         /\ IF ~memReq THEN UNCHANGED mem
            ELSE \E n \in 0 .. MaxWait :
                   mem' = [at |-> "wait", line |-> want.line, left |-> n, beat |-> 0]
         /\ UNCHANGED <<memReady, memPin>>
    [] mem.at = "wait" /\ mem.left > 0 ->
         mem' = [mem EXCEPT !.left = @ - 1] /\ UNCHANGED <<memReady, memPin>>
    [] mem.at = "wait" /\ mem.left = 0 ->
         /\ memReady' = TRUE /\ memPin' = Memory(mem.line, mem.beat)
         /\ mem' = [mem EXCEPT !.at = "up"]
    [] mem.at = "up" ->
         /\ memReady' = FALSE
         /\ mem' = [mem EXCEPT !.at = IF mem.beat + 1 < Words THEN "wait" ELSE "idle",
                               !.beat = (mem.beat + 1) % Words]
         /\ UNCHANGED memPin

\* One edge of the cache's clock.
Tick ==
  /\ Cache
  /\ half' = ~half
  /\ IF half THEN UNCHANGED <<req, want, reqs, mem, memReady, memPin>> ELSE Core /\ Mem
  /\ handled' = IF Taken THEN 0
                ELSE IF pc = "loop" /\ req /\ handled < 2 THEN handled + 1 ELSE handled
  /\ UNCHANGED cfg

Next == Tick

\* The clock does not stop.
Spec == Init /\ [][Next]_vars /\ WF_vars(Next)

------------------------------------------------------------------------------
Record == [tag : Nat, valid : BOOLEAN, data : [0 .. Words - 1 -> Int]]

\* The types of the variables.
TypeOK ==
  /\ cfg \in Configs
  /\ rec \in [Sets -> [Ways -> Record]] /\ info \in [Sets -> [Ways -> Nat]] /\ nextIp \in Nat
  /\ half \in BOOLEAN /\ req \in BOOLEAN /\ ready \in BOOLEAN
  /\ want \in [line : Addrs \cup {0}, off : 0 .. Words - 1]
  /\ pc \in {"loop", "beat", "store", "answer", "end"} /\ loc \in Ways /\ beat \in 0 .. Words
  /\ {pin, word, memPin} \subseteq Int
  /\ memReq \in BOOLEAN /\ memReady \in BOOLEAN
  /\ mem \in [at : {"idle", "wait", "up"}, line : Addrs \cup {0}, left : 0 .. MaxWait,
              beat : 0 .. Words - 1]
  /\ reqs \in 0 .. MaxReqs /\ handled \in 0 .. 2
  /\ used \in [Addrs -> 0 .. MaxReqs] /\ filled \in [Addrs -> 0 .. MaxReqs]

\* The core takes the memory's word of the address it asked for, whatever was
\* fetched, replaced or left in a record before.
RightWord == Taken => pin = Memory(want.line, want.off)

\* The two clocks of the handshake agree: an answer is up at exactly one edge
\* of the core, so a fetch is never handled twice.
HandledOnce == handled <= 1 /\ (ready /\ ~half => req)

\* A fetch gets the word of memory, once, whatever the two clocks do.
FetchRight == RightWord /\ HandledOnce

\* Between requests a valid record holds the words of one line, all of them,
\* and a set never holds a line twice.
LinesWhole ==
  pc \in {"loop", "end"} =>
    \A s \in Sets : \A w \in Ways : rec[s][w].valid =>
      /\ \A o \in 0 .. Words - 1 : rec[s][w].data[o] = Memory(LineOf(s, w), o)
      /\ \A v \in Ways \ {w} : rec[s][v].valid => rec[s][v].tag # rec[s][w].tag

\* The store of the cache between requests.
StoreSound == TypeOK /\ LinesWhole

\* Replacement: under FIFO and LRU no valid line goes while there is a record
\* without one, and the one that goes is the line filled, or used, longest ago.
EvictsInOrder ==
  pc = "beat" /\ beat = 0 /\ cfg.assoc # 0 /\ cfg.repl # RANDOM =>
    LET s == Index(want.line)
        since(w) == IF cfg.repl = LRU THEN used[LineOf(s, w)] ELSE filled[LineOf(s, w)]
    IN rec[s][loc].valid =>
         \A w \in Ways \ {loc} : rec[s][w].valid /\ since(loc) < since(w)

\* Every fetch is answered.
Fetched == req ~> Taken
=============================================================================
