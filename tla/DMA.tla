---------------------------------- MODULE DMA ----------------------------------
(***************************************************************************)
(* The cluster DMA (cl_dma): a job table per core, programmed register by  *)
(* register (dmasupport.c), a scheduler, and a transfer engine that moves  *)
(* one job at a time.  Every request a core programs has a tag; addresses  *)
(* and sizes are abstracted to the tag of the request that wrote them.     *)
(***************************************************************************)
EXTENDS Integers, FiniteSets, FiniteSetsExt

CONSTANTS Channels,   \* cores with a row in the job table: 16 in the platform
          JT_SIZE,    \* jobs of a core: 16
          Modes,      \* Modes[c]: <<pri, sleep, dir>> of the jobs core c programs
          MaxOut,     \* MaxOut[c]: jobs core c keeps outstanding
          MaxJobs     \* MaxJobs[c]: bound: jobs core c programs

ASSUME ConstantsAssumption ==
  /\ Channels \in Nat \ {0} /\ JT_SIZE \in Nat \ {0}
  /\ Modes \in [0 .. Channels - 1 -> SUBSET (BOOLEAN \X BOOLEAN \X {0, 1})]
  /\ MaxOut \in [0 .. Channels - 1 -> Nat]
  /\ MaxJobs \in [0 .. Channels - 1 -> Nat]

Cores == 0 .. Channels - 1
Jobs == 0 .. JT_SIZE - 1
Tags == Nat                \* 0: no request (addresses 0xFFFFFFFF, size 0)
None == -1

VARIABLES
  jt,             \* jt[c][j]: the job table
  curr_core, curr_job, job_curr_prog, job_gen_ev,
  working_sig,
  dma_event,      \* dma_event[c]: the wake-up line of core c
  engine,         \* where transfer() is, and what it has read of the job
  moved,          \* moved[c]: the transfers made for core c
  pc,             \* pc[c]: the next register access of core c
  req,            \* req[c]: the request core c is programming or waiting for
  out,            \* out[c]: requests programmed and not yet collected
  tag,            \* tag[c]: requests core c has made
  collected       \* collected[c]: the requests dma_wait has returned for

tables == <<jt, job_curr_prog, job_gen_ev>>
sched == <<curr_core, curr_job, working_sig>>
drivers == <<pc, req, out, tag, collected>>
vars == <<tables, sched, dma_event, engine, moved, drivers>>

FreeEntry == [owner |-> None, addr1 |-> 0, addr2 |-> 0, size |-> 0, dir |-> 0,
              pri |-> FALSE, sleep |-> FALSE, trigger |-> FALSE, done |-> FALSE]
Entries == [owner : Cores \cup {None}, addr1 : Tags, addr2 : Tags, size : Tags, dir : {0, 1},
            pri : BOOLEAN, sleep : BOOLEAN, trigger : BOOLEAN, done : BOOLEAN]
NoRequest == [job |-> None, tag |-> 0, dir |-> 0, pri |-> FALSE, sleep |-> FALSE, started |-> FALSE]
Requests == [job : Jobs \cup {None}, tag : Tags, dir : {0, 1},
             pri : BOOLEAN, sleep : BOOLEAN, started : BOOLEAN]
Sides == {"addr1", "addr2"}
Idle == [at |-> "wait", source |-> 0, from |-> "addr1", size |-> 0]

\* reset_jt and the constructor.
Init ==
  /\ jt = [c \in Cores |-> [j \in Jobs |-> FreeEntry]]
  /\ curr_core = 0
  /\ curr_job = [c \in Cores |-> 0]
  /\ job_curr_prog = [c \in Cores |-> None]
  /\ job_gen_ev = [c \in Cores |-> None]
  /\ working_sig = FALSE
  /\ dma_event = [c \in Cores |-> FALSE]
  /\ engine = Idle
  /\ moved = [c \in Cores |-> {}]
  /\ pc = [c \in Cores |-> "run"]
  /\ req = [c \in Cores |-> NoRequest]
  /\ out = [c \in Cores |-> {}]
  /\ tag = [c \in Cores |-> 0]
  /\ collected = [c \in Cores |-> {}]

-----------------------------------------------------------------------------
(* The register accesses of a core, each served by process_request. *)

\* Mutant: an entry is taken for free as long as it is not triggered.
Bug_UntriggeredIsFree(c) ==
  LET free == {j \in Jobs : ~jt[c][j].trigger}
  IN  IF free = {} THEN None ELSE Min(free)

look_4_free_slot(c) ==
  LET free == {j \in Jobs : jt[c][j].owner = None}
  IN  IF free = {} THEN None ELSE Min(free)

\* What a write to a register of the job being programmed leaves in the table.
Program(c, entry) == jt' = [jt EXCEPT ![c][job_curr_prog[c]] = entry]
Entry(c) == jt[c][job_curr_prog[c]]
Goto(c, label) == pc' = [pc EXCEPT ![c] = label]

\* dma_prog: DMA_FREE_SLOT_REG; without a free slot the call fails.
FreeSlot(c) ==
  LET j == look_4_free_slot(c) IN
  /\ pc[c] = "run" /\ Cardinality(out[c]) < MaxOut[c] /\ tag[c] < MaxJobs[c]
  /\ job_curr_prog' = [job_curr_prog EXCEPT ![c] = j]
  /\ \/ /\ j = None
        /\ UNCHANGED <<pc, req, tag>>
     \/ /\ j # None
        /\ tag' = [tag EXCEPT ![c] = @ + 1]
        /\ \E mode \in Modes[c] :
             req' = [req EXCEPT ![c] = [job |-> j, tag |-> tag[c] + 1, dir |-> mode[3],
                                        pri |-> mode[1], sleep |-> mode[2], started |-> FALSE]]
        /\ Goto(c, "addr1")
  /\ UNCHANGED <<jt, job_gen_ev, sched, dma_event, engine, moved, out, collected>>

WriteAddr1(c) ==
  /\ pc[c] = "addr1"
  /\ Program(c, [Entry(c) EXCEPT !.owner = c, !.addr1 = req[c].tag])
  /\ Goto(c, "addr2")
  /\ UNCHANGED <<job_curr_prog, job_gen_ev, sched, dma_event, engine, moved, req, out, tag, collected>>

WriteAddr2(c) ==
  /\ pc[c] = "addr2"
  /\ Program(c, [Entry(c) EXCEPT !.addr2 = req[c].tag])
  /\ Goto(c, "mode")
  /\ UNCHANGED <<job_curr_prog, job_gen_ev, sched, dma_event, engine, moved, req, out, tag, collected>>

\* Nobody waits for an asynchronous job once it is started.
Keep(c, r) == out' = [out EXCEPT ![c] = IF r.pri /\ r.started THEN @ \ {r} ELSE @ \cup {r}]

WriteMode(c) ==
  /\ pc[c] = "mode"
  /\ \E trigger \in BOOLEAN :
       /\ Program(c, [Entry(c) EXCEPT !.pri = req[c].pri, !.dir = req[c].dir,
                        !.sleep = req[c].sleep, !.size = req[c].tag, !.trigger = trigger])
       /\ Keep(c, [req[c] EXCEPT !.started = trigger])
  /\ req' = [req EXCEPT ![c] = NoRequest]
  /\ Goto(c, "run")
  /\ UNCHANGED <<job_curr_prog, job_gen_ev, sched, dma_event, engine, moved, tag, collected>>

\* dma_start: DMA_TRIGGER_REG.
Trigger(c) ==
  /\ pc[c] = "run"
  /\ \E r \in out[c] :
       /\ ~r.started
       /\ jt' = [jt EXCEPT ![c][r.job].trigger = TRUE]
       /\ out' = [out EXCEPT ![c] = IF r.pri THEN @ \ {r} ELSE (@ \ {r}) \cup {[r EXCEPT !.started = TRUE]}]
  /\ UNCHANGED <<job_curr_prog, job_gen_ev, sched, dma_event, engine, moved, pc, req, tag, collected>>

\* dma_wait on a started job: polling, or sleeping at DMA_WAIT_EVENT_ADDR.  Nothing
\* wakes the sleeper: it stops at its next fetch, until a falling edge of dma_event
\* that no registered process makes, and never reads DMA_EVENT_JOB_ID.
Wait(c) ==
  /\ pc[c] = "run"
  /\ \E r \in out[c] :
       /\ r.started
       /\ req' = [req EXCEPT ![c] = r]
       /\ Goto(c, IF r.sleep THEN "asleep" ELSE "poll")
  /\ UNCHANGED <<tables, sched, dma_event, engine, moved, out, tag, collected>>

\* Mutant: the entry keeps its done bit.
Bug_ClearKeepsDone(c, j) == jt' = [jt EXCEPT ![c][j] = [FreeEntry EXCEPT !.done = jt[c][j].done]]

clear_entry(c, j) == jt' = [jt EXCEPT ![c][j] = FreeEntry]

\* DMA_DONE_REG: the answer that ends the polling also clears the entry.
PollDone(c) ==
  /\ pc[c] = "poll" /\ jt[c][req[c].job].done
  /\ clear_entry(c, req[c].job)
  /\ out' = [out EXCEPT ![c] = @ \ {req[c]}]
  /\ collected' = [collected EXCEPT ![c] = @ \cup {req[c].tag}]
  /\ req' = [req EXCEPT ![c] = NoRequest]
  /\ Goto(c, "run")
  /\ UNCHANGED <<job_curr_prog, job_gen_ev, sched, dma_event, engine, moved, tag>>

-----------------------------------------------------------------------------
(* control(): the scheduler runs at every edge without a request. *)

Ready(c, j) == jt[c][j].trigger /\ ~jt[c][j].done

\* One turn of the outer loop of set_next_job, at offset i from the core
\* chosen so far; the first ready job of that core ends the inner loop.
Visit(s, i) ==
  LET c == (s.core + 1 + i) % Channels
      found == {j \in Jobs : Ready(c, (s.job[s.core] + 1 + j) % JT_SIZE)}
  IN  IF found = {} THEN s
      ELSE [core |-> c, hit |-> TRUE,
            job |-> [s.job EXCEPT ![c] = (@ + 1 + Min(found)) % JT_SIZE]]

\* Mutant: the search ends with the first core that has a ready job.
Bug_SearchEndsAtHit ==
  LET turn[i \in 0 .. Channels] ==
        IF i = 0 THEN [core |-> curr_core, hit |-> FALSE, job |-> curr_job]
        ELSE IF turn[i - 1].hit THEN turn[i - 1] ELSE Visit(turn[i - 1], i - 1)
  IN  turn[Channels]

Search ==
  LET turn[i \in 0 .. Channels] ==
        IF i = 0 THEN [core |-> curr_core, hit |-> FALSE, job |-> curr_job]
        ELSE Visit(turn[i - 1], i - 1)
  IN  turn[Channels]

set_next_job ==
  LET found == Search IN
  /\ ~working_sig /\ found.hit
  /\ curr_core' = found.core
  /\ curr_job' = found.job
  /\ working_sig' = TRUE
  /\ UNCHANGED <<tables, dma_event, engine, moved, drivers>>

-----------------------------------------------------------------------------
(* transfer(): the job is looked up again in each phase. *)

Current == jt[curr_core][curr_job[curr_core]]

\* SOURCE phase: the words at the source address are read into IO_data.
ReadSource ==
  /\ working_sig /\ engine.at = "wait"
  /\ engine' = [at |-> "source", size |-> Current.size,
                from |-> IF Current.dir = 1 THEN "addr1" ELSE "addr2",
                source |-> IF Current.dir = 1 THEN Current.addr1 ELSE Current.addr2]
  /\ UNCHANGED <<tables, sched, dma_event, moved, drivers>>

\* TARGET phase: IO_data is written to the target address.
WriteTarget ==
  /\ engine.at = "source"
  /\ engine' = [engine EXCEPT !.at = "target"]
  /\ moved' = [moved EXCEPT ![curr_core] = @ \cup
        {[source |-> engine.source, size |-> engine.size, from |-> engine.from,
          to |-> IF Current.dir = 1 THEN "addr2" ELSE "addr1",
          target |-> IF Current.dir = 1 THEN Current.addr2 ELSE Current.addr1]}]
  /\ UNCHANGED <<tables, sched, dma_event, drivers>>

\* Mutant: the completed job is not marked as done.
Bug_NotDone ==
  /\ engine.at = "target"
  /\ jt' = [jt EXCEPT ![curr_core][curr_job[curr_core]] = IF @.pri THEN FreeEntry ELSE [@ EXCEPT !.trigger = FALSE]]
  /\ working_sig' = FALSE
  /\ engine' = Idle
  /\ UNCHANGED <<job_curr_prog, job_gen_ev, dma_event, curr_core, curr_job, moved, drivers>>

\* The job is done: the event of a job in sleep mode is raised and stays up, and
\* the entry of an asynchronous job is cleared.
UpdateStatus ==
  LET c == curr_core
      j == curr_job[curr_core]
  IN
  /\ engine.at = "target"
  /\ jt' = [jt EXCEPT ![c][j] = IF @.pri THEN FreeEntry ELSE [@ EXCEPT !.done = TRUE]]
  /\ job_gen_ev' = [job_gen_ev EXCEPT ![c] = IF Current.sleep THEN j ELSE @]
  /\ dma_event' = [dma_event EXCEPT ![c] = @ \/ Current.sleep]
  /\ working_sig' = FALSE
  /\ engine' = Idle
  /\ UNCHANGED <<job_curr_prog, curr_core, curr_job, moved, drivers>>

-----------------------------------------------------------------------------
Finished(c) == pc[c] = "run" /\ out[c] = {} /\ tag[c] = MaxJobs[c]

\* The program of every core has ended, or sleeps, and the DMA is idle.
Terminated ==
  /\ \A c \in Cores : (Finished(c) \/ pc[c] = "asleep") /\ \A j \in Jobs : ~Ready(c, j)
  /\ ~working_sig
  /\ UNCHANGED vars

Access(c) ==
  \/ FreeSlot(c) \/ WriteAddr1(c) \/ WriteAddr2(c) \/ WriteMode(c)
  \/ Trigger(c) \/ Wait(c) \/ PollDone(c)

Engine == ReadSource \/ WriteTarget \/ UpdateStatus

Next == Engine \/ set_next_job \/ (\E c \in Cores : Access(c)) \/ Terminated

Spec == Init /\ [][Next]_vars

\* Clocked threads never stop, and a core that programs or polls executes
\* its next access; whether it starts or waits for a job is its choice.
FairSpec ==
  /\ Spec
  /\ WF_vars(set_next_job \/ Engine)
  /\ \A c \in Cores : WF_vars(WriteAddr1(c) \/ WriteAddr2(c) \/ WriteMode(c) \/ PollDone(c))

-----------------------------------------------------------------------------
(* Properties. *)

TypeOK ==
  /\ jt \in [Cores -> [Jobs -> Entries]]
  /\ curr_core \in Cores
  /\ curr_job \in [Cores -> Jobs]
  /\ job_curr_prog \in [Cores -> Jobs \cup {None}]
  /\ job_gen_ev \in [Cores -> Jobs \cup {None}]
  /\ working_sig \in BOOLEAN
  /\ dma_event \in [Cores -> BOOLEAN]
  /\ engine \in [at : {"wait", "source", "target"}, source : Tags, from : Sides, size : Tags]
  /\ moved \in [Cores -> SUBSET [source : Tags, size : Tags, from : Sides, to : Sides, target : Tags]]
  /\ pc \in [Cores -> {"run", "addr1", "addr2", "mode", "poll", "asleep"}]
  /\ req \in [Cores -> Requests]
  /\ out \in [Cores -> SUBSET Requests]
  /\ tag \in [Cores -> Nat]
  /\ collected \in [Cores -> SUBSET Tags]
  /\ \A c \in Cores : IsFiniteSet(out[c]) /\ Cardinality(out[c]) <= MaxOut[c]

Moved(c, t) == \E x \in moved[c] : x.source = t /\ x.target = t /\ x.size = t

\* When dma_wait returns, the data of the job it was called for has been moved:
\* done, set by transfer() on the entry the scheduler chose, is never the
\* status of another request (cl_dma.h: "set to 1 when the transaction is done").
WaitMeansMoved == \A c \in Cores : \A t \in collected[c] : Moved(c, t)

\* The job handed to transfer() is a ready one. set_next_job counts the offset of
\* a job from the core it comes from and applies it to the core it goes to; only
\* the last turn of its loop, which visits the chosen core again, makes them agree.
ScheduledReady ==
  working_sig /\ engine.at = "wait" => Ready(curr_core, curr_job[curr_core])

\* Source, target, size and direction of every transfer belong to one request: nothing
\* a core writes to the table reaches a job between the phases of its transfer.
TransferCoherent ==
  \A c \in Cores : \A x \in moved[c] :
    x.from # x.to /\ x.source = x.target /\ x.source = x.size /\ x.source > 0

\* No ready job keeps the scheduler idle, whichever core it is of and wherever in
\* the table: the offsets of the search reach every entry.
NeverIdle == (\E c \in Cores, j \in Jobs : Ready(c, j)) => Search.hit

\* From scheduler to completion the engine works for one job that is ready, and it
\* has work while there is one.
TransfersSound == ScheduledReady /\ TransferCoherent /\ NeverIdle

\* A job that is programmed and not collected keeps its entry.
EntryKept ==
  \A c \in Cores : \A r \in out[c] :
    LET entry == jt[c][r.job]
    IN  entry.owner = c /\ entry.addr1 = r.tag /\ entry.size = r.tag

\* An asynchronous job that has been started leaves the table only once moved.
Started(c) == {t \in 1 .. tag[c] : t \notin {r.tag : r \in out[c]} /\ t # req[c].tag}
NothingLost ==
  \A c \in Cores : \A t \in Started(c) : Moved(c, t) \/ \E j \in Jobs : jt[c][j].size = t

\* The table, also when it is full: an entry in use is not given to another job,
\* and a job that was started stays until it is moved.
JobsKept == TypeOK /\ EntryKept /\ NothingLost

\* Every call of dma_wait that polls returns: its job is scheduled, moved and marked.
\* MaxJobs matters: cores that never stop programming can keep others waiting, as the
\* search does not serve three channels or more in turn.
WaitReturns == \A c \in Cores : pc[c] = "poll" ~> pc[c] = "run"
=============================================================================
