----------------------------- MODULE GompWorkShare -----------------------------
(***************************************************************************)
(* Work sharing in the VSOC OpenMP runtime (loop.c, iter.c, sections.c,    *)
(* single.c, work.c): the threads of one team run the same sequence of     *)
(* dynamic loops, sections and singles over the one gomp_work_share_t of   *)
(* the team.  The business lock (ws->lock) and the exit lock are           *)
(* test-and-set words; the team barrier is the abstract barrier that       *)
(* bar_sw.c implements (MSGBarrierProofs).                                 *)
(***************************************************************************)
EXTENDS Integers, Sequences, FiniteSets

CONSTANTS N,        \* nthreads of the team
          MaxLen,   \* bound: constructs of a region
          Programs  \* sequences of constructs the team may run

Loops == [kind : {"loop"}, start : Int, end : Int, incr : Int \ {0}, chunk : Nat \ {0}, nowait : BOOLEAN]
SectionLists == [kind : {"sections"}, count : Nat, nowait : BOOLEAN]
Singles == [kind : {"single"}, nowait : BOOLEAN]
Constructs == Loops \cup SectionLists \cup Singles

ASSUME ConstantsAssumption ==
  /\ N \in Nat \ {0}
  /\ MaxLen \in Nat
  /\ \A p \in Programs : p \in Seq(Constructs) /\ Len(p) \in 1 .. MaxLen

Threads == 0 .. N-1
WS_INITED == TRUE
WS_NOT_INITED == FALSE

VARIABLES
  prog,      \* the constructs of this region
  ws,        \* the shared work share descriptor
  lock,      \* ws->lock
  exitLock,  \* ws->exit_lock (the same word as ws->enter_lock)
  pc,        \* where each thread is
  cur,       \* cur[t]: index in prog of the construct thread t is at
  reg,       \* reg[t]: a field of ws held in a register inside a lock
  arrived,   \* barriers entered and left, per thread
  left,
  pieces     \* history: pieces[j]: the pieces <<from, to>> of construct j handed out

vars == <<prog, ws, lock, exitLock, pc, cur, reg, arrived, left, pieces>>

TeamBarrier == INSTANCE AbstractBarrier WITH MaxRounds <- MaxLen

Construct(t) == prog[cur[t]]
Goto(t, label) == pc' = [pc EXCEPT ![t] = label]
HandOut(t, from, to) == pieces' = [pieces EXCEPT ![cur[t]] = Append(@, <<from, to>>)]

\* gomp_new_work_share sets the locks only: the other fields are the zeroes of
\* freshly allocated TCDM.
Init ==
  /\ prog \in Programs
  /\ ws = [checkfirst |-> WS_NOT_INITED, end |-> 0, next |-> 0, chunk_size |-> 0,
           incr |-> 0, completed |-> 0]
  /\ lock = 0 /\ exitLock = 0
  /\ pc = [t \in Threads |-> "begin"]
  /\ cur = [t \in Threads |-> 1]
  /\ reg = [t \in Threads |-> 0]
  /\ arrived = [t \in Threads |-> 0]
  /\ left = [t \in Threads |-> 0]
  /\ pieces = [j \in DOMAIN prog |-> << >>]

-----------------------------------------------------------------------------
\* gomp_hal_lock(ws->lock) at the start of a construct (to = "first"), and on
\* asking for more work (to = "peeknext").
LockBusiness(t, from, to) ==
  /\ pc[t] = from
  /\ lock = 0
  /\ lock' = 1
  /\ Goto(t, to)
  /\ UNCHANGED <<prog, ws, exitLock, cur, reg, arrived, left, pieces>>

\* Canonicalize loops that have zero iterations to ->next == ->end.
LoopInit(c) ==
  [checkfirst |-> WS_INITED,
   end |-> IF (c.incr > 0 /\ c.start > c.end) \/ (c.incr < 0 /\ c.start < c.end)
           THEN c.start ELSE c.end,
   next |-> c.start, chunk_size |-> c.chunk, incr |-> c.incr, completed |-> 0]

SectionsInit(c) ==
  [checkfirst |-> WS_INITED, end |-> c.count + 1, next |-> 1, chunk_size |-> 1,
   incr |-> 1, completed |-> 0]

\* The first thread in initialises the descriptor.
CheckFirst(t) ==
  /\ pc[t] = "first"
  /\ Construct(t).kind # "single"
  /\ ws' = IF ws.checkfirst = WS_INITED THEN ws
           ELSE IF Construct(t).kind = "loop" THEN LoopInit(Construct(t))
                                              ELSE SectionsInit(Construct(t))
  /\ Goto(t, "peek")
  /\ UNCHANGED <<prog, lock, exitLock, cur, reg, arrived, left, pieces>>

\* Mutant: the early return says that there is work.
Bug_ReturnTrue(t, from, to) ==
  /\ pc[t] = from
  /\ \/ ws.next = ws.end /\ lock' = 0 /\ Goto(t, "work") /\ UNCHANGED reg
     \/ ws.next # ws.end /\ Goto(t, to) /\ reg' = [reg EXCEPT ![t] = ws.next] /\ UNCHANGED lock
  /\ UNCHANGED <<prog, ws, exitLock, cur, arrived, left, pieces>>

\* start = ws->next; nothing is left when it has reached ws->end.
Peek(t, from, to) ==
  /\ pc[t] = from
  /\ \/ /\ ws.next = ws.end
        /\ lock' = 0
        /\ Goto(t, "end")
        /\ UNCHANGED reg
     \/ /\ ws.next # ws.end
        /\ reg' = [reg EXCEPT ![t] = ws.next]
        /\ Goto(t, to)
        /\ UNCHANGED lock
  /\ UNCHANGED <<prog, ws, exitLock, cur, arrived, left, pieces>>

\* The chunk from start, clipped to what is left, in the direction of incr.
Clip(chunk, left_, incr) ==
  IF incr < 0 THEN (IF chunk < left_ THEN left_ ELSE chunk)
              ELSE (IF chunk > left_ THEN left_ ELSE chunk)

Advance(t, to) ==
  /\ ws' = [ws EXCEPT !.next = to]
  /\ lock' = 0
  /\ HandOut(t, reg[t], to)
  /\ Goto(t, "work")
  /\ UNCHANGED <<prog, exitLock, cur, reg, arrived, left>>

\* The rest of GOMP_loop_dynamic_start: the chunk comes from the arguments.
LoopStartAdvance(t) ==
  LET c == Construct(t)
  IN  /\ pc[t] = "bump" /\ c.kind = "loop"
      /\ Advance(t, reg[t] + Clip(c.chunk * c.incr, ws.end - reg[t], c.incr))

\* The rest of GOMP_sections_start: ret = ws->next++.
SectionsStartAdvance(t) ==
  /\ pc[t] = "bump" /\ Construct(t).kind = "sections"
  /\ Advance(t, reg[t] + 1)

\* The rest of gomp_iter_dynamic_next (the chunk comes from the descriptor).
NextAdvance(t) ==
  /\ pc[t] = "bumpnext"
  /\ Advance(t, reg[t] + Clip(ws.chunk_size * ws.incr, ws.end - reg[t], ws.incr))

Start(t) == \/ LockBusiness(t, "begin", "first")
            \/ CheckFirst(t)
            \/ Peek(t, "peek", "bump")
            \/ LoopStartAdvance(t) \/ SectionsStartAdvance(t)

gomp_iter_dynamic_next(t) == \/ LockBusiness(t, "work", "peeknext")
                             \/ Peek(t, "peeknext", "bumpnext")
                             \/ NextAdvance(t)

-----------------------------------------------------------------------------
\* GOMP_single_start, under ws->lock.
GOMP_single_start(t) ==
  /\ pc[t] = "first"
  /\ Construct(t).kind = "single"
  /\ LET first == ws.checkfirst # WS_INITED
         completed == (IF first THEN 0 ELSE ws.completed) + 1
     IN  /\ ws' = [ws EXCEPT !.completed = completed,
                             !.checkfirst = IF completed = N THEN WS_NOT_INITED
                                                             ELSE WS_INITED]
         /\ IF first THEN HandOut(t, 1, 2) ELSE UNCHANGED pieces
  /\ lock' = 0
  /\ Goto(t, "sync")
  /\ UNCHANGED <<prog, exitLock, cur, reg, arrived, left>>

-----------------------------------------------------------------------------
\* GOMP_loop_end and gomp_sections_end_nowait: ws->completed++ under exit_lock.
LockExit(t) ==
  /\ pc[t] = "end"
  /\ exitLock = 0
  /\ exitLock' = 1
  /\ Goto(t, "count")
  /\ UNCHANGED <<prog, ws, lock, cur, reg, arrived, left, pieces>>

CountLoad(t) ==
  /\ pc[t] = "count"
  /\ reg' = [reg EXCEPT ![t] = ws.completed]
  /\ Goto(t, "countstore")
  /\ UNCHANGED <<prog, ws, lock, exitLock, cur, arrived, left, pieces>>

\* Mutant: the last thread leaves the descriptor initialised.
Bug_LoopEndKeepsInited(t) ==
  /\ pc[t] = "countstore" /\ Construct(t).kind = "loop"
  /\ ws' = [ws EXCEPT !.completed = IF reg[t] + 1 = N THEN 0 ELSE reg[t] + 1]
  /\ exitLock' = 0
  /\ Goto(t, "sync")
  /\ UNCHANGED <<prog, lock, cur, reg, arrived, left, pieces>>

\* The last thread out of a loop resets the descriptor inside the lock.
LoopEndStore(t) ==
  /\ pc[t] = "countstore" /\ Construct(t).kind = "loop"
  /\ ws' = IF reg[t] + 1 = N
           THEN [ws EXCEPT !.completed = 0, !.checkfirst = WS_NOT_INITED]
           ELSE [ws EXCEPT !.completed = reg[t] + 1]
  /\ exitLock' = 0
  /\ Goto(t, "sync")
  /\ UNCHANGED <<prog, lock, cur, reg, arrived, left, pieces>>

\* Mutant: the last thread is not recognised.
Bug_SectionsNeverReset(t) ==
  /\ pc[t] = "countstore" /\ Construct(t).kind = "sections"
  /\ ws' = [ws EXCEPT !.completed = reg[t] + 1]
  /\ exitLock' = 0
  /\ Goto(t, IF reg[t] = N THEN "reset" ELSE "sync")
  /\ UNCHANGED <<prog, lock, cur, reg, arrived, left, pieces>>

\* The last thread out of the sections resets it after releasing the lock.
SectionsEndStore(t) ==
  /\ pc[t] = "countstore" /\ Construct(t).kind = "sections"
  /\ ws' = [ws EXCEPT !.completed = reg[t] + 1]
  /\ exitLock' = 0
  /\ Goto(t, IF reg[t] + 1 = N THEN "reset" ELSE "sync")
  /\ UNCHANGED <<prog, lock, cur, reg, arrived, left, pieces>>

gomp_work_share_end_nowait(t) ==
  /\ pc[t] = "reset"
  /\ ws' = IF ws.completed = N
           THEN [checkfirst |-> WS_NOT_INITED, end |-> 0, next |-> 0,
                 chunk_size |-> 0, incr |-> 0, completed |-> 0]
           ELSE ws
  /\ Goto(t, "sync")
  /\ UNCHANGED <<prog, lock, exitLock, cur, reg, arrived, left, pieces>>

End(t) == \/ LockExit(t) \/ CountLoad(t)
          \/ LoopEndStore(t) \/ SectionsEndStore(t)
          \/ gomp_work_share_end_nowait(t)

-----------------------------------------------------------------------------
\* On to the next construct of the region.
NextConstruct(t) ==
  /\ cur' = [cur EXCEPT ![t] = @ + 1]
  /\ Goto(t, IF cur[t] = Len(prog) THEN "done" ELSE "begin")

SkipBarrier(t) ==
  /\ pc[t] = "sync" /\ Construct(t).nowait
  /\ NextConstruct(t)
  /\ UNCHANGED <<prog, ws, lock, exitLock, reg, arrived, left, pieces>>

EnterBarrier(t) ==
  /\ pc[t] = "sync" /\ ~Construct(t).nowait
  /\ TeamBarrier!Arrive(t)
  /\ Goto(t, "barrier")
  /\ UNCHANGED <<prog, ws, lock, exitLock, cur, reg, pieces>>

LeaveBarrier(t) ==
  /\ pc[t] = "barrier"
  /\ TeamBarrier!Leave(t)
  /\ NextConstruct(t)
  /\ UNCHANGED <<prog, ws, lock, exitLock, reg, pieces>>

Step(t) == \/ Start(t) \/ gomp_iter_dynamic_next(t) \/ GOMP_single_start(t)
           \/ End(t) \/ SkipBarrier(t) \/ EnterBarrier(t) \/ LeaveBarrier(t)

Finished == (\A t \in Threads : pc[t] = "done") /\ UNCHANGED vars

Next == (\E t \in Threads : Step(t)) \/ Finished

Spec == Init /\ [][Next]_vars

\* Every core is clocked.  A test-and-set lock may starve a core for a while,
\* but the other cores ask for it only as often as there is work.
FairSpec == Spec /\ \A t \in Threads : WF_vars(Step(t))

-----------------------------------------------------------------------------
\* Reference definitions: the iterations of a construct, and of one piece of it.
Before(x, y, incr) == IF incr > 0 THEN x < y ELSE y < x
Iterations(from, to, incr) ==
  LET most == IF Before(from, to, incr) THEN (IF incr > 0 THEN to - from ELSE from - to) ELSE 0
  IN  {x \in {from + q * incr : q \in 0 .. most} : Before(x, to, incr)}

Work(c) == CASE c.kind = "loop"     -> Iterations(c.start, c.end, c.incr)
             [] c.kind = "sections" -> 1 .. c.count
             [] c.kind = "single"   -> {1}

Piece(c, p) == Iterations(p[1], p[2], IF c.kind = "loop" THEN c.incr ELSE 1)

TimesRun(j, x) == Cardinality({i \in DOMAIN pieces[j] : x \in Piece(prog[j], pieces[j][i])})

Labels == {"begin", "first", "peek", "bump", "work", "peeknext", "bumpnext", "end", "count",
           "countstore", "reset", "sync", "barrier", "done"}

\* The descriptor and the threads' registers keep their types.
TypeOK ==
  /\ prog \in Programs
  /\ pc \in [Threads -> Labels]
  /\ arrived \in [Threads -> Nat] /\ left \in [Threads -> Nat]
  /\ pieces \in [DOMAIN prog -> Seq(Int \X Int)]
  /\ ws \in [checkfirst : BOOLEAN, end : Int, next : Int, chunk_size : Nat,
             incr : Int, completed : 0 .. N]
  /\ lock \in {0, 1} /\ exitLock \in {0, 1}
  /\ cur \in [Threads -> 1 .. Len(prog) + 1]
  /\ reg \in [Threads -> Int]

\* No iteration, section or single body is handed out twice, and no piece
\* reaches outside its construct.
AtMostOnce ==
  \A j \in DOMAIN prog :
    /\ \A i \in DOMAIN pieces[j] : Piece(prog[j], pieces[j][i]) \subseteq Work(prog[j])
    /\ \A x \in Work(prog[j]) : TimesRun(j, x) <= 1

\* A thread past a construct that ends in a barrier finds all of it executed.
CompleteAfterBarrier ==
  \A t \in Threads : \A j \in DOMAIN prog :
    j < cur[t] /\ ~prog[j].nowait => \A x \in Work(prog[j]) : TimesRun(j, x) = 1

\* The one descriptor serves construct after construct: it is well formed, and
\* what it was used for is complete when a thread goes on behind a barrier.
DescriptorReady == TypeOK /\ CompleteAfterBarrier

\* When the region is over, every construct has been executed exactly once.
ExactlyOnce ==
  (\A t \in Threads : pc[t] = "done") =>
    \A j \in DOMAIN prog : \A x \in Work(prog[j]) : TimesRun(j, x) = 1

\* Threads that draw chunks from the descriptor at the same time share out the
\* work: no piece twice on the way, none left at the end.
SharedOut == AtMostOnce /\ ExactlyOnce

\* Every thread gets through every construct.
AllDone == <>(\A t \in Threads : pc[t] = "done")
==============================================================================
