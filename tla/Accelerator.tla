---------------------------- MODULE Accelerator ----------------------------
(***************************************************************************)
(* The FIR accelerator of the cluster (cl_acc.cpp), its two pipelined      *)
(* filters (fir.hpp, adder.hpp) and the programs that use it               *)
(* (accsupport.c): acc_start, acc_wait, then samples are pushed and        *)
(* results read.                                                           *)
(*                                                                         *)
(* A clock edge has two steps: the thread "execute" of the slave, which    *)
(* runs first, and then the threads of the filters (Threads).  Requests    *)
(* come between two edges; the peripheral interconnect, which orders them, *)
(* is modelled in module Interconnect.                                     *)
(***************************************************************************)
EXTENDS Naturals, Sequences, SequencesExt

CONSTANTS Setups, \* records [taps, push, users, starters, words, values, junk, raw]: the
                  \* number of coefficients, samples of a push (1, or 4 with
                  \* FIR_4_PER_4_PUSH), the filters each core uses, the cores that call
                  \* acc_start, the words pushed, the coefficients given, what the memory of
                  \* the coefficients may hold before, and whether all samples are recorded
          Gap     \* clocks from an answer to the next request of the same core

ASSUME ConstantsAssumption ==
  /\ Gap \in Nat
  /\ \A s \in Setups : /\ s.taps \in Nat \ {0, 1} /\ s.push \in {1, 4} /\ s.raw \in BOOLEAN
                       /\ \A w \in s.words : Len(w) = s.push
                       /\ \A c \in DOMAIN s.users : s.users[c] \subseteq {1, 2}

VARIABLES
  setup, phase,
  core,           \* core[c]: [at, wait, op, gap, begun]; at is its place in the program
  exec,           \* thread execute: [at, c, op, data]
  status,         \* status, without the prefix CL_ACC_
  input, output,  \* the words of acc_memory at INPUT1/2_ADDR and OUTPUT1/2_ADDR
  fir,            \* threads acc_processing_fir1/2: [on, rest]
  coeff, pipe,    \* fir_module_1/2: coeff and the signals [x, sr, prod, level, y]
  \* history
  window,         \* samples of the pushes taken, newest first, without those equal to the one before
  all             \* all of them, if setup.raw

vars == <<setup, phase, core, exec, status, input, output, fir, coeff, pipe, window, all>>

Filters == {1, 2}
Cores == DOMAIN setup.users
Zeros(n) == [i \in 1 .. n |-> 0]
Plus(a, b) == a + b
Sum(v) == FoldSeq(Plus, 0, v)

\* Sizes of the levels of an adder of n numbers: one sum for each four.
LevelSizes[n \in Nat] ==
  IF n <= 4 THEN <<1>> ELSE <<(n + 3) \div 4>> \o LevelSizes[(n + 3) \div 4]

\* From a sample entering the filter to the result it first contributes to:
\* the levels of the adder, the products and the output are registers.
Delay(s) == Len(LevelSizes[s.taps]) + 2

\* set_values: memcpy of sizeof(values), the size of a pointer: two numbers.
Copied == 2
SetValues(values, old) == [i \in DOMAIN old |-> IF i <= Copied THEN values[i] ELSE old[i]]

Init ==
  /\ setup \in Setups /\ phase = "execute"
  /\ core = [c \in Cores |-> [at |-> IF c \in setup.starters THEN "start" ELSE "run", wait |-> FALSE, op |-> <<>>, gap |-> 0, begun |-> {}]]
  /\ exec = [at |-> "idle", c |-> 0, op |-> <<>>, data |-> 0]
  /\ status = "STOP"
  /\ input = [f \in Filters |-> <<>>] /\ output = [f \in Filters |-> 0]
  /\ fir = [f \in Filters |-> [on |-> FALSE, rest |-> <<>>]]
  /\ coeff \in [Filters -> {SetValues(setup.values, junk) : junk \in setup.junk}]
  /\ pipe = [f \in Filters |->
       [x |-> 0, sr |-> Zeros(setup.taps), prod |-> Zeros(setup.taps), y |-> 0,
        level |-> [k \in 1 .. Len(LevelSizes[setup.taps]) |-> Zeros(LevelSizes[setup.taps][k])]]]
  /\ window = [f \in Filters |-> Zeros(setup.taps + Delay(setup))]
  /\ all = window

------------------------------------------------------------------------------
\* The filters.

\* One level of the adder: the sum of each four operands.
Quarter(v) ==
  [i \in 1 .. (Len(v) + 3) \div 4 |-> Sum(SubSeq(v, 4 * i - 3, IF 4 * i < Len(v) THEN 4 * i ELSE Len(v)))]

Shifted(v, s) == <<s>> \o Front(v)

\* Mutant: the products use the new sample.
Bug_Products(p, c, s) == [i \in DOMAIN c |-> Shifted(p.sr, s)[i] * c[i]]

Products(p, c, s) == [i \in DOMAIN c |-> p.sr[i] * c[i]]

\* compute_fir reads the values before this sample; it runs when x changes.
Shift(p, c, s) ==
  IF s = p.x THEN p
  ELSE [x |-> s,
        sr |-> Shifted(p.sr, s),
        prod |-> Products(p, c, s),
        level |-> [k \in DOMAIN p.level |-> Quarter(IF k = 1 THEN p.prod ELSE p.level[k - 1])],
        y |-> Last(p.level)[1]]

\* The threads of the filters in the rest of an edge; a pushed word is shifted
\* in one sample a clock, and then the result is stored.
Threads ==
  LET feeding == {f \in Filters : fir[f].on /\ fir[f].rest # <<>>}
      ending == {f \in Filters : fir[f].on /\ fir[f].rest = <<>>}
  IN /\ phase = "threads" /\ phase' = "execute"
     /\ pipe' = [f \in Filters |-> IF f \in feeding THEN Shift(pipe[f], coeff[f], Head(fir[f].rest)) ELSE pipe[f]]
     /\ output' = [f \in Filters |-> IF f \in ending THEN pipe[f].y ELSE output[f]]
     /\ fir' = [f \in Filters |->
          CASE f \in feeding -> [fir[f] EXCEPT !.rest = Tail(@)]
            [] f \in ending -> [fir[f] EXCEPT !.on = FALSE]
            [] OTHER -> fir[f]]
     /\ status' = IF ending = {} THEN status ELSE "INACTIVE"
     /\ core' = [c \in Cores |-> [core[c] EXCEPT !.gap = IF @ = 0 THEN 0 ELSE @ - 1]]
     /\ UNCHANGED <<setup, exec, input, coeff, window, all>>

------------------------------------------------------------------------------
\* The programs.


Request(c, op) ==
  /\ ~core[c].wait /\ core[c].gap = 0
  /\ core' = [core EXCEPT ![c].wait = TRUE, ![c].op = op]
  /\ UNCHANGED <<setup, phase, exec, status, input, output, fir, coeff, pipe, window, all>>

\* acc_start, acc_wait and acc_init_start.
Begin(c) ==
  /\ core[c].at # "run"
  /\ Request(c, CASE core[c].at = "start" -> <<"START", 1>>
                  [] core[c].at = "ready" -> <<"READY">>
                  [] core[c].at = "init" -> <<"START", 0>>)

\* acc_write_word to an input.
Push(c, f, word) ==
  /\ phase = "execute" /\ core[c].at = "run"
  /\ Request(c, <<"WRITE", f, word>>)

\* acc_read_word of the output of a filter that has been pushed to.
Fetch(c, f) ==
  /\ phase = "execute" /\ core[c].at = "run" /\ f \in core[c].begun
  /\ Request(c, <<"READ", f>>)

\* The request is answered; the program goes on, acc_wait until it reads true.
Answered(c, data) ==
  core' = [core EXCEPT
    ![c].wait = FALSE, ![c].op = <<>>, ![c].gap = Gap,
    ![c].begun = IF exec'.at = "low" /\ exec'.op[1] = "WRITE" THEN @ \union {exec'.op[2]} ELSE @,
    ![c].at = CASE @ = "start" -> "ready"
                [] @ = "ready" /\ data = 1 -> "init"
                [] @ = "init" -> "run"
                [] OTHER -> @]

------------------------------------------------------------------------------
\* The thread execute, with its clock edges: "idle" and "last" are those at
\* which it may take a request.

Step(at) == phase = "execute" /\ exec.at = at /\ phase' = "threads"
Short(c, op) == exec' = [at |-> "short", c |-> c, op |-> op, data |-> 0]

\* A request is there; the interconnect takes turns.
Turn(c) == (c + Len(setup.users) - exec.c - 1) % Len(setup.users)
Take(c) ==
  /\ phase = "execute" /\ exec.at \in {"idle", "last"} /\ phase' = "threads"
  /\ core[c].wait /\ \A d \in Cores : core[d].wait => Turn(c) <= Turn(d)
Present == IF exec.at = "last" THEN "INACTIVE" ELSE status

Nothing ==
  /\ phase = "execute" /\ exec.at \in {"idle", "last"} /\ phase' = "threads"
  /\ \A c \in Cores : ~core[c].wait
  /\ exec' = [exec EXCEPT !.at = "idle"]
  /\ status' = Present
  /\ UNCHANGED <<core, input, fir>>

\* Not started: the handshake, but no access.
Refused(op) == Present = "STOP" /\ op[1] \notin {"START", "READY"}
Refuse(c) ==
  /\ Take(c) /\ Refused(core[c].op)
  /\ Short(c, core[c].op) /\ Answered(c, 0)
  /\ UNCHANGED <<status, input, fir>>

\* Mutant: only the state INACTIVE is ready.
Bug_ReadyData == IF Present = "INACTIVE" THEN 1 ELSE 0

ReadyData == IF Present \in {"INACTIVE", "START"} THEN 1 ELSE 0
Ready(c) ==
  /\ Take(c) /\ core[c].op[1] = "READY"
  /\ Short(c, core[c].op) /\ Answered(c, ReadyData)
  /\ status' = Present
  /\ UNCHANGED <<input, fir>>

Started(on) == IF on = 1 THEN "START" ELSE "INACTIVE"
Start(c) ==
  /\ Take(c) /\ core[c].op[1] = "START"
  /\ Short(c, core[c].op) /\ Answered(c, 0)
  /\ status' = Started(core[c].op[2])
  /\ UNCHANGED <<input, fir>>

Lower ==
  /\ Step("short") /\ exec' = [exec EXCEPT !.at = "idle", !.op = <<>>]
  /\ UNCHANGED <<core, status, input, fir>>

Changes(w, s) == IF s = Head(w) THEN w ELSE <<s>> \o Front(w)
Every(w, s) == <<s>> \o Front(w)
Record(f, word) ==
  /\ window' = [window EXCEPT ![f] = FoldLeft(Changes, @, word)]
  /\ all' = IF setup.raw THEN [all EXCEPT ![f] = FoldLeft(Every, @, word)] ELSE all

\* A read or a write: the access at the next edge, the answer one later, with
\* the event of the filter whose input was written, and two edges to the end.
Access(c) ==
  /\ Take(c) /\ core[c].op[1] \in {"READ", "WRITE"} /\ ~Refused(core[c].op)
  /\ exec' = [at |-> "access", c |-> c, op |-> core[c].op, data |-> 0]
  /\ status' = core[c].op[1]
  /\ IF core[c].op[1] = "WRITE" THEN Record(core[c].op[2], core[c].op[3]) ELSE UNCHANGED <<window, all>>
  /\ UNCHANGED <<core, input, fir>>

ReadMem ==
  /\ Step("access") /\ exec.op[1] = "READ"
  /\ exec' = [exec EXCEPT !.at = "answer", !.data = output[exec.op[2]]]
  /\ UNCHANGED <<core, status, input, fir>>

WriteMem ==
  /\ Step("access") /\ exec.op[1] = "WRITE"
  /\ exec' = [exec EXCEPT !.at = "answer"]
  /\ input' = [input EXCEPT ![exec.op[2]] = exec.op[3]]
  /\ UNCHANGED <<core, status, fir>>

\* Mutant: four zeros after each word, to get its result out of the pipeline.
Bug_Feed(f) == input[f] \o Zeros(4)

\* What the thread of f shifts in, the most significant byte first.
Feed(f) == input[f]

\* An event finds its thread waiting for it, or is lost.
Notify(f) ==
  fir' = IF fir[f].on THEN fir ELSE [fir EXCEPT ![f] = [on |-> TRUE, rest |-> Feed(f)]]

Reply ==
  /\ Step("answer") /\ exec' = [exec EXCEPT !.at = "low"]
  /\ Answered(exec.c, exec.data)
  /\ IF exec.op[1] = "WRITE" THEN Notify(exec.op[2]) ELSE UNCHANGED fir
  /\ UNCHANGED <<status, input>>

Low ==
  /\ Step("low") /\ exec' = [exec EXCEPT !.at = "last", !.op = <<>>, !.data = 0]
  /\ UNCHANGED <<core, status, input, fir>>

Execute ==
  /\ \/ \E c \in Cores : Access(c)
     \/ /\ \/ Nothing \/ Lower \/ ReadMem \/ WriteMem \/ Reply \/ Low
           \/ \E c \in Cores : Refuse(c) \/ Ready(c) \/ Start(c)
        /\ UNCHANGED <<window, all>>
  /\ UNCHANGED <<setup, output, coeff, pipe>>

Next ==
  \/ Execute \/ Threads
  \/ \E c \in Cores :
       \/ Begin(c)
       \/ \E f \in setup.users[c] : Fetch(c, f) \/ \E word \in setup.words : Push(c, f, word)

\* The clock runs, and a program that has started the accelerator waits for it.
Spec == Init /\ [][Next]_vars /\ WF_vars(Execute) /\ WF_vars(Threads)
             /\ \A c \in {1, 2, 3} : WF_vars(c \in Cores /\ Begin(c))

------------------------------------------------------------------------------
\* The status words, the threads and the shape of the pipelines.
TypeOK ==
  /\ setup \in Setups /\ phase \in {"execute", "threads"}
  /\ status \in {"INACTIVE", "READ", "WRITE", "START", "STOP"}
  /\ exec.at \in {"idle", "short", "access", "answer", "low", "last"}
  /\ \A c \in Cores : core[c].gap \in 0 .. Gap /\ core[c].begun \subseteq setup.users[c]
  /\ \A f \in Filters :
       /\ Len(fir[f].rest) <= setup.push /\ (fir[f].rest # <<>> => fir[f].on)
       /\ Len(pipe[f].sr) = setup.taps /\ Len(pipe[f].prod) = setup.taps
       /\ Len(Last(pipe[f].level)) = 1

\* The filter of the samples w, Delay samples ago.
Filtered(w, c) == Sum([i \in DOMAIN c |-> c[i] * w[Delay(setup) + i]])
Reading == exec.at = "answer" /\ exec.op[1] = "READ"

\* A core that reads a result gets the convolution of all it has pushed before,
\* the last push included, at the fixed delay of the pipeline: the filter's
\* thread has finished by then, no push was lost and the other filter and the
\* other cores do not disturb it.  Samples equal to the one before do not count:
\* compute_fir is sensitive to changes of x only.
OutputRight == Reading => exec.data = Filtered(window[exec.op[2]], coeff[exec.op[2]])

\* "Get FIR(t-6) result" (cl_acc.cpp), with a shift register of the inputs
\* (fir.h): the result is the filter of the samples pushed, at a fixed delay.
OutputOfAllSamples == Reading => exec.data = Filtered(all[exec.op[2]], coeff[exec.op[2]])

\* The event of a push finds the thread of the filter waiting for it; an event
\* that comes while the thread still shifts the last word would be lost.
PushTaken ==
  exec.at = "answer" /\ exec.op[1] = "WRITE" /\ phase = "execute" => ~fir[exec.op[2]].on

\* Once a core has started the accelerator no access is ignored, although each
\* other core that comes through acc_wait writes false to the start register
\* and the filters' threads write the status too.
StaysStarted == (\E c \in setup.starters : core[c].at # "start") => status # "STOP"

\* The threads of the filters and the accesses of other cores leave a started
\* accelerator ready for the next push.
ReadyForPush == TypeOK /\ PushTaken /\ StaysStarted

\* The access of a core is answered, whatever the others do.
EveryAccessAnswered == \A c \in {1, 2, 3} : (c \in Cores /\ core[c].wait) ~> ~(c \in Cores /\ core[c].wait)

\* acc_wait comes to its end, also when others read, write and start meanwhile.
WaitEnds == \A c \in {1, 2, 3} : (c \in Cores /\ core[c].at = "ready") ~> (c \in Cores /\ core[c].at = "run")

\* No program is stuck in an access, or in its loop of accesses.
ProgramsGoOn == EveryAccessAnswered /\ WaitEnds
=============================================================================
