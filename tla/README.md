# VirtualSoC: TLA+ models and proofs

VirtualSoC simulates a cluster of ARM cores in SystemC (`virtualsoc/`), with a FIR accelerator
(`fir/`), and ships the run-time software of the cluster (`virtualsoc-apps/`): an OpenMP
runtime, drivers for the devices and WCDMA demonstration programs. This directory holds TLA+
models of that code, TLC runs over small instances, and proofs checked by TLAPS. `PROJECT.json`
lists the runs, maps each definition to the lines it models, and lists hazards, findings and
theorems.

## 1. The system

### Components, their state and their operations

| component | state | operations | correct when |
|---|---|---|---|
| software barrier (`bar_sw.c`, `bar.h`) | one exit count and one arrival flag per core, in shared memory | slave enters; master waits for all, releases all | nobody leaves before all have arrived; everybody leaves; a flag of one round is never taken for another round's |
| fork/join (`team.c`, `parallel.c`, `libgomp.c`) | pool of idle cores and its count, team descriptors, current team per core, one global lock | start and end a (nested) region, dock and dispatch slaves, boot, shut down | a core serves one region; pool and count agree; a region joins before its cores are reused; the program ends |
| work sharing (`loop.c`, `iter.c`, `sections.c`, `single.c`, `work.c`) | one work-share descriptor per team under two locks | start, next and end of loops and sections, single | every iteration or section runs exactly once |
| locks (`lock.c`, `critical.c`, `ext_mem.h`) | test-and-set words, pointer to the next free word | allocate at region start, omp_init/set/unset/test_lock, critical and atomic | words are distinct; a lock excludes |
| hardware synchroniser HWS (`cl_hws.cpp`, `hws_support.c`, `bar_hws.c`) | per event: counter, expected arrivals, wake-up masks; per core: protocol state, granted events; stop lines | request, manage, release, free an event; wait on it | an event has one owner; counters match arrivals; no wake-up is lost |
| idle and wake-up (`sim_support.cpp`, `cl_hws.cpp` idle_mngr and sync_mngr, `appsupport.c`) | stop and idle flag, interrupt line per core, count of idle cores | stop, wake one or all, synchronise, stop by event | a woken core runs; a stopped one does not; all are freed together |
| DMA (`cl_dma.cpp`, `dmasupport.c`) | job table per core, scheduler position, engine, event line per core | program, trigger, poll, collect an event; schedule, read, write, complete | `dma_wait` returns after the caller's data has moved; no job is lost or overwritten; the engine never idles while a job is ready |
| TCDM, peripheral and shared instruction crossbar (`cl_lic`, `cl_pic`, `cl_xbar_sharedI`) | request table, served and busy flags, two round-robin pointers, per-slave state machines | poll, arbitrate, multicast, serve, serve pending, test and set | each request is answered once, with its own data, and eventually; a lock word has one owner |
| L3 and miss multiplexer (`cl_L3_mux_NM`, `cl_miss_mux`), refill unit (`cl_cru`) | request table per port, pollers, burst machines; shared line buffer | book, grant, burst; look up, fill, read a line | each word is the one asked for; no request is lost; a line is stored once |
| instruction cache (`cache_*`) | tags, data, ages; the fetch port | look up, refill, replace | a fetch gets what memory holds, once; the line replaced is the one the policy names |
| memories, semaphore device (`cl_memory`, `cl_semaphore`) | words | read, write, read-and-set | last write is read |
| FIR accelerator (`cl_acc`, `fir/`, `accsupport.c`) | status, sample and result words, shift register, products, adder pipeline | start, ready, push samples, read a result | each sample enters the filter once; the result is the convolution |
| shared heap (`memutils.c`) | next free address | allocate | blocks are disjoint and inside the heap |

The first stage demultiplexer, the address map, platform elaboration, the counter device,
statistics, power, option parsing, the applications and the vendored libraries are listed in
`PROJECT.json`; section 6 says why they are not modelled.

### Interactions

Cores share memory and device registers. The runtime is compiled into each core's program: its
calls are sequences of loads and stores that interleave with those of the other cores.
`libgomp` sits on the locks (semaphore words), on a barrier (`bar_sw.c`, or `bar_hws.c` when
built with `VSOC_HW_BAR`, which no makefile of the repository defines) and on the heap. A core's
port leads through the crossbars to the TCDM banks and the peripherals, its fetches through the
instruction cache (its own, or banks behind the shared crossbar), the refill unit and the L3
multiplexer to memory. The device models are SystemC threads on a clock; they meet the cores in
registers reached through the peripheral crossbar, in the stop lines (`ARM11_STOP`,
`ARM11_IDLE`) and in the DMA event lines.

### What is hard

Loads and stores of several cores interleave without caches for data but also without atomic
read-modify-write outside the semaphores. Flags are reused from barrier to barrier, and by the
docking of idle slaves. One work-share descriptor serves all constructs of a region. In the
devices, `sc_signal`s delay a write to the next delta cycle and the last write of a cycle wins,
so two threads that update the same signal can overwrite each other. The crossbars and
multiplexers are made of an arbiter, one poller per master and one state machine per slave, which
hand a request on through flags in different deltas of a cycle; some parts run on a clock of
twice the rate. The DMA engine and the cores look at the same job table in different phases. The
accelerator is driven by `sc_event`s, which are lost when nobody waits. The `hazards` of
`PROJECT.json` name the lines.

## 2. Modules

Each module's header comment says what it models. In the runtime, atomic steps are single
shared-memory or register accesses unless stated otherwise; spinning on an unchanged word is
stuttering. In the clocked modules a step is a clock edge, or one of its phases where the order
inside the edge matters, and the order is fixed where it is forced by signals, free where it is
not.

**AbstractBarrier** – what a team barrier promises, in terms of the number of barriers each
thread has entered and left.

**MSGBarrier** – `bar_sw.c`. `mem` holds the words of `SLAVE_FLAG(x)` and `MASTER_FLAG(x)` at
the offsets of `bar.h`, so that overlapping flags overlap. `MSGBarrier_SlaveEnter` is three
steps (read the start value, raise the flag, see the exit count change), `MSGBarrier_Wait` and
`MSGBarrier_Release` two steps per slave. `arrived` and `left` are history variables that are
the abstract state: `ImplementsBarrier` is `AbstractBarrier`'s specification.

**GompTeam** – boot, regions, docking and shutdown. `pool`, `idle`, `curr` and `team` are
`GLOBAL_THREAD_POOL`, `GLOBAL_IDLE_CORES`, `CURR_TEAM` and the descriptors; the word width
`PoolBits` appears in `Available`. `gomp_team_start` and `gomp_team_end` are the steps between
taking and releasing the global lock. The barrier is that of `bar_sw.c`, one slave gathered or
released per step, over the flag words `mem` at the offsets of `bar.h` as in MSGBarrier.
Parallel functions are arbitrary: they may open nested regions and call
`GOMP_barrier` equally often on all threads.

**GompWorkShare** – the threads of a team run a sequence of constructs taken from `Programs`
over the one descriptor `ws`. The load and the store of `next` and `completed` are separate
steps inside the locks. The team barrier is an instance of **AbstractBarrier**, which the
proofs show `bar_sw.c` to implement. `pieces` records what was handed out. Static loops use no
shared state and are left out.

**GompLocks** – semaphore words (a read answers and sets, a write clears), the allocator
of lock words as `team.c`, `work.c` and `lock.c` run it, and the use of the locks. `SetLock` and
`UnsetLock` are the locks of a region, addresses of words (`word`). A user lock is a variable in
ordinary memory (`var`): `omp_init_lock` stores the address of a word in it, and `omp_set_lock`,
`omp_unset_lock` and `omp_test_lock` (two steps) act on the variable, never on the word.

**HWS** – the threads `signal`, `notify` and `programme` of `cl_hws` over the signals `cur`
(read in this cycle) and `nxt` (written so far). SystemC 2.3.0 starts the threads sensitive to
one edge in the reverse order of their declaration, hence that order in `After`; it matters,
since `notify` and `programme` write whole arrays back. A core's store completes when the
device has stopped it, because the simulated core's next fetch stalls on the stop line
(libsimsoc, external). A master asks once, as `get_new_hw_event` does with `maybe_get_event`;
when it is refused, `hw_event` is `SW_BAR_ENABLE` and it goes on to `MSGBarrier_Release` and the
assert of `MANAGE_EVENT`. Slaves start docked. Left out: the event slaves dock on (the one call of
`get_event`, which repeats, `bar_hws.c:46`), mask type 2 and the global gather.

**Idle** – how a core sleeps and wakes: messages to the simulation support (`StopCore`,
`WakeUp`, `SyncCores`), which take effect between two edges, and stops and wake-ups by HWS events
(`NotifyEvent`, `woken` in `Clock`). `Edge` runs `sync_mngr` (`Scan`, `Release`), `idle_mngr`,
`signal`, `notify` and `programme` in the order the kernel starts them; `line` is the interrupt
line `slave_int` that two of them write. A core whose line is up does not fetch (libsimsoc,
external). `sent` and `idle_cores` are `sync_mngr`'s; `entered`, `left`, `rounds` and `called`
are history.

**DMA** – the registers of `cl_dma` as `dma_prog`, `dma_start` and `dma_wait`
use them, each access one step, as in `process_request`; the scheduler with its
nested search (`Search`); the transfer in three phases (source, target, completion), between
which cores reach the table. Addresses and sizes are abstracted to the tag of the request that
wrote them, so a mixture of two requests is visible. A core that waits in sleep mode stays `asleep`:
its next fetch waits for `dma_event` to fall (`mmu.tpp:1134`), and `dma_event_handler`
(`mmu.tpp:1168`), which would lower it, is not among the processes that `mmu.hpp:112` registers.
Left out: the words and bursts of a transfer, and what a core would do after waking.

**Interconnect** – one module for `cl_lic`, `cl_pic` and `cl_xbar_sharedI`, which share their
scheme; `kind` selects the differences. A cycle is a sequence of phases: at the edge `Arbiter`,
`Cores` and `Slaves`, then, in later deltas, the state machines (`Fsm`, in any order) and the
pollers (`Sample`), then new requests (`Issue`); `HalfEdge` is the edge of the double clock of
TCDM banks and caches. `table`, `idc`, `served`, `busy`, `pending`, `next` and `nextToServe` are
`req_table`, `idc_fsm`, `served`, `busy_fsm`, `pending_req` and the two pointers; `poll` is the
event each poller waits for. `holds`, `applied` and `passed` are history.

**ICache** – an instruction cache between a core's fetch port and a memory that answers bursts.
`Tick` is an edge of the cache's clock, every other one an edge of core and memory too. `rec` and
`info` hold tag, valid bit, words and the age or order of each way; a set associative fill finds
its line by looking it up, a fully associative one stores by tag, as in the code. `cfg` covers
each associativity and policy.

**Refill** – `cl_cru`, `cl_L3_mux_NM` and, as `mux = "miss"`, `cl_miss_mux`. `cru` are the state
machines of the refill unit, one per core, over the shared `buffer` and `currLine`; the
multiplexer books a master at each port it may use (`table`), grants (`idc`, `busy`) and runs a
burst machine per port. `Full` and `Half` are the edges; `Settle` is what an event sets off in
the deltas after, port by port in any order.

**Accelerator** – the thread `execute` of the slave, the threads of the two filters, and the
programs of `accsupport.c`. `Execute` is first at an edge, `Threads` second; `pipe` holds the
signals of the pipelined filter: shift register, products, levels of adders, output. `window`
records the samples pushed. `coeff` is what `set_values` leaves in the coefficients: it copies
`sizeof` a pointer.

**MSGBarrierProofs**, **GompTeamProofs**, **GompWorkShareProofs**, **GompLocksProofs**,
**DMAProofs**, **HWSProofs**, **IdleProofs**, **InterconnectProofs** – section 5.
MC modules give the constants that are not plain numbers.

## 3. Runs

All bounds are constants named in the modules; each passing run is exhaustive within them. Where
several invariants say one thing of a component from its different sides, the run checks their
conjunction, a property of its own in the module; its parts are in parentheses, next to `TypeOK`,
which each first property of a run includes except in `barrier_sw`, where `TypeOK` is proved.

| run | instance | shows |
|---|---|---|
| `barrier_sw` | 4 threads, 3 barriers, one-bit exit counts | `BarrierSafety`, `ImplementsBarrier`, and that all leave (`AllLeave`). Three rounds make every flag value come back, one bit is the narrowest count and so the one where a stale value is most easily mistaken |
| `team_regions` | 3 cores, 3 regions besides the root, up to 1 barrier in each; `DefaultMaxProc` 8, for which the flag words of 3 cores are the last to be disjoint | `CoresAccounted` (`TeamsDisjoint`, `PoolExact`), `CoresInPlace` (`RunsOwnTeam`, `ShutdownQuiet`), `JoinBeforeFree`, and that all cores stop (`AllStop`). Two nested masters compete for too few cores, and a core is freed and recruited again |
| `workshare_region` | 3 threads; every pair of 8 constructs, the second also nowait; every loop from -1..1 to -2..2 with 6 increments and 3 chunk sizes | `DescriptorReady` (`CompleteAfterBarrier`), `SharedOut` (`AtMostOnce`, `ExactlyOnce`), `AllDone`. Two constructs reuse the descriptor once; further ones repeat that step. Empty and reversed loops and remainders occur |
| `locks_regions` | 3 threads, 2 regions, 2 threads calling omp_init_lock, 1 calling omp_test_lock; all set and clear user locks | `AllocationSound` (`AllocatorExclusive`, `LocksDistinct`), `RegionExclusion`, `WordsSuffice` (the memory has exactly the words needed) |
| `hws_teams` | 2 masters, one with 2 slaves and one with none, sharing 1 event, granted or refused; 1 region each, up to 2 barriers | `CountersSound` (`CounterExact`, `AssertsHold`), `TeamsHeld` (`BarrierHolds`, `SlavesInsideRegion`), `EventsExclusive`, and that regions end unless a master is refused (`RegionsEnd`). The event changes hands, is used for two barriers and a join in a row, and is refused at each of these moments |
| `idle_all` | 3 cores, 3 synchronisations, waking by messages and by events | `SyncSound` (`SyncTogether`, `IdleCount`), `SleepsUntilWoken`, `WokenRuns`, `SyncEnds`. Three synchronisations cover the count that is cleared an edge after it was reached, twice |
| `dma_jobs` | 2 cores, tables of 2; one core polls for a job, the other programs 3, each synchronous, asynchronous or in sleep mode | `JobsKept` (`EntryKept`, `NothingLost`), `WaitMeansMoved`, `TransfersSound` (`ScheduledReady`, `TransferCoherent`, `NeverIdle`), and that a `dma_wait` that polls returns (`WaitReturns`). The table overflows, entries are reused, a core falls asleep for good while others go on |
| `interconnect_all` | 3 masters, 2 slaves, 3 words one of which is a lock; each of the three crossbars; cache banks with 0 or 2 wait states | `ListsSound` (`ListsAgree`, `RequestSeen`), `OwnAnswer`, `SemaphoresAccounted`, `Served` (`BoundedBypass`, `Answered`). Requests are unbounded; three masters are the fewest where a third arrives while one is served and one is pending |
| `icache_all` | direct, 2-way and fully associative caches of 2 to 4 lines under LRU, FIFO and RANDOM, 4 addresses of lines of 2 words, 5 fetches, 0 or 1 wait states | `StoreSound` (`LinesWhole`), `FetchRight` (`RightWord`, `HandledOnce`), `EvictsInOrder`, `Fetched`. Five fetches fill a set, evict from it, and hit or evict again; hits and fills age a set |
| `refill_all` | 2 caches and 1 data port, 2 lines of 2 words; one L3 port with a refill buffer of 1 and 2 lines, two ports with static and free mapping, and the multiplexer of cache banks | `BookingSound` (`RequestSeen`, `PortsAgree`, `LinesUnique`), `RightWord`, `Served` (`BoundedBypass`, `Answered`). One core reads a line of the buffer while the other refills it |
| `accelerator_all` | 8 setups: filters of 2, 3, 5 and 17 coefficients, words of 1 and of 4 samples, 1 to 3 cores, both filters | `ReadyForPush` (`PushTaken`, `StaysStarted`), `OutputRight`, `ProgramsGoOn` (`EveryAccessAnswered`, `WaitEnds`). 5 and 17 coefficients need two and three levels of adders, as many as the 64 of the code; powers of 3 as coefficients tell any two sums of samples 0, 1 and 2 apart |

`hws_teams` does not check for deadlock: a failed assert of `cl_hws` ends the simulation.
`AssertsHold` says that only the assert a refused master runs into fails (`Refused`), and
`RegionsEnd` that every region ends as long as no master is refused.

`LocksDistinct` sets user locks apart from region locks: `team.c` and `work.c` use `*next_lock`
after advancing it, `gomp_hal_init_lock` before, so `omp_init_lock` after a region start is given
the word of that region's work-share lock. `RegionExclusion` holds all the same, because the user
lock never uses its word. `WaitReturns` is about cores that make a bounded number of requests:
`set_next_job` is not fair (next section).

### Where the code and its documentation disagree

`accelerator_repeat` ends in a counterexample: `compute_fir` runs when `io.x` changes, and
writing the value a signal has is no change, so a sample equal to the one before it never enters
the filter, which `cl_acc.cpp` and `fir.h` describe as a shift register of the inputs.
`OutputRight` in `accelerator_all` therefore counts samples without repetitions.

These are visible in the models, and the properties are stated for what the code does:

- "Get FIR(t-6) result." (`cl_acc.cpp:262`, and again in the other branches): with
  64 coefficients the registers of `fir.h` - products, three levels of adders, output - delay the
  filter by 5 samples, and `OutputRight` follows them (`Delay`). The comment is off by one, unless it
  counts the sample just written.
- "sleep mode - core is awakened when transaction is done" (`dmasupport.c:15`), and "will be lowered
  by the core when collecting job status" (`cl_dma.cpp:516`): nothing lowers the event line, and the
  core that waits for its falling edge is not awakened.
- "2 levels round robin implementation" (`cl_dma.cpp:102`): the loop goes on after a hit, with offsets
  that then count from the core chosen. When all channels have jobs, the next core is
  `1 + 2 + ... + DMA_CHANNELS` after the last: with 2 channels the other one, with 3 the same one
  again, and with the 16 of the platform (`cl_platform_prv.h:445`) cores `s` and `s + 8` in turn, the
  other 14 never. No property claims turns; `TransfersSound` says what holds for every number of
  channels.
- "this flag is enable when HW events are over" (`SW_BAR_ENABLE`, `bar.h:35`): the join falls back on
  the software barrier, but `MSGBarrier_Release` (`bar_hws.c:118`) and `gomp_hal_barrier` go to the
  synchroniser in any case, whose assert (`cl_hws.cpp:260`) stops the simulation.
- `omp_init_lock` stores the address of a semaphore word (`lock.c:47`), which `omp_set_lock`
  (`lock.c:67`) takes for the lock itself: it spins until somebody clears the variable, and excludes
  nobody afterwards. `omp_test_lock` clears what it tests.

### Fairness

The runtime's modules assume that each core executes its next instruction eventually (weak
fairness of each thread's or core's steps): cores are simulated cycle by cycle and none is
suspended except by the stop lines, which are part of the models. The device threads run on
every clock edge (weak fairness). In HWS, a core's access to the one port of the device competes
with those of the other cores; strong fairness of a core's `Issue` or `Resume` says that the
peripheral crossbar serves each pending request in its turn; `BoundedBypass` and `Answered` of
Interconnect show that it does. Interconnect, ICache, Refill and Accelerator assume only that the
clock goes on: whether a master asks again is left to its program. Idle assumes the clock and that
a core that is not held goes on. GompLocks is checked for safety only; acquiring a test-and-set
lock is not fair in the code, and no liveness is claimed under contention except `AllStop` and
`AllDone`, where every lock is taken a bounded number of times.

## 4. What the instances leave out, and why

Some legal looking uses of the code break its promises. The instances keep off them, and each is
stated here with its line; a run that includes it ends in a counterexample.

- Teams of 18 cores or more (`bar.h:46`): `MASTER_FLAG` lies `DEFAULT_MAXPROC` *bytes*, that is 16
  words, after `SLAVE_FLAG`; two flags share a word and a slave leaves early. `FlagsDisjoint` is a
  hypothesis of the theorems of MSGBarrier and of GompTeam; with `DefaultMaxProc = 4` in
  `team_regions` `CoresInPlace` fails.
- More cores than the pool has bits (`team.c:183`): the mask of a core number beyond the width of
  the word is 0, so that core is never busy and is recruited twice. `PoolBits` is 32 here.
- A construct after a nowait one (`loop.c:186`): a fast thread completes a loop for a slow one,
  which then initialises the descriptor again and repeats it. Nowait constructs come last.
- What a user lock protects: it excludes nobody, and `omp_set_lock` spins for ever on a variable
  that holds an address (previous section). `RegionExclusion` is about the locks of regions; GompLocks
  is checked for safety.
- A team without an event after the assert: the simulation is over when a refused master has released
  its slaves (previous section). With as many events as masters nobody is refused (`EnoughEvents`);
  the platform has 16 events, one of which the dock takes, for up to 16 cores (`cl_hws.h:4`).
- Global gather (`bar_hws.c`): a core tests `GLOBAL_GATHER` and then calls `go_idle()`; the
  release can fall between the two. Not modelled.
- Collecting the event of a DMA job (`cl_dma.cpp:216`): `DMA_EVENT_JOB_ID` would clear the entry of the
  job programmed last, not of the one that finished, and after a refused request that of number -1. No
  core reads it, because none wakes; the entry of a job in sleep mode is never given back.
- Two cores that use a bank of the TCDM with a test-and-set word. Reads of the same free word in one
  cycle are multicast (`cl_lic.cpp:150`) and both cores are given the lock. `is_test_and_set` is kept per
  bank (`cl_lic.cpp:54`), so a plain read granted in the cycle in which another core asks for a
  test-and-set of that bank sets its own word; and a test-and-set that was pending is served as a plain
  read (`cl_lic.cpp:324`), which takes the lock without setting it. Two masters then own one word, and
  `OwnAnswer` fails. No exclusion is claimed of these words, and one master uses such a bank in the
  instance and in the theorems. `SemaphoresAccounted` is about the semaphores behind the peripheral
  crossbar, which has no multicast and where all masters contend.
- Wait states that are not whole cycles of the crossbar (`cl_platform_prv.h:320`): TCDM banks and
  caches count them on a clock of twice the rate, so with an odd number `ready` changes in the middle
  of a cycle, where the machine sees the edge and the core does not; `ListsSound` fails. The banks have
  none (`cl_platform_defs.h:16`), and after a refill `cache_module.cpp:103` waits once more.
- The refill unit before several L3 ports with three or more cores (`cl_cru.cpp:142`): a line of
  the buffer can be overwritten twice while a third core reads it, which is then given a word of
  another line. The instance has one port, or no refill unit.
- A fully associative cache with random replacement whose uninitialised tag equals an address in
  use (`cache_storagetypes.cpp:111`): the words of a fill go to the record found by tag, which is
  not the one the tag was written to. Tags are 9 there, which no address has. LRU and FIFO fill
  the records in the order of the search and are checked with tag 0.
- A core that stops itself after another has woken it (`sim_support.cpp:110`): `WAKE_UP` of a core
  that is not stopped leaves no trace, and the stop that follows lasts. `WokenRuns` speaks of cores
  woken while stopped. Messages and events are not mixed: waking an HWS-stopped core by message
  is outside both protocols.
- A result read sooner than the filter has shifted (`cl_acc.cpp:131`): with `FIR_4_PER_4_PUSH` the
  thread takes four clocks, and `OUTPUT` holds the result before them. `Gap` is 4 clocks from an
  answer to the core's next request, less than the call of `acc_read_word` takes; with 3, `OutputRight`
  fails. In that build each filter is used by one core: the results of two are not told apart.
- Coefficients (`fir.h:40`): `memcpy(val, values, sizeof(values))` copies the size of a pointer, two
  numbers on a 64-bit host. The others are arbitrary memory, `junk` in the setups; the convolution
  is checked with the coefficients as they are.
- More than 4000 different misses (`cache_module.cpp:209`): `miss_addr_tbl` has no bound check. It
  is a statistic and is not modelled.

## 5. Proofs

TLAPS proves the following for every value of the constants: all safety properties of `barrier_sw`,
`team_regions`, `workshare_region`, `locks_regions`, `dma_jobs`, `hws_teams` and `interconnect_all`,
and all but `WokenRuns` of `idle_all`.

**The software barrier** (`MSGBarrierProofs`), for every number of threads, flag width and number
of rounds: `BarrierTypeOK`, `BarrierHandshake`, `BarrierIsSafe`, and `BarrierRefinement`:
`Spec => ImplementsBarrier`, i.e. `bar_sw.c` implements AbstractBarrier. Assumed are
`ConstantsAssumption` and `FlagsDisjoint` (`N <= DEFAULT_MAXPROC / 4 + 1`), without which the
properties are false.
Safety is not inductive: it speaks about counts, while the code acts on flags. The inductive
invariant is `BarrierInv == TypeOK /\ HandshakeInv`. `HandshakeInv` says, for each slave, which
of four phases its handshake is in (not notified, notified, held, let go), and in each phase ties
the slave's position, its flag, its exit count relative to the start value it read, and the
rounds both sides have counted; `MasterInv` places the master's index, and `CallsInv` relates
calls and returns. Each action moves one slave to its next phase and leaves the others alone,
which needs that the flag words of different slaves are different. Safety and refinement follow
from the phases: when the master has left its wait, every slave is at least notified.

**Fork and join** (`GompTeamProofs`), for every number of cores, regions, barriers and depth of
nesting: `CoresAreAccounted`, `CoresAreInPlace` and `JoinsBeforeFree`. The hypotheses are
`N <= PoolBits`, since with more cores than bits the pool forgets cores, and `FlagsDisjoint`, since
from 18 cores on, with `DEFAULT_MAXPROC` 64, flags share words and the theorems are false (section 4).
What the three say of open regions rests on where every core is, so the inductive invariant
`TeamInv` follows each core through nested regions. `Entered(c)` are the open regions core `c` is a
thread of; `CoreInv` says that it is in the one it entered last, and is a slave only in the first.
For a region, `ShapeInv` and `ParentInv` describe the descriptor, `BossInv` where its master can be,
and `Handshake` what each slave does meanwhile: docked and gathered until it is released, busy up to
the next barrier, gathered again. That is the handshake of `bar_sw.c` once more, interleaved with
the regions that the slaves open themselves. `PoolInv` equates the pool with the slaves of the open
regions, and the idle count with the rest, except while a holder of the global lock has taken cores
out of the count and has not recruited them; `RootInv` and `IdleInv` cover boot, exit and the cores in no region.
The recruiting loop of `gomp_team_start` is a recursive function; `RecruitList` proves by induction over its
turns that it collects as many idle cores as were asked for, without repetition.

**Work sharing** (`GompWorkShareProofs`), for every number of threads and every sequence of dynamic
loops, sections and singles, whatever the bounds, strides and chunk sizes (stride not 0, chunk at
least 1; positions are whole numbers, their overflow as `int` is not modelled): `DescriptorIsReady`
and `WorkIsSharedOut`. The hypothesis `NowaitLast` keeps nowait
constructs to the end of a region (section 4), as the instance does.
The properties count executions, the code moves `next`. The inductive invariant `WorkInv` has three
layers. `PiecesInv`, for one construct: the pieces handed out start on a step of the loop, do not
overlap, and cover the iterations up to where the construct has got; this is where the chunk
arithmetic is (`ClipStep`, `Tile`: signs of products, for strides of both directions, and empty loops
canonicalised to `next == end`). `DescriptorInv`: the descriptor is inited exactly while some
construct is in use, and then holds that construct's bounds, how far it has got, and in `completed` the
number of threads through with it; `InUse(j)` says that a thread has been at it and either not all are
through or the last one of the sections is still to reset it, outside the lock. `ThreadInv`,
`BarrierInv`, `LockInv`: the team barrier keeps the threads in lockstep, so that no second construct
can be in use (`Lockstep`, `PastNotInUse`, `MineInUse`). The barrier is the abstract one that
`BarrierRefinement` shows `bar_sw.c` to implement.

**The lock words** (`GompLocksProofs`), for every number of threads, callers and regions:
`LocksTypeOK`, `AllocatorIsExclusive`, `LocksAreDistinct` and, of the three, `AllocationIsSound`;
`WordsAlwaysSuffice`, `RegionsExclude`.
The inductive invariant `AllocInv` adds to type correctness: `CallInv`, what a thread inside a call
may rely on (a core about to store `*next_lock` has its present value, so nothing was allocated in
between); `ReservedInv`, the semaphore words of allocator and region start are set while a thread
is inside; `FreshInv`, words handed out lie below the next ones by the margin their kind leaves,
and a lock about to be created has none. Distinctness then follows although the two kinds of
callers use `*next_lock` before and after advancing it. `WordsAlwaysSuffice` counts: `SpaceInv` bounds
`*next_lock` plus what the open call is still owed by the regions and the user locks created. It and
`RegionsExclude` assume `WordsFit`, four words per region and one per user lock, which the code does
not check and which is sharp up to a constant. Exclusion needs `HeldInv`, the word of a region lock
that is held is set; nothing done to user locks breaks it, also where they were given the same word.

**The DMA** (`DMAProofs`), for every number of cores, size of the job table and choice of programs:
`TypesKept`, `JobsAreKept`, `WaitsForTheMove`, `TransfersAreSound`, without hypotheses besides
`ConstantsAssumption`.
The inductive invariant `DMAInv` says of every table entry that it is free, the draft that its core
is programming field by field, or a whole job written by one request (`EntryInv`, `DraftInv`); that
core and table agree about outstanding jobs (`OutInv`, `WaitInv`); that a started request is in the table until it is moved (`LostInv`); and
that the engine works for a job that stays ready (`EngineInv`), though cores reach the table
between the phases of a transfer. The scheduler's nested search is a recursive function over pairs
of core and entry: that it ends with a ready job whenever it says so, and says so whenever there is
one, is proved by induction over its turns.

**The hardware synchroniser** (`HWSProofs`), for every number of teams, cores, events, regions and
barriers, and whether masters are granted an event or refused: `CountersAreSound`,
`EventsAreExclusive` and `TeamsAreHeld`; and `EnoughEvents`, which adds that with as many events as
masters none is refused and no assert fails at all (`Granted`, and the pigeonhole `OneIsFree`).
`ConstantsAssumption` has the size of a team fit beside the reserved bit of a counter, as `MAX_SLAVES`
(16, `cl_hws.h:5`) ensures. The inductive invariant `Invariant` is stated of the values written so
far in a clock edge (`nxt`), so that it holds between the threads too. `InStep`: a core's
next access is the one its state machine in `programme` expects, and a core is stopped only where it
waits. `Ownership`: a master owns one event from the grant to the free and none otherwise, and two masters
never the same; a refused master owns none.
`TeamSound`, of each master: outside a region its slaves are docked and the counter
of its event is full; inside, there is one barrier that every core of the team takes part in
(`Together`), the counter is the reserved bit plus the number of cores still missing at it, and the
wake-up mask is the master and the slaves that arrived with `notify_and_set`. `Signalled`: how the values of
the last edge, which a thread reads, and those written before it in this edge differ. The crux is
the edge after the last arrival: `signal` stops the last core before `notify` wakes the team
(`LastToStop`, `CompleteTeam`), so nobody is stopped after its wake-up; with the threads in another
order the invariant, and the barrier, break.

**Sleep and wake-up** (`IdleProofs`), for every number of cores and synchronisations:
`TypeCorrect`, `CountExact`, `SyncSafe` and, of the three, `SyncIsSound`; `SleepsSafe`. The inductive invariant `IdleInv` has four
parts. `CountInv`: `sync_mngr` counts each idle core once and releases only when it has counted all
(this needs that a set with as many members as there are cores is the set of all cores).
`RoundInv`: with the history `rounds`, an idle core has entered one synchronisation more than were
done and any other as many, so that nobody can be a round ahead. `LineInv`: a core that waits for
its next fetch while stopped or idle has its line up, in spite of the threads that rewrite all
lines. `SleepInv`: where an event is on its way, so that a core that sleeps has been stopped and, if
it is no longer, was woken.

**The crossbars** (`InterconnectProofs`), for every number of masters, slaves and wait states and any
programs: `ListsSoundAlways`, `OwnAnswerAlways`, `SemaphoresAccountedAlways` and, the safety half of
`Served`, `BoundedBypassAlways`. All follow from `Invariance: Spec => []Invariant`. The assumptions
are those of the model, which TLC evaluates: `ConstantsAssumption` (what the constants are) and
`UsageAssumption` (whole wait states, one master at a test-and-set bank of the TCDM, locks cleared with
0); section 4 says what goes wrong without each, except for the last, which is all that
`appsupport.c` and `lock.c` do.
The properties look at a cycle when it is over, while arbiter, machines, pollers and slaves act in
different deltas of it, so `Invariant` says at each point of a cycle (`Clock`) how far every slave has
got. `ListInv` ties `table`, `idc`, `busy`, `pending` and the machine's state together. A slave that is
at work goes through four stages: `Asked` (the machine has put the word before it), `Made` (the slave has
done the access and the machine has not seen it), `Told` (`ready` is passed on), `Lowered`. `SlaveInv`
places them in the cycle, with the parity of the wait states where the clock is double; `WordInv` says
that the word before the slave is the one of every master in `idc`, several only for equal reads;
`ServedInv` says for each of them whether it has been answered, and how often its word was
accessed; `ValueInv` compares memory, bus and port at each stage, which is where a test-and-set, two
accesses under one request, is one. `MasterInv` follows a request through poller, `req` and `served`.
`LockInv` says that a set word has an owner, in the stages between the read and the knowledge of it
too. `PassInv` is the argument for round robin: the way from the machine's pointer to a waiting
master (`Way`) shrinks with every grant of the machine, which goes by its own pointer `next`
(`FirstIn`, `PlaceDrops`), and the arbiter, which goes by `nextToServe`, grants only when the slave is
idle, when nobody has waited yet; so it does not matter that one pointer overwrites the other.

**Loops.** The library's induction theorems take operators as parameters, which the provers cannot
instantiate. The first lemmas of `DMAProofs` and `GompTeamProofs` state what is needed with sets and
functions instead: a set that holds 0 and the successors of its members holds all numbers up to `n`
(`SetInduction`, from the well-foundedness of the naturals), and a loop of `n` turns whose body is a
function has a sequence of values (`Loop`), which is how the recursive functions of the models are
unfolded.

Only model-checked: ICache, Refill and Accelerator, all of them; and liveness everywhere (fairness
and `ENABLED` are outside the proof system): `AllLeave`, `AllStop`, `AllDone`, `RegionsEnd`, `SyncEnds`,
`WaitReturns`, `Answered`, and `WokenRuns`, which promises that a woken core runs. Next to prove would be
`BookingSound` of the refill unit, whose multiplexer is like the crossbars, and `StoreSound` of the
instruction cache.

## 6. Not modelled

- *Network interface multiplexer* (`cl_NI_mux`): no platform instantiates it. `cl_sync_handler` is
  used only under `#if 0` (`cl_platform_prv.h:213`).
- *First stage demultiplexer and address map*: range tests without state; Interconnect starts where
  a request has been routed, with `BankOf` as the result.
- *Shared heap*: a bump allocator under one lock, the scheme of the lock words.
- *Platform elaboration*: binds signals at start-up, no behaviour after it.
- *Counter, statistics, power, options, main*: no state other parts read. `Statistics::quit` stops
  the simulation when every core has left.
- *Applications*: demonstration programs; `wcdma_hw_para` uses `SET_LOCK`, declared nowhere.
- *Vendored SystemC, libsimsoc, DRAMSim2*: third-party code, by far most of the repository's lines. The models take from
  them the scheduling of threads, the stall of a fetch on the interrupt line and the core's port.
- Inside modelled parts: fixed priority and custom delays of the crossbars, bursts behind the
  peripheral crossbar, byte and halfword accesses, the words and bursts of a DMA transfer and its
  remainder of one to three bytes (`cl_dma.cpp:331`, which is computed and never copied), waking
  from a DMA event through `dma_event_handler` (never registered as a process), two-word masks of the
  HWS, dynamic coefficients of the filter. Each component's note in `PROJECT.json` says which.
