# A TLA+ model of the scheduler kernel

This directory holds TLA+ specifications of the teaching kernel in `src/sched`
(a JOS-derived multiprocessor kernel with round-robin and priority scheduling,
sleeping, priorities with aging, scheduler statistics and threads) and of the
libraries its programs use, the TLC
configurations that check them, and TLAPS proofs of the safety properties.

## The system

| Part | State | Operations | Modelled in |
| --- | --- | --- | --- |
| Environments (`kern/env.c`) | `envs[]`, `env_free_list`, `pp_ref` of page directories | `env_alloc`, `env_create`, `env_free`, `env_destroy`, `env_run`, `envid2env` | `Kernel` |
| Scheduling policy (`kern/sched.c`) | `env_priority`, `env_wait_ticks` | `sched_yield` (two policies chosen at build time), aging | `SchedPolicy`, used by `Kernel` and `Aging` |
| Idle CPUs (`kern/sched.c`) | `cpu_status`, `curenv`, `cr3` | `sched_halt`: `hlt` or the monitor | `Kernel` |
| Traps (`kern/trap.c`) | `ticks`, the LAPIC's pending acknowledgement | timer interrupt, reaping of zombies, return to user mode | `Kernel` |
| System calls (`kern/syscall.c`) | fields of `struct Env` | yield, sleep, IPC, exofork, set_status, destroy, setpriority, thread_create | `Kernel` |
| Start-up (`kern/init.c`, `kern/mpentry.S`) | everything, initially; `mpentry_kstack` | `i386_init`, `boot_aps`, `mp_main` | `KernelLock`; as `Init` and `Boot` in `Kernel` |
| Statistics (`kern/sched.c`) | `sched_env_stats`, `sched_prio_ticks`, `sched_history`, `sched_running_*` | `sched_run`, `sched_account_cputicks`, `sched_print_stats` | `SchedStats` |
| Big kernel lock (`kern/spinlock.c`) | `kernel_lock` | `lock_kernel`, `unlock_kernel`, `holding` | `KernelLock`; as the atomicity of steps in `Kernel` |
| Memory (`kern/pmap.c`) and memory system calls | page tables, `pp_ref`, free pages | `page_alloc`, `page_insert`, `sys_page_*`, page transfer of IPC | `Pmap` (`Kernel` keeps page directories only) |
| Copy-on-write fork (`lib/fork.c`, `pgfault.c`, `pfentry.S`, `page_fault_handler()`) | page tables with `PTE_COW`, TLBs, upcalls | `fork`, `fork_v0`, `pgfault` | `Fork`, which implements `PrivateMemory` |
| IPC and threads (`lib/ipc.c`, `lib/thread.c`) | `env_ipc_*`, `nthreads`, stacks | `ipc_send`, `ipc_recv`, `thread_create` | `UserLib` |
| Console (`kern/console.c`, `lib/readline.c`) | input buffer, modifiers, display | `cons_getc`, `cga_putc`, `readline` | `Console` |
| Debug information, formatting, devices | tables | | not modelled |

The parts interact by calls and through `envs[]`. A CPU enters the kernel by a
trap (or by the end of its start-up code), takes the big kernel lock, runs one
handler to its end, and leaves through `env_run()` or `sched_halt()`, which
release the lock. Nothing in the kernel blocks while it holds the lock, and
interrupts are off, so one visit to the kernel is atomic with respect to the
other CPUs. What the CPUs do *between* visits matters: an environment that is
destroyed while another CPU runs it stays there, as a zombie, until that CPU's
next trap; a CPU may be halted; and the page directory a CPU has loaded stays
loaded. `Kernel` takes the atomicity of visits for granted; `KernelLock` goes
through a visit step by step and is proved to implement `Kernel`.

Programs run between visits, on several CPUs, and a library call that makes
several system calls can be overtaken at each of them: by the child of a
`fork()` in progress, by a sibling thread, by the other end of an IPC.

What is hard in this code:

* destroying an environment, or a process with threads, while other CPUs run it;
* slots of `envs[]` that are recycled, with ids that have to tell their users
  apart and fields that must not be inherited by accident;
* one page directory shared by a process and its threads and loaded on several
  CPUs;
* waking sleepers on time from any CPU, also when every CPU is idle;
* fairness: round robin when environments come and go, and aging with a bonus
  that saturates;
* statistics kept per slot and charged after the fact;
* a lock whose checks read it without holding it, start-up code that hands out
  stacks through one variable, and what `env_run()` writes after the unlock;
* copy-on-write with page faults in the middle of `fork()` itself, memory that
  runs out at any call, and stale translations;
* retries, failed calls that have to clean up, and counters that threads share;
* an input ring that overflows, and modifier keys released while nobody reads.

`PROJECT.json` lists these hazards at their lines, each with the properties that
would catch it going wrong.

## The modules

**`SchedPolicy`** has no state: it defines, over a value `es` of the table, which
environment `sched_yield()` picks (`RoundRobinPicks`, `PrioritiesPick`), what
the aging loop does (`Aged`) and what `env_run()` does to the statuses
(`EnvRun`). `env_wait_ticks` is counted up to `WaitCap`, beyond which the bonus
it is used for no longer changes.

**`Kernel`** is the multiprocessor kernel. Variables: `envs` (one record per
slot: generation, status, type, parent, page directory, wakeup time, receive
flag, priority, wait counter), `env_free_list`, and per CPU `curenv`,
`cpu_mode` (`boot`, `user`, `halted`, `monitor`), `cr3` and `eoi_pending`;
`pp_ref` counts the references to page directories and `ticks` is the clock.
An `env_id` is a pair of slot and generation. Each action is one visit to the
kernel: it builds the table `es` that the handler leaves and ends in
`SchedYield` (the rest is `sched_yield()`) or `TrapReturn` (the end of
`trap()`), so the scheduling decision is part of the handler. `AfterFree`,
`FreeListAfterFree` and `RefsAfterFree` are `env_free()` of an environment with
its threads. The system calls are split into those that the programs and
libraries of the repository make (`Calls`) and those the kernel accepts but no
program makes (`RawCalls`): setting the status of an arbitrary child, receiving
with an invalid address, destroying a zombie again, destroying a single thread.

**`KernelLock`** extends `Kernel` and refines it. A program counter per CPU takes
the place of the one-step visit: power-on, `lock_kernel()` (the two reads of
`holding()`, the `xchg`, the write of the owner), the handler, the pieces of
`sched_yield()` and `env_run()`, the two writes of `spin_unlock()`, and the write
of `env_cpunum` that follows it. `boot_aps()` starts one CPU after the other,
handing over the stack in `mpentry_kstack`. The variables of `Kernel` are here the
memory as it is in the middle of a visit; the history variable `committed` is a
copy taken whenever a visit ends, and it is `committed` that behaves like `Kernel`
(`ImplementsKernel`). The handlers are those whose interleaving with the lock
matters: the timer, fork, destroy, exit, the zombie and calls that change nothing.

**`Aging`** is the priority policy alone, on one CPU with a fixed population:
each step is one scheduling decision or one wakeup. It uses the operators of
`SchedPolicy`, so it can be run with the real constants (15 and 4).

**`SchedStats`** is the bookkeeping of `sched_run()`; it leaves open which
environment is picked. The history variables `log`, `used` and `printed` record
what really happened.

**`Pmap`** is `kern/pmap.c` with the memory system calls, IPC with pages and the
memory side of `env_alloc()` and `env_free()`. Its variable `mem` holds the
reference counts, the free list (as a set: any free page may be next), and the
contents of page directories and page tables, which live in physical pages like
all the rest. The functions of `pmap.c` are operators that take and return a
value of `mem` (`PageAlloc`, `PageDecref`, `PgdirWalk`, `PageRemove`,
`PageInsert`), composed in the order of the code; the sweep of `env_free()` is
written in one step (`Sweep`). Scheduling is left open: whoever is `READY` may
make a call, and one that is destroyed may or may not be running elsewhere. A
page-table entry is a page and a write bit. A `perm` argument is a write bit and
the bits of an address in it (`Perms`), which `page_insert()` ORs into the entry like
the rest: `env_page_alloc()` calls `check_perm()` and `env_page_map()` does not. What
ORing them makes of the address of a page is a constant (`PermAddrs`), empty when
programs pass flags only (`ProgramPerms`). The read of the uninitialized
`srcpte` in `sys_ipc_try_send()` is a choice between its outcomes, except for a
page fault in the kernel, which would stop the system.

**`Fork`** has processes of one thread each, over page tables, the translations
their CPU has cached, and the contents of pages. A step is a memory access, a
page fault or one system call of `fork()`, `fork_v0()`, `pgfault()` or
`set_pgfault_handler()`; each call can fail for lack of memory, and then the code
panics, ignores it, or goes on without a handler, as the source does. A panic
leaves the process in the kernel's monitor, which never gives the lock back: from
then on only steps in user space happen (`InMonitor`). The address space is
`UTEMP`, `PFTEMP`, data pages, one stack page and the exception stack.
**`PrivateMemory`** is what `fork()` promises: a child starts with a copy of its
parent's memory, and only a process's own stores change its memory. `Fork`
implements it (`ForkCopies`) when the memory of a process is what its CPU reads,
through cached translations first, and a `fork()` happens at the step that starts the child.

**`UserLib`** has a process with threads, and its peers. `thread_create()` is split
at each of its system calls and at the load and the store of `nthreads++`;
`ipc_send()` is its retry loop, `ipc_recv()` the system call and then one step for
each read of `thisenv`'s fields. The history variables `inbox` and `raced`
record what was delivered, and whether two calls of `thread_create()` overlapped.

**`Console`** has the keyboard controller's queue and the serial port on one side
and the text display on the other, with `kbd_proc_data()`, `cons_intr()`,
`cons_getc()`, `cga_putc()` and `readline()` between them. `cons_getc()` is a step for each byte
it reads from the serial port and then from the keyboard (`polling`), and a last one
that takes a character out of the buffer. Characters are ASCII
codes and carry, in the buffer, the number of their arrival (history). A key of
each kind stands for the key maps. Since `trap_init()` sets up no gate for the
keyboard, a key that is pressed while a program runs destroys that program
(`KbdInterrupt`).

`MCKernel`, `MCAging`, `MCPmap` and `MCFork` add what the configurations need.

The proofs have a module for each component: `KernelProofs` (types, environments,
CPUs, threads, page directories, sleeping), and on top of it `KernelLockProofs` (the
lock, visits), `ForkProofs`, `UserLibProofs`, `PmapProofs`, `AgingProofs`,
`SchedStatsProofs` and `ConsoleProofs`.

## What TLC checks

Passing runs:

| Run | Instance | Shows |
| --- | --- | --- |
| `kernel_life` | 2 CPUs, 3 slots, 3 pages, 2 generations, round robin; fork, threads, exit, destroy, yield | Table, free list, page directories and CPUs stay consistent; threads have owners; nobody can free a process it is a thread of |
| `kernel_block` | 2 CPUs, 3 slots, priorities; sleep, IPC, fork, destroy, threads, priority changes | Types; nobody blocked for two reasons; sleepers neither overdue nor early |
| `kernel_live` | 2 CPUs, 4 environments that sleep, yield, set their own status and make receives that fail; fairness | Every sleeper wakes up; every ready environment runs |
| `aging` | 4 environments that block at will, every assignment of priorities 0..2, threshold 3 | Nobody waits more than `WaitCap + NENV - 2` decisions, so nobody starves; no inversion |
| `lock` | 3 CPUs from power-on, 2 slots; fork, destroy, exit, timer; fairness of each CPU | The lock excludes and its checks never fire; stacks are distinct; `env_cpunum` is right; the monitor is entered alone; nothing is written without the lock; the lock comes back; visits are atomic |
| `fork` | 2 processes, 5 pages, 1 data page, 2 values | No page shared and writable; the exception stack is private; one fault per write; `Fork`, stale translations included, implements `PrivateMemory` |
| `userlib` | a process with 2 threads to start, 1 peer, 3 environments at a time; fairness | Stacks private and not left behind; no message lost or misread; receivers are served |
| `console` | 2x2 display, buffer of 3, lines of 3, letter, shift, right control, 5 inputs | No write behind the display; the newest input kept, in order; no stuck modifier; the display shows the line |
| `pmap` | 2 environments, 5 pages, 3 addresses in 2 page tables; every memory call, IPC with pages, threads, death | Reference counts exact; nothing freed in use; nothing lost but by a failed `env_page_alloc()`; no access widened; a thread's death leaves memory alone |
| `stats_tables` | 2 slots, recycling, idling, priority changes, history of 2 | Tables agree across recycled slots, history right across the wrap, charges exact but for idle ticks |

Runs that show the code disagreeing with what it says of itself (the quotations
are under `findings` in `PROJECT.json`):

| Run | Shows |
| --- | --- |
| `kernel_timer_lost` | A timer interrupt that finds a zombie is never acknowledged; that CPU gets no further timer interrupt |
| `aging_starve` | Seven environments are enough for the lowest priority to starve |

Further disagreements that the model shows with other constants, and that
no configuration here repeats:

* `sys_page_map()` does not check `perm` (syscall.c:302, env_page_map() at 62-73), and
  `page_insert()` ORs all of it into the entry (pmap.c:501), against syscall.c:262 ("Perm
  has the same restrictions as in sys_page_alloc") and 272 ("-E_INVAL if perm is
  inappropriate"). With bits of an address in it the entry refers to a page that is not
  counted, `pp_ref` is raised for another, and a later `page_remove()` gives up a
  reference that was never taken: with `Pages <- PageNumbers`, `PermAddrs <- LowestBit`
  of `MCPmap` and one environment, `RefsExact` of `Pmap` fails at the first such call, against
  memlayout.h:182, and so do `PagesAccountedFor`, `KernelPagesPrivate` and
  `WriteIsNotGranted`. The programs of the repository pass flags only (`ProgramPerms`).
* `sys_env_set_status()` writes `ENV_RUNNABLE` over `ENV_RUNNING` (syscall.c:195):
  with two CPUs, `Calls = {"fork"}` and `RawCalls = {"set_status"}`,
  `RunsOnOneCpu` fails, against the comment at sched.c:303.
* `sys_ipc_recv()` with an invalid address fails with the receive flag set
  (syscall.c:429), so that a later send makes a running environment ready, against
  syscall.c:357: with `Calls = {"ipc"}` and `RawCalls = {"recv_invalid"}`,
  `BlockedForOneReason` fails, and on two CPUs `RunsOnOneCpu`.
* `env_destroy()` of a thread that is already a zombie on another CPU frees it at
  once (env.c:510): with `RawCalls = {"destroy_zombie", "destroy_thread"}`,
  `PgdirRefs` fails (a CPU runs on a page directory that has been given back),
  against informe.md:640.
* `ticks + n` that wraps to exactly 0 means "not sleeping" (syscall.c:456): with
  `TickMod = 4`, `LastTick = 4` and `SleepArgs = {1, 3}` a sleeper is never woken up.
* After every exit the round-robin scan restarts at slot 0 (env.c:518, sched.c:300):
  with fork and exit among the calls, churn in low slots starves a high one and
  `ReadyRuns` fails, against src/README.md:66.
* `env_page_alloc()` (syscall.c:57) loses its page when the page table cannot be
  allocated, against the comment at syscall.c:246: `NoPageLost` of `Pmap` fails, and
  `PagesAccountedFor` allows exactly the pages lost like this.
* `pgfault()` tests `(err & FEC_WR) & !(...)` (fork.c:28), which is never true, so a
  write to a read-only page makes it writable, against fork.c:21: with
  `BadWrites = TRUE`, `ReadOnlyKept` of `Fork` fails.
* `sys_ipc_try_send()` leaves `env_ipc_perm` alone when the receiver wants no page
  (syscall.c:395), so `ipc_recv()` returns the permissions of an earlier transfer,
  against syscall.c:344 and ipc.c:11: with `PgArgs = {TRUE, FALSE}` and
  `Threads = {t1}`, `PermMeansPage` of `UserLib` fails.
* `ipc_recv()` called by a thread reads the `struct Env` of the main thread, since
  all share `thisenv` (libmain.c): with `Receivers = {t1}`, `RecvReturnsSent` fails.
* Two overlapping calls of `thread_create()` can use the same stack (thread.c:77):
  `StacksPrivate` and `NoStackLeft` hold only as long as that has not happened
  (`raced`).
* The comment at console.c:576 says that input is stashed "whenever the
  corresponding interrupt occurs", but no gate exists for it: `KbdInterrupt`.
* `readline()` treats DEL on an empty line as a character to insert
  (readline.c:22).
* `sched_halt()` does not account ticks (sched.c:428), so the ticks of an idle CPU
  are charged to whoever ran before, against sched.c:76: charges are not exact,
  which is why `OverchargedOnlyIdleTicks` allows for `IdleTicks`.
* With the constants of the code and only three environments, priorities 0, 15
  and 15, the wait exceeds the worst case of sched.c:276 and informe.md:417
  ("60 decisiones"), which is exact only for a pair (`PairBoundedWait`):
  `BoundedWait` has `NENV - 2` more.

The bounds. Two CPUs are enough for every race here, which is between one CPU
in the kernel and another running an environment; three slots give a process, a
thread or a child, and a newcomer that reuses a slot. `LastGen` stops the reuse
of a slot after two generations: the first reuse is where stale ids and fields
matter. `LastTick` stops the clock: past it no environment goes to sleep. Three
pages are enough for as many page directories as there are slots. Pages are
interchangeable, hence the symmetry; in `Pmap` so are the slots. Five pages let
parent and child share a page (two directories, two tables and the page) and
make memory run out in the middle of every operation; `PermAddrs` is empty, since with
an address in `perm` the properties fail, as said above. The instance with three
environments and two addresses, which takes over five minutes, was checked once
too (all but `ThreadExitKeepsMemory`) and holds. `pmap` does not check deadlock: when
all environments have exited nothing is left to do. Nor does `kernel_block`:
the system can really stop when both CPUs have lost their timers. Nor do `lock`
(a CPU in the monitor keeps the lock), `fork` and `userlib` (every process may
exit or panic).

`aging` scales the constants down, to have four environments; with those of the
code and three environments that do not block it was checked once (1.8 million
states) and holds. `aging_starve` uses the real constants: the bound is
one for at most `AGING_THRESHOLD + 1` environments, five in the code, and with seven
there is none. In `lock` three CPUs
are the least with which `boot_aps()` starts two others and two CPUs wait while a
third has the lock; `LastGen = 1` leaves out the reuse of slots, which `kernel_life`
has, and was checked once as 2 without liveness (2.1 million states). In `fork`
five pages are stack and data page for each process and one exception stack, so
that memory runs out at every call that allocates; six pages, enough for both
processes to complete everything, were checked once too. In `userlib` two threads
are what it takes for two callers of `thread_create()` and a third stack. In
`console` the display scrolls and the buffer overflows within five inputs; a
display of one row with lines of five characters and eight inputs were checked
once too.

Fairness. `LiveSpec` assumes weak fairness of `Boot(c)` (a CPU that is started
reaches its first `sched_yield()`) and of the timer interrupt of each CPU:
`lapic_init()` programs every LAPIC timer as periodic. Nothing is assumed of
programs: they may never yield. A CPU whose timer was not acknowledged has no
timer to be fair about. `Aging` assumes that scheduling decisions keep
happening, for the same reason. `LockSpec` assumes that each CPU keeps executing
instructions (weak fairness of `KernelStep(c)`), and nothing about who wins the
lock: `xchg` in a loop is not fair, and a CPU may spin for ever. `UserLib` assumes
that an environment in the middle of a library call goes on (weak fairness of
`Proceed(e)`); this is `ReadyRuns` of `kernel_live`, which round robin gives as long
as environments do not keep exiting.

## What is proved

TLAPS proves the following for any number of CPUs, slots, pages, ticks and
generations and for both policies, or any number of processes, threads, pages and
values, any size of the display and of the buffers, from the assumptions on the
constants that the modules state. The only one of these that is not about sizes is
in `Console`: no key has a scan code that reads as the escape E0, which is what
makes E0 an escape. What a theorem assumes beyond them is a hypothesis of its
statement:

* `ProgramsOnly`: no raw calls (some of them do break these properties, see
  above) and no wrap-around of generations;
* `NoTickWrap`: the clock stops before it wraps, which takes 2^32 ticks (past it a
  sleeper can be missed, see above);
* `MainThreadsReceive`: no second thread of a process calls `ipc_recv()` (with
  one, the property fails, see above);
* `ProgramPerms`: no program passes bits of an address as `perm`. The programs and
  libraries of the repository pass flags only, and `sys_page_map()` relies on it: without
  this, references are miscounted, page tables can get mapped and read-only pages
  writable, against syscall.c:262 and 272 (see above);
* `AFew`: at most `AGING_THRESHOLD + 1` environments, and more than one priority
  (with seven environments there is no bound, see above); `APair`: two environments.

The passing runs of the same properties satisfy these hypotheses.

`KernelProofs!TypeCorrect`: `Spec => []TypeOK`, with every call, raw ones
included. The inductive invariant adds that a CPU in user mode has a curenv.
Lemmas give the type of what the scheduler (`RunType`, `SchedYieldType`,
`TrapReturnType`) and `env_free()` (`EnvFreeType`) produce; the step has one case
per action.

For environments, CPUs and threads `KernelProofs` proves (under `ProgramsOnly`)
`SafetyInv` inductive:

* `CpuState` and `RunsOnOneCpu`: only CPUs in user mode (or in the monitor)
  have a curenv; `ENV_RUNNING` and `ENV_DYING` are exactly the environments on a CPU;
* `ExactFor`: the free list is exact, needed because a new environment must not
  be one that is running;
* `OneReason`: who receives is `ENV_NOT_RUNNABLE`, needed because a send makes its
  target ready without looking at its status;
* `GenBound` and `Ancestry`: ids grow, and no two environments are each other's
  parent, so `env_free()` never meets its caller;
* `Orphaned`: a zombie thread's process is gone, needed because `env_free()` of a
  live process would free a zombie among its threads;
* `ThreadsOwned`: every other thread has a live owner, so that a new thread of a
  thread gets a live parent.

The argument has two halves. `EndsVisit` says what a handler must leave for the
scheduler to restore `RunsOnOneCpu` (`YieldOneCpu`, `ReturnOneCpu`): the busy
environments of the other CPUs are still busy and no others are. And a table
lemma per kind of change shows that `TableInv` survives: changes to what an
environment waits for (`SameFamilyInv`, `OneSlotTable`), `env_free()`
(`FreedTable`, `FreedListExact`) and `env_alloc()` (`AllocTable`). The theorems
`OneCpuEach`, `FreeListCorrect`, `OneReasonToBlock`, `ThreadsAndProcesses` and
`FreeReturns` are its consequences; the last two also give `ZombiesStayOrphans` and
`NobodyControlsParent`, which no run repeats.

`KernelLockProofs` is about the lock and start-up, for any number of CPUs, every
handler included; besides the assumptions of `Kernel` it needs that `NULL` is not a
CPU. Its invariant `LockInv` is

* `LockTypes`: where each CPU is and what the lock's fields can be;
* `Holder`: the lock is taken if and only if some CPU is in `Critical`, which is then
  the only one, and `lock_cpu` is a CPU exactly while that CPU is past the write of
  the owner and not yet past its clearing: so what `holding()` reads without the
  lock is never the reader itself;
* `CpuInv`: a CPU calls `lock_kernel()` exactly once per trap, since `cpu_status` is
  `HALTED` exactly for those that come from `hlt`; what this takes is what
  `next_env`, `curenv` and `cpu_mode` are at each place;
* `StackInv`: every CPU takes its own stack, because while one is in `mpentry`,
  `mpentry_kstack` is its stack and the boot CPU waits.

Each action has a lemma of its own; what a step leaves alone is in `OthersKept`,
`HolderKept` and `StackKept`. `LockExcludes`, `LockNeverPanics` and
`StacksOfTheirOwn` are the consequences. `VisitsLeaveNothing` adds that
while the lock is free the kernel's data is what the last visit left (`NothingPending`):
whoever changes it is in `Critical`, so the lock is taken, and the release makes the
copy.

`KernelProofs` adds to `SafetyInv`, under `ProgramsOnly`:

* `RefsInv`, for `PageDirectoriesCounted`: `pp_ref` of a page is the number of
  environments that run in it (`RefsFor`), every live environment has a page
  directory (`HaveDirs`), and what a CPU has loaded is `kern_pgdir` or the directory
  of its curenv, which is live (`Loaded`). The counts are of sets of slots, so the
  cardinality theorems do the work: `env_free()` takes away exactly the slots it
  frees, zombies not among them, and `env_alloc()` and `sys_thread_create()` add one.
* `TimeInv`, for `NobodyOversleeps` and, as an action property, `SleepsLongEnough`
  (both under `NoTickWrap`): the clock is at most `LastTick` and no sleeper's time
  has come. Each handler leaves a table with that property (`OnTime`), and what the
  scheduler adds wakes nobody (`YieldOnTime`).

`KernelLockProofs` goes on to prove the refinement `VisitsAreAtomic` (under `ProgramsOnly`):
`LockSpec` implies the specification of `Kernel` with `committed` for its
variables. The difficulty is that the step which publishes a visit, the release of
the lock, says nothing of how the visit began. `VisitInv` therefore looks ahead:
for the CPU that has the lock, *every way in which the visit can still end from here
is a step of `Kernel` from `committed`* (`Underway`, with `Finish` for the ways to
end and `Visit` for the steps). A handler establishes this when it is entered, each
further step only narrows the ways to end, and the release takes the one that is
left. The other parts say what a visit finds: the memory is what was committed as
long as no visit is under way (`AtRest`), up to the timer interrupts of CPUs that
wait for the lock (`EoiInv`); modes change with the release only (`ModeInv`); and
the boot CPU comes first (`BootOrder`). `SafetyInv` and `RefsInv` hold of
`committed` (`CommittedInv`), by the proofs for `Kernel` applied to its instance
(`KernelInductive`): this is what makes the `env_cpunum` that `env_run()` writes
after the release that of the right CPU (`CpunumIsRight`), and what leaves the
monitor to a CPU that is alone (`MonitorIsAlone`). With this, every safety theorem
about `Kernel` holds of the state between visits of `KernelLock`.

`ForkProofs` needs no hypothesis. Its invariant `ForkInv` says, for every process

* where it can be: what runs `fork()` has an embryo for a child and nobody else has
  the same one, and in the middle of `fork()` only the stack is written (`Control`,
  `OneParent`);
* that cached translations agree with the page table (`Coherent`), which is what
  the `tlb_invalidate()` of each `sys_page_map()` is for;
* what is mapped at each step of `pgfault()` and of `fork()` (`WriteMapped`,
  `TempMapped`, `CopyMapped`, `XStackMapped`, `DataMapped`);
* that a page that can be written is mapped only once, except between two system
  calls of `duppage()`, `pgfault()` or `dup_or_share()`, and then in exactly one other
  place (`Private`, `SharedBy`);
* that copies have the contents of their originals from the moment they are made
  until they take their place (`FaultCopied`, `ForkCopied`).

`PagesNotWrittenByTwo`, `ExceptionStacksPrivate` and `WritesFaultOnce` are
consequences. `ForkMakesACopy` is the refinement of `PrivateMemory`: a store, the
start of a child and an exit are steps of it, everything else stutters, since it
changes no contents that some process can see: the page `pgfault()` puts in place
has the same contents, and a page taken for a copy was mapped nowhere.

`UserLibProofs` has two invariants. `StacksInv` says that, until two calls of
`thread_create()` overlap or the process is gone, at most one call is under way,
`nthreads` is the number of threads ever started, give or take the one that is
started and not counted yet, their stacks are different and below it, and what is
mapped belongs to a thread or to the call under way; hence `ThreadsHaveTheirStacks`
and `FailedCreateLeavesNoStack`. `MailInv` (with `MailOrder`) says that the fields of
a receiver's `struct Env` are those of the one message delivered since it called
`sys_ipc_recv()`, from the delivery until it has read them all, since nobody can
send to it before it receives again; hence `RecvReturnsItsMessage`.

`PmapProofs` proves `PmapInv` (under `ProgramPerms`), which is `EnvInv` (who is a process, who is a thread of
whom, and that no two processes share a page directory) and `MemInv`. `MemInv` is
an invariant of the functions of `pmap.c`, so it takes as parameters what they do
not know: how many environments use a page as their directory, which directories
belong to a process, the page that `page_insert()` has counted and not mapped yet,
and the pages lost. Its parts are

* `Exact`: `pp_ref` is the number of environments, page directory entries and page table
  entries that refer to a page;
* `Listed`: the pages without references are the free ones and the lost ones;
* `Clean`: only the directory of a process has entries, and of tables only those that are
  in a directory, since a page that is given back and becomes one again must be empty;
* `Apart`: a directory is not a page table, a page table belongs to one directory, and
  neither is mapped by anybody.

Each function keeps it, one lemma each, with lemmas that say by how much a change of one
entry changes the number of references; the system calls, `env_alloc()` and
`env_free()` then follow by composing them as the code does. The hypothesis is used in
one place, `PageMapInv`: everywhere else `check_perm()` has been called. `PagesAccountedForHolds` and
`KernelPagesPrivateHolds` are consequences, and so are the action properties
`WriteIsNotGrantedHolds` and `ThreadExitKeepsMemoryHolds`: the sweep of `env_free()`
touches the directory only of the environment that is freed as a process.

`AgingProofs` proves `AgingInv` (who is on the CPU is `RUNNING`, `env_wait_ticks` is the
wait, up to `WaitCap`) and from it the action property `AgingKeepsTheOrder`, because
the bonus grows with the wait. `FewBoundedWait` needs an invariant about all
environments together. Call the decisions in which an environment has been passed over
since its effective priority reached `ENV_PRIORITY_MAX` its passes. `FewInv` says: *the
passes of a ready environment and its distance from the scan's start are together at
most `NENV - 1`*, so every pass has brought the scan closer. It is inductive
under `AFew`: after at most `AGING_THRESHOLD` passes an effective priority goes beyond
`ENV_PRIORITY_MAX` by no more than one, and by one only for the environment that
the scan meets first (`EffectiveBounds`); so what is picked instead of an environment
that has reached `ENV_PRIORITY_MAX` comes before it in the scan (`PickedBefore`), and
the next scan starts behind that. With one environment more this no longer holds. The
wait is what it takes to reach `ENV_PRIORITY_MAX` plus the passes; `PairBoundedWait` gives the bound of the
comment at sched.c:276 for two environments.

`SchedStatsProofs` proves `StatsInv`: the books are in order (`Book`: the entry of a slot
is that of its present or an earlier environment, printed entries are older than
those in the table, and the one that is being charged has the entry of its slot) and
balance (`Balanced`: the ticks charged to ids add up to those charged to
priorities, and what an id is charged beyond what it used is at most the idle ticks).
The sums are counts of pairs (`Units`), so that they follow from the library's theorems on
finite sets. `TicksAddUp` and `ChargesAreFair` are consequences. `HistoryInv` says where
in the ring the last `SCHED_HISTORY_LEN` decisions are; hence `HistoryIsTheLog`.

`ConsoleProofs` has two invariants. `InputInv` says that the display shows the line
before the cursor (`OnLine`), which scrolling keeps because it only shifts the display
by some rows (`Shifted`), and that the characters in the input ring are numbered
backwards from `wpos` by their age (`BufferInv`), although an overflow makes the ring
look empty; hence `CursorStaysOnDisplay`, `LineIsOnDisplay` and `NewestAreKept`.
`ModifierInv` says of every modifier with no key down that it is clear, or that one of the
bytes that wait clears it and none after that one sets it (`Quiet`), and that escapes are
followed by a key (`WellFormed`); hence `ModifiersDoNotStick`.

With this every safety invariant and every action property that a passing run checks
is a theorem. Only model-checked, because they are beyond the prover's reach:

* the liveness properties: `SleepersWakeUp` and `ReadyRuns` of `Kernel`, `LockComesBack` of
  `KernelLock`, `ReceiverServed` of `UserLib`;
* that few environments do not starve (`NoStarvation` of `Aging`, which fails with
  seven) is `FewBoundedWait` and the fairness of `Yield` put together, and that last step
  is not machine-checked.

## Not modelled

* Saved registers, the width of `pp_ref`, kernel panics other than those of the
  lock, the overflow of counters that only statistics read.
* The breakpoint trap except as the end of a user `panic()` (`Fork`, `UserLib`), and
  the spurious interrupt.
* The set-up of memory at boot (`boot_alloc`, `page_init`, `mem_init`,
  `boot_map_region`, `mmio_map_region`, `entrypgdir.c`): it runs once, alone, and
  `check_*()` examine its result. Parsing the MP tables and the assembly of start-up.
* In `Fork`: threads of a process that forks. A thread has no upcall and dies at its
  first write to a copy-on-write page, and `tlb_invalidate()` flushes one CPU only, so
  a sibling elsewhere could still write what has become shared; no program does
  this. Pages of devices, and page tables that cannot be allocated (`Pmap` has
  those). Accesses to unmapped addresses, on which `pgfault()` calls itself until the
  exception stack overflows.
* In `Pmap`: the flags of an entry other than `PTE_W`, which the kernel stores and does
  not look at (`PTE_U` and `PTE_P` are always set); a `perm` that leads outside of
  physical memory, and what a program does through a mapping that it leads to.
* In `UserLib`: `ipc_find_env()`, which reads the table and changes nothing;
  `sys_thread_create()` failing for lack of a page, after which `thread_create()` goes on
  as it does without a free slot; a sender that passes a permission it does not have
  to a receiver that wants no page. Its run has one value to send, so it tells messages
  apart by their senders; `RecvReturnsItsMessage` is for any values.
* In `Console`: the parallel port, the set-up of the devices, Ctrl-Alt-Del and the
  attributes (colours) of characters. The keyboard's queue drops no byte, and nobody
  else prints while `readline()` reads a line (`LineOnDisplay` depends on it).
* `kdebug.c` (a search over constant tables for messages of a panic), the
  formatting and string library, the clock and the interrupt controller (port I/O),
  the system-call stubs, constant tables and inline assembly.

## What is left

Of the properties stated here, only the liveness properties have no proof. How many
environments it takes for the bound on the wait to fail is known only to be between
`AGING_THRESHOLD + 2` and seven with the constants of the code. The parts listed as not
modelled are the candidates for further modules.
