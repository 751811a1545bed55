------------------------------- MODULE Kernel -------------------------------
(***************************************************************************)
(* The multiprocessor kernel: the life of the environments in envs[], the  *)
(* system calls and interrupts that change it, and the CPUs that run them  *)
(* (kern/env.c, kern/sched.c, kern/syscall.c, kern/trap.c, kern/init.c).   *)
(*                                                                         *)
(* A CPU enters the kernel by a trap, takes the big kernel lock, runs one  *)
(* handler to its end and leaves by env_run() or sched_halt(), where it    *)
(* releases the lock.  A step of this module is one such visit, so the     *)
(* interleaving is the order in which the CPUs obtain the lock.            *)
(***************************************************************************)
EXTENDS SchedPolicy, Sequences, FiniteSets

CONSTANTS
  CPUs, BSP,             \* the CPUs; BSP is the one that runs i386_init()
  Pages,                 \* physical pages that can hold a page directory
  KernPgdir,             \* kern_pgdir, which is none of Pages
  NBoot,                 \* number of ENV_CREATE()s in i386_init()
  ENV_PRIORITY_DEFAULT,  \* 8 in the code
  SleepArgs,             \* the arguments programs give to sys_sleep()
  TickMod,               \* `ticks' counts modulo TickMod (2^32 in the code)
  MaxGen,                \* largest generation of an env_id (2^19 - 1)
  LastTick,              \* bound: `ticks' stays here, nobody sleeps past it
  LastGen,               \* bound: no slot is allocated beyond this one
  Calls,                 \* the kinds of system call the programs make
  RawCalls               \* calls the kernel accepts and no program in lib/
                         \* or user/ makes

CallKinds    == {"yield", "sleep", "ipc", "fork", "exit", "destroy",
                 "priority", "thread"}
RawCallKinds == {"set_status", "recv_invalid", "destroy_zombie",
                 "destroy_thread"}

ASSUME KernelAssumption ==
  /\ BSP \in CPUs
  /\ KernPgdir \notin Pages
  /\ NULL \notin Pages
  /\ NBoot \in 0 .. NENV
  /\ \E dir \in [0 .. NBoot - 1 -> Pages] :
       \A i, j \in 0 .. NBoot - 1 : dir[i] = dir[j] => i = j
  /\ ENV_PRIORITY_DEFAULT \in Priorities
  /\ TickMod \in Nat \ {0}
  /\ SleepArgs \subseteq 0 .. TickMod - 1
  /\ MaxGen \in Nat \ {0}
  /\ LastTick \in Nat
  /\ LastGen \in Nat
  /\ Calls \subseteq CallKinds
  /\ RawCalls \subseteq RawCallKinds

VARIABLES
  envs,           \* the table of environments
  env_free_list,  \* its free slots, the next one to allocate first
  curenv,         \* curenv of each CPU
  cpu_mode,       \* what each CPU is doing when it is not in the kernel
  cr3,            \* the page directory each CPU has loaded
  pp_ref,         \* references to each page used as a page directory
  ticks,          \* timer interrupts since boot
  eoi_pending     \* the CPU's LAPIC awaits an acknowledgement: it sends no
                  \* further timer interrupt until it gets one

vars == <<envs, env_free_list, curenv, cpu_mode, cr3, pp_ref, ticks,
          eoi_pending>>

Statuses == {"FREE", "DYING", "RUNNABLE", "RUNNING", "NOT_RUNNABLE"}
Modes    == {"boot", "user", "halted", "monitor"}

(***************************************************************************)
(* Identifiers.  An env_id is a slot and a generation, so that the id of   *)
(* an environment that is gone does not name the next one in its slot.     *)
(***************************************************************************)
KernelId      == <<NULL, 0>>             \* env_id 0: created by the kernel
EnvId(es, s)  == <<s, es[s].gen>>
Live(es, s)   == es[s].status # "FREE"

(* envid2env() with checkperm: itself or an immediate child. *)
MayControl(es, cur, s) ==
  /\ Live(es, s)
  /\ s = cur \/ es[s].parent = EnvId(es, cur)

NextGenStuck(g) == 1
NextGen(g) == IF g >= MaxGen THEN 1 ELSE g + 1

Env == [gen         : Nat,
        status      : Statuses,
        type        : {"USER", "THREAD"},
        parent      : (Slots \cup {NULL}) \X Nat,
        pgdir       : Pages \cup {NULL},
        sleep_until : 0 .. TickMod - 1,
        recving     : BOOLEAN,
        priority    : Priorities,
        wait_ticks  : 0 .. WaitCap]

ZeroedEnv == [gen |-> 0, status |-> "FREE", type |-> "USER",
              parent |-> KernelId, pgdir |-> NULL, sleep_until |-> 0,
              recving |-> FALSE, priority |-> 0, wait_ticks |-> 0]

(***************************************************************************)
(* env_alloc(): every field a new environment starts with, whatever the    *)
(* previous one of the slot (e) left there.                                *)
(***************************************************************************)
NewEnvKeepsWakeup(e, parent, p) ==
  [gen |-> NextGen(e.gen), status |-> "RUNNABLE", type |-> "USER",
   parent |-> parent, pgdir |-> p, sleep_until |-> e.sleep_until,
   recving |-> FALSE, priority |-> ENV_PRIORITY_DEFAULT, wait_ticks |-> 0]

NewEnv(e, parent, p) ==
  [gen |-> NextGen(e.gen), status |-> "RUNNABLE", type |-> "USER",
   parent |-> parent, pgdir |-> p, sleep_until |-> 0,
   recving |-> FALSE, priority |-> ENV_PRIORITY_DEFAULT, wait_ticks |-> 0]

(* The page directories env_setup_vm() gives to the first environments.    *)
BootPgdir ==
  CHOOSE dir \in [0 .. NBoot - 1 -> Pages] :
    \A i, j \in 0 .. NBoot - 1 : dir[i] = dir[j] => i = j

(* env_init() and the ENV_CREATE()s, up to the boot CPU's sched_yield().   *)
Init ==
  /\ envs = [s \in Slots |->
               IF s < NBoot THEN NewEnv(ZeroedEnv, KernelId, BootPgdir[s])
                            ELSE ZeroedEnv]
  /\ pp_ref = [p \in Pages |->
                 IF \E i \in 0 .. NBoot - 1 : BootPgdir[i] = p THEN 1 ELSE 0]
  /\ env_free_list = [i \in 1 .. NENV - NBoot |-> NBoot + i - 1]
  /\ curenv = [c \in CPUs |-> NULL]
  /\ cpu_mode = [c \in CPUs |-> "boot"]
  /\ cr3 = [c \in CPUs |-> KernPgdir]
  /\ ticks = 0
  /\ eoi_pending = [c \in CPUs |-> FALSE]

-----------------------------------------------------------------------------
(***************************************************************************)
(* The scheduler.  `es' is the table the handler has built so far and      *)
(* `cur' its curenv; SchedYield says how the visit to the kernel ends.     *)
(***************************************************************************)

(* What keeps the system alive: anything ready, running or being killed,   *)
(* and the sleepers the timer will wake up.                                *)
PendingForgetsSleepers(es) ==
  \E s \in Slots : es[s].status \in {"RUNNABLE", "RUNNING", "DYING"}

PendingForgetsZombies(es) ==
  \E s \in Slots :
    \/ es[s].status \in {"RUNNABLE", "RUNNING"}
    \/ es[s].status = "NOT_RUNNABLE" /\ es[s].sleep_until # 0

Pending(es) ==
  \E s \in Slots :
    \/ es[s].status \in {"RUNNABLE", "RUNNING", "DYING"}
    \/ es[s].status = "NOT_RUNNABLE" /\ es[s].sleep_until # 0

SchedRun(c, cur, es) ==
  \E r \in Slots :
    /\ Picks(es, cur, r)
    /\ envs' = EnvRun(Aged(es, r), cur, r)
    /\ curenv' = [curenv EXCEPT ![c] = r]
    /\ cr3' = [cr3 EXCEPT ![c] = es[r].pgdir]
    /\ cpu_mode' = [cpu_mode EXCEPT ![c] = "user"]

(* The timer will wake this CPU up. *)
SchedHlt(c, cur, es) ==
  /\ ~CanPick(es, cur)
  /\ Pending(es)
  /\ envs' = es
  /\ curenv' = [curenv EXCEPT ![c] = NULL]
  /\ cr3' = [cr3 EXCEPT ![c] = KernPgdir]
  /\ cpu_mode' = [cpu_mode EXCEPT ![c] = "halted"]

(* Nothing left to do: the CPU enters the monitor, and never releases the  *)
(* lock.  A freed curenv has already left its page directory (env_free).   *)
SchedMonitor(c, cur, es) ==
  /\ ~CanPick(es, cur)
  /\ ~Pending(es)
  /\ envs' = es
  /\ curenv' = [curenv EXCEPT ![c] = cur]
  /\ cr3' = [cr3 EXCEPT ![c] = IF cur = NULL THEN KernPgdir ELSE @]
  /\ cpu_mode' = [cpu_mode EXCEPT ![c] = "monitor"]

SchedYield(c, cur, es) ==
  \/ SchedRun(c, cur, es)
  \/ SchedHlt(c, cur, es)
  \/ SchedMonitor(c, cur, es)

(* The end of trap(): back to curenv if it is still running.               *)
TrapReturn(c, es) ==
  LET cur == curenv[c]
  IN  \/ /\ es[cur].status = "RUNNING"
         /\ envs' = es
         /\ cr3' = [cr3 EXCEPT ![c] = es[cur].pgdir]
         /\ UNCHANGED <<curenv, cpu_mode>>
      \/ /\ es[cur].status # "RUNNING"
         /\ SchedYield(c, cur, es)

-----------------------------------------------------------------------------
(***************************************************************************)
(* Death of an environment.                                                *)
(***************************************************************************)

(* The threads env_free(e) takes down with process e. *)
ThreadsOf(es, e) ==
  {t \in Slots \ {e} :
     /\ es[e].type # "THREAD"
     /\ es[t].type = "THREAD"
     /\ Live(es, t)
     /\ es[t].parent = EnvId(es, e)}

(* env_destroy(t) only marks a thread that is running on another CPU. *)
ZombiesNone(es, e) == {}
Zombies(es, e) == {t \in ThreadsOf(es, e) : es[t].status = "RUNNING"}
Freed(es, e)   == {e} \cup (ThreadsOf(es, e) \ Zombies(es, e))

AfterFree(es, e) ==
  [s \in Slots |->
     IF s \in Freed(es, e)
     THEN [es[s] EXCEPT !.status = "FREE", !.pgdir = NULL]
     ELSE IF s \in Zombies(es, e) THEN [es[s] EXCEPT !.status = "DYING"]
     ELSE es[s]]

(* page_decref() on the page directory of every environment freed.         *)
RefsAfterFree(es, e) ==
  [p \in Pages |-> pp_ref[p] - Cardinality({s \in Freed(es, e) :
                                              es[s].pgdir = p})]

(* The threads go to the front of the free list one by one, in table       *)
(* order, and then the process itself.                                     *)
Descending(S) ==
  {q \in UNION {[1 .. n -> S] : n \in 0 .. NENV} :
     /\ \A i, j \in DOMAIN q : i < j => q[i] > q[j]
     /\ \A s \in S : \E i \in DOMAIN q : q[i] = s}

FreeListForgetsThreads(es, e, list) == list = <<e>> \o env_free_list

FreeListAfterFree(es, e, list) ==
  \E q \in Descending(Freed(es, e) \ {e}) :
    list = <<e>> \o q \o env_free_list

EnvFree(e) ==
  /\ FreeListAfterFree(envs, e, env_free_list')
  /\ pp_ref' = RefsAfterFree(envs, e)

-----------------------------------------------------------------------------
(***************************************************************************)
(* Entering the kernel.                                                    *)
(***************************************************************************)

(* A CPU in the monitor holds the big kernel lock for good. *)
LockAvailable == \A c \in CPUs : cpu_mode[c] # "monitor"

(* Trapped from user mode, and curenv is not a zombie. *)
Trapped(c) ==
  /\ LockAvailable
  /\ cpu_mode[c] = "user"
  /\ envs[curenv[c]].status # "DYING"

Syscall(c, kind) == Trapped(c) /\ kind \in Calls

(* sched_yield() at the end of i386_init() and of mp_main().  The boot CPU *)
(* holds the lock from before it starts the others.                        *)
Boot(c) ==
  /\ LockAvailable
  /\ cpu_mode[c] = "boot"
  /\ c # BSP => cpu_mode[BSP] # "boot"
  /\ SchedYield(c, NULL, envs)
  /\ UNCHANGED <<env_free_list, pp_ref, ticks, eoi_pending>>

(* uint32_t arithmetic on ticks. *)
TickSum(t, n) == IF t + n >= TickMod THEN t + n - TickMod ELSE t + n

(* sched_wakeup_sleeping() *)
WokenStrict(es, now) ==
  [s \in Slots |->
     IF /\ es[s].status = "NOT_RUNNABLE"
        /\ es[s].sleep_until # 0
        /\ es[s].sleep_until < now
     THEN [es[s] EXCEPT !.sleep_until = 0, !.status = "RUNNABLE"]
     ELSE es[s]]

WokenEarly(es, now) ==
  [s \in Slots |->
     IF /\ es[s].status = "NOT_RUNNABLE"
        /\ es[s].sleep_until # 0
        /\ es[s].sleep_until <= now + 1
     THEN [es[s] EXCEPT !.sleep_until = 0, !.status = "RUNNABLE"]
     ELSE es[s]]

Woken(es, now) ==
  [s \in Slots |->
     IF /\ es[s].status = "NOT_RUNNABLE"
        /\ es[s].sleep_until # 0
        /\ es[s].sleep_until <= now
     THEN [es[s] EXCEPT !.sleep_until = 0, !.status = "RUNNABLE"]
     ELSE es[s]]

(* IRQ_TIMER, from user mode or from the hlt of sched_halt(): acknowledged *)
(* with lapic_eoi(), then time advances and the CPU is rescheduled.        *)
Timer(c) ==
  /\ Trapped(c) \/ (LockAvailable /\ cpu_mode[c] = "halted")
  /\ ~eoi_pending[c]
  /\ ticks' = IF ticks = LastTick THEN ticks ELSE TickSum(ticks, 1)
  /\ SchedYield(c, curenv[c], Woken(envs, ticks'))
  /\ UNCHANGED <<env_free_list, pp_ref, eoi_pending>>

(* A trap that finds its curenv a zombie frees it and runs something else. *)
(* Nothing else of the trap is handled: when it is a timer interrupt, it   *)
(* is never acknowledged and its tick is not counted.                      *)
Reap(c, byTimer) ==
  /\ LockAvailable
  /\ cpu_mode[c] = "user"
  /\ envs[curenv[c]].status = "DYING"
  /\ byTimer => ~eoi_pending[c]
  /\ eoi_pending' = [eoi_pending EXCEPT ![c] = @ \/ byTimer]
  /\ EnvFree(curenv[c])
  /\ SchedYield(c, NULL, AfterFree(envs, curenv[c]))
  /\ UNCHANGED ticks

-----------------------------------------------------------------------------
(***************************************************************************)
(* System calls.  The ones that fail, and the ones that only return a      *)
(* value, leave the state as it is.                                        *)
(***************************************************************************)

SysYield(c) ==
  /\ Syscall(c, "yield")
  /\ SchedYield(c, curenv[c], envs)
  /\ UNCHANGED <<env_free_list, pp_ref, ticks, eoi_pending>>

SysSleep(c, n) ==
  /\ Syscall(c, "sleep")
  /\ n # 0
  /\ ticks + n <= LastTick \/ LastTick >= TickMod
  /\ SchedYield(c, curenv[c],
                [envs EXCEPT ![curenv[c]].sleep_until = TickSum(ticks, n),
                             ![curenv[c]].status = "NOT_RUNNABLE"])
  /\ UNCHANGED <<env_free_list, pp_ref, ticks, eoi_pending>>

SysIpcRecv(c) ==
  /\ Syscall(c, "ipc")
  /\ SchedYield(c, curenv[c],
                [envs EXCEPT ![curenv[c]].recving = TRUE,
                             ![curenv[c]].status = "NOT_RUNNABLE"])
  /\ UNCHANGED <<env_free_list, pp_ref, ticks, eoi_pending>>

(* sys_ipc_recv() rejects its dstva after it has set env_ipc_recving.      *)
SysIpcRecvInvalid(c) ==
  /\ Trapped(c) /\ "recv_invalid" \in RawCalls
  /\ TrapReturn(c, [envs EXCEPT ![curenv[c]].recving = TRUE])
  /\ UNCHANGED <<env_free_list, pp_ref, ticks, eoi_pending>>

(* sys_ipc_try_send() of a value, to an environment that is receiving. *)
Received(es, s) ==
  [es EXCEPT ![s].recving = FALSE, ![s].status = "RUNNABLE"]

SysIpcTrySend(c, s) ==
  /\ Syscall(c, "ipc")
  /\ Live(envs, s)
  /\ envs[s].recving
  /\ TrapReturn(c, Received(envs, s))
  /\ UNCHANGED <<env_free_list, pp_ref, ticks, eoi_pending>>

(* A free slot and a page for its page directory: what env_alloc() needs.  *)
CanAlloc(p) ==
  /\ env_free_list # <<>>
  /\ envs[Head(env_free_list)].gen # LastGen
  /\ pp_ref[p] = 0

SysExofork(c) ==
  \E p \in Pages :
    LET cur == curenv[c]
        new == Head(env_free_list)
    IN  /\ Syscall(c, "fork")
        /\ CanAlloc(p)
        /\ TrapReturn(c, [envs EXCEPT ![new] =
                           [NewEnv(envs[new], EnvId(envs, cur), p) EXCEPT
                              !.status = "NOT_RUNNABLE",
                              !.priority = envs[cur].priority]])
        /\ env_free_list' = Tail(env_free_list)
        /\ pp_ref' = [pp_ref EXCEPT ![p] = @ + 1]
        /\ UNCHANGED <<ticks, eoi_pending>>

(* What sys_exofork() leaves for the parent to start. *)
Embryo(e) == e.status = "NOT_RUNNABLE" /\ e.sleep_until = 0 /\ ~e.recving

(* fork() and dumbfork() set the status of the child they have just made,  *)
(* to ENV_RUNNABLE; the kernel takes either status for any environment     *)
(* that the caller controls.                                               *)
SysEnvSetStatus(c, s, status) ==
  /\ Trapped(c)
  /\ MayControl(envs, curenv[c], s)
  /\ \/ /\ "fork" \in Calls
        /\ status = "RUNNABLE"
        /\ s # curenv[c]
        /\ Embryo(envs[s])
     \/ "set_status" \in RawCalls
  /\ TrapReturn(c, [envs EXCEPT ![s].status = status])
  /\ UNCHANGED <<env_free_list, pp_ref, ticks, eoi_pending>>

(* The thread hangs off the process that owns the address space, even when *)
(* a thread creates it.                                                    *)
ThreadOwnerCreator(es, cur) == EnvId(es, cur)
ThreadOwner(es, cur) ==
  IF es[cur].type = "THREAD" THEN es[cur].parent ELSE EnvId(es, cur)

RefsWithThread(dir) == [pp_ref EXCEPT ![dir] = @ + 1]

(* env_alloc() takes page p for a page directory of its own, which is      *)
(* given back: the thread shares its creator's.                            *)
SysThreadCreate(c) ==
  \E p \in Pages :
    LET cur == curenv[c]
        new == Head(env_free_list)
    IN  /\ Syscall(c, "thread")
        /\ CanAlloc(p)
        /\ TrapReturn(c, [envs EXCEPT ![new] =
                           [NewEnv(envs[new], ThreadOwner(envs, cur),
                                   envs[cur].pgdir) EXCEPT
                              !.type = "THREAD",
                              !.priority = envs[cur].priority]])
        /\ env_free_list' = Tail(env_free_list)
        /\ pp_ref' = RefsWithThread(envs[cur].pgdir)
        /\ UNCHANGED <<ticks, eoi_pending>>

(* An environment lowers its own priority, or sets that of a child. *)
SysSetPriorityUnchecked(c, s, priority) ==
  /\ Syscall(c, "priority")
  /\ MayControl(envs, curenv[c], s)
  /\ s = curenv[c] => priority <= envs[s].priority
  /\ TrapReturn(c, [envs EXCEPT ![s].priority = priority])
  /\ UNCHANGED <<env_free_list, pp_ref, ticks, eoi_pending>>

SysSetPriority(c, s, priority) ==
  /\ Syscall(c, "priority")
  /\ priority <= ENV_PRIORITY_MAX
  /\ MayControl(envs, curenv[c], s)
  /\ s = curenv[c] => priority <= envs[s].priority
  /\ TrapReturn(c, [envs EXCEPT ![s].priority = priority])
  /\ UNCHANGED <<env_free_list, pp_ref, ticks, eoi_pending>>

(* env_destroy(curenv): exit(), a fault nobody handles, or a bad pointer   *)
(* given to the kernel.                                                    *)
DestroySelf(c) ==
  /\ Syscall(c, "exit")
  /\ EnvFree(curenv[c])
  /\ SchedYield(c, NULL, AfterFree(envs, curenv[c]))
  /\ UNCHANGED <<ticks, eoi_pending>>

(* env_destroy() of a child.  It is only marked if it is running, which it *)
(* does on another CPU.                                                    *)
DestroyAlwaysFrees(c, s) ==
  /\ EnvFree(s)
  /\ TrapReturn(c, AfterFree(envs, s))

Destroy(c, s) ==
  \/ /\ envs[s].status = "RUNNING"
     /\ TrapReturn(c, [envs EXCEPT ![s].status = "DYING"])
     /\ UNCHANGED <<env_free_list, pp_ref>>
  \/ /\ envs[s].status # "RUNNING"
     /\ EnvFree(s)
     /\ TrapReturn(c, AfterFree(envs, s))

SysEnvDestroy(c, s) ==
  /\ Syscall(c, "destroy")
  /\ s # curenv[c]
  /\ MayControl(envs, curenv[c], s)
  /\ envs[s].status = "DYING" => "destroy_zombie" \in RawCalls
  /\ envs[s].type = "THREAD" => "destroy_thread" \in RawCalls
  /\ Destroy(c, s)
  /\ UNCHANGED <<ticks, eoi_pending>>

(* The monitor's command loop, which never returns. *)
Monitor ==
  /\ ~LockAvailable
  /\ UNCHANGED vars

-----------------------------------------------------------------------------

Next ==
  \/ \E c \in CPUs :
       \/ Boot(c)
       \/ Timer(c)
       \/ \E byTimer \in BOOLEAN : Reap(c, byTimer)
       \/ SysYield(c)
       \/ \E n \in SleepArgs : SysSleep(c, n)
       \/ SysIpcRecv(c)
       \/ SysIpcRecvInvalid(c)
       \/ SysExofork(c)
       \/ SysThreadCreate(c)
       \/ DestroySelf(c)
       \/ \E s \in Slots :
            \/ SysIpcTrySend(c, s)
            \/ \E status \in {"RUNNABLE", "NOT_RUNNABLE"} :
                 SysEnvSetStatus(c, s, status)
            \/ \E priority \in 0 .. ENV_PRIORITY_MAX + 1 :
                 SysSetPriority(c, s, priority)
            \/ SysEnvDestroy(c, s)
  \/ Monitor

Spec == Init /\ [][Next]_vars

(***************************************************************************)
(* The LAPIC timer is periodic on every CPU (lapic_init), so a CPU whose   *)
(* timer can interrupt it is interrupted; and every CPU that has started   *)
(* reaches its first sched_yield().  Programs promise nothing.             *)
(***************************************************************************)
TimerInterrupt(c) == Timer(c) \/ Reap(c, TRUE)

Fairness == \A c \in CPUs : WF_vars(Boot(c)) /\ WF_vars(TimerInterrupt(c))

LiveSpec == Spec /\ Fairness

-----------------------------------------------------------------------------
(***************************************************************************)
(* Properties.                                                             *)
(***************************************************************************)

(* Type invariant.  Every slot of envs[] and every per-CPU variable keeps  *)
(* to the values struct Env and struct CpuInfo can hold; the free list is  *)
(* a list of slots.                                                        *)
TypeOK ==
  /\ envs \in [Slots -> Env]
  /\ env_free_list \in Seq(Slots)
  /\ curenv \in [CPUs -> Slots \cup {NULL}]
  /\ cpu_mode \in [CPUs -> Modes]
  /\ cr3 \in [CPUs -> Pages \cup {KernPgdir, NULL}]
  /\ pp_ref \in [Pages -> Int]
  /\ ticks \in 0 .. TickMod - 1
  /\ eoi_pending \in [CPUs -> BOOLEAN]

OnCpu(c, s) == cpu_mode[c] = "user" /\ curenv[c] = s

(* No environment runs on two CPUs at once, and the status in envs[] says  *)
(* exactly who is running: ENV_RUNNING and ENV_DYING environments are on a *)
(* CPU, every other one is on none.  sched_yield() relies on this when it  *)
(* takes any ENV_RUNNABLE environment, and env_destroy() when it frees at  *)
(* once whatever is not ENV_RUNNING.                                       *)
RunsOnOneCpu ==
  /\ \A c, d \in CPUs, s \in Slots : OnCpu(c, s) /\ OnCpu(d, s) => c = d
  /\ \A s \in Slots :
       envs[s].status \in {"RUNNING", "DYING"} <=> \E c \in CPUs : OnCpu(c, s)

(* The free list is exact for table es. *)
ExactFor(es, list) ==
  /\ {list[i] : i \in DOMAIN list} = {s \in Slots : ~Live(es, s)}
  /\ \A i, j \in DOMAIN list : list[i] = list[j] => i = j

(* env_free_list holds each ENV_FREE slot once and no other: env_free() of *)
(* a process with its threads never pushes a slot twice, and no path that  *)
(* kills an environment forgets to push it.                                *)
FreeListExact == ExactFor(envs, env_free_list)

(* In table es, environment s waits for at most one thing. *)
OneReason(es, s) ==
  Live(es, s) =>
    /\ es[s].recving => es[s].status = "NOT_RUNNABLE"
    /\ es[s].sleep_until # 0 => /\ es[s].status = "NOT_RUNNABLE"
                                /\ ~es[s].recving

(* An environment waits for at most one thing, and only while it is        *)
(* ENV_NOT_RUNNABLE: a wakeup time left by a previous user of the slot, or *)
(* a receive that already got its message, never wakes it up again.        *)
BlockedForOneReason == \A s \in Slots : OneReason(envs, s)

(* pp_ref of a page directory is the number of environments that use it,   *)
(* so page_decref() gives the page back exactly when the last one dies;    *)
(* and the page directory a CPU has loaded is never given back, not even   *)
(* while a zombie still runs in the address space of a process that has    *)
(* been freed.                                                             *)
PgdirRefs ==
  /\ \A p \in Pages :
       pp_ref[p] = Cardinality({s \in Slots : envs[s].pgdir = p})
  /\ \A c \in CPUs :
       cr3[c] # KernPgdir => cr3[c] \in Pages /\ pp_ref[cr3[c]] > 0

(* In table es, p is the process whose address space thread t runs in. *)
Owns(es, p, t) ==
  /\ Live(es, p)
  /\ es[p].type = "USER"
  /\ es[t].parent = EnvId(es, p)
  /\ es[t].pgdir = es[p].pgdir

(* Every thread of table es that nobody is killing has an owner. *)
ThreadsOwned(es) ==
  \A t \in Slots :
    es[t].type = "THREAD" /\ es[t].status \notin {"FREE", "DYING"} =>
      \E p \in Slots : Owns(es, p, t)

(* A thread that nobody is killing has an owner process that exists and    *)
(* whose address space it shares: env_free() finds every thread of the     *)
(* process, including the ones that other threads created.                 *)
ThreadsHaveOwner == ThreadsOwned(envs)

(* No live environment of table es has the id of a zombie thread's parent. *)
Orphaned(es) ==
  \A t, p \in Slots :
    /\ es[t].type = "THREAD"
    /\ es[t].status = "DYING"
    /\ es[t].parent = EnvId(es, p)
    => ~Live(es, p)

(* A zombie thread is an orphan for good: env_free() marks it when its     *)
(* process goes, and whoever takes over the slot of the process gets       *)
(* another env_id.  Otherwise the env_free() of the newcomer would find    *)
(* the zombie and free it while it is still running on its CPU.            *)
ZombiesStayOrphans == Orphaned(envs)

(* Ancestry in table es: a parent's id was given out before the child's.   *)
Ancestry(es) ==
  \A s, p \in Slots :
    /\ es[s].parent[1] = p => es[s].parent[2] <= es[p].gen
    /\ es[s].parent = EnvId(es, p) => es[p].parent # EnvId(es, s)

(* No env_id names a parent before it has been given out, and no two       *)
(* environments are each other's parent, whatever slots are recycled: an   *)
(* environment can never destroy, start or reprioritise its own parent.    *)
NobodyControlsParent == Ancestry(envs)

(* env_free() of a process calls env_destroy() on its threads, which does  *)
(* not return if the thread is the caller's own curenv: the process would  *)
(* stay half freed.  No environment can destroy a process it is a thread   *)
(* of, whatever slots and ids have been recycled.                          *)
NoReentrantFree ==
  \A c \in CPUs, e \in Slots :
    cpu_mode[c] = "user" /\ MayControl(envs, curenv[c], e) =>
      curenv[c] \notin ThreadsOf(envs, e)

Asleep(es, s) == es[s].status = "NOT_RUNNABLE" /\ es[s].sleep_until # 0

(* A sleeper is still asleep only while its time has not come, on any CPU: *)
(* each tick wakes up all that are due.                                    *)
SleepersNotOverdue == \A s \in Slots : Asleep(envs, s) => ticks < envs[s].sleep_until

(* ... and no step makes a sleeper run or ready before its time.           *)
NotWokenEarly ==
  [][\A s \in Slots :
       Asleep(envs, s) /\ envs'[s].status \in {"RUNNABLE", "RUNNING"} =>
         \/ envs'[s].gen # envs[s].gen
         \/ ticks' >= envs[s].sleep_until]_vars

(* Everybody who sleeps is woken up (or destroyed), even when all sleep at *)
(* once and every CPU is in sched_halt().                                  *)
SleepersWakeUp == \A s \in Slots : Asleep(envs, s) ~> ~Asleep(envs, s)

(* Preemptive scheduling: a ready environment gets a CPU (or is destroyed) *)
(* even if no other ever gives up its own.                                 *)
ReadyRuns ==
  \A s \in Slots :
    envs[s].status = "RUNNABLE" ~> envs[s].status # "RUNNABLE"

(* Every CPU keeps its timer: each timer interrupt has been acknowledged   *)
(* by the time the CPU leaves the kernel.                                  *)
TimerAcknowledged == \A c \in CPUs : ~eoi_pending[c]
=============================================================================
