----------------------------- MODULE KernelLock -----------------------------
(***************************************************************************)
(* The same kernel step by step: how the CPUs are started, how they take   *)
(* and release the big kernel lock (kern/spinlock.c, with the checks of    *)
(* DEBUG_SPINLOCK), and what a CPU still does after it has released it     *)
(* (kern/init.c, kern/mpentry.S, kern/trap.c, kern/sched.c, kern/env.c).   *)
(*                                                                         *)
(* The variables of Kernel are here the memory itself, which changes in    *)
(* the middle of a visit.  `committed' (history) is what it was when the   *)
(* last visit ended: that part is shown to behave like Kernel, where a     *)
(* visit is one step.                                                      *)
(***************************************************************************)
EXTENDS Kernel

(* lk->cpu is null, or one of the CPUs. *)
ASSUME LockAssumption == NULL \notin CPUs

VARIABLES
  pc,              \* where each CPU is
  locked,          \* kernel_lock.locked
  lock_cpu,        \* kernel_lock.cpu, which holding() compares
  lock_calls,      \* calls of lock_kernel() the CPU still has to make
  cpu_status,      \* of struct CpuInfo
  trapno,          \* why the CPU entered the kernel
  next_env,        \* the environment env_run() was given
  env_cpunum,      \* of struct Env, written outside the lock
  mpentry_kstack,  \* the stack for the CPU being started
  kstack,          \* the stack each CPU has taken
  committed        \* (history) the kernel's state between visits

memory   == <<envs, env_free_list, curenv, cr3, pp_ref, ticks, eoi_pending>>
lockvars == <<locked, lock_cpu, lock_calls>>
bootvars == <<mpentry_kstack, kstack>>
control  == <<pc, cpu_mode, lockvars, cpu_status, trapno, next_env,
              env_cpunum, bootvars>>
allvars  == <<memory, control, committed>>

(* Inside lock_kernel(), then in the kernel with the lock, then without.   *)
Locking  == {"holding", "holding_cpu", "xchg"}
Critical == {"own", "boot_aps", "wait_ap", "handler", "return", "sched",
             "env_run", "switch", "unlock", "release", "monitor"}
Outside  == {"off", "mpentry", "mp_main", "i386_init", "env_cpunum", "user",
             "hlt", "panic"}

Snapshot ==
  [envs |-> envs, env_free_list |-> env_free_list, curenv |-> curenv,
   cpu_mode |-> cpu_mode, cr3 |-> cr3, pp_ref |-> pp_ref, ticks |-> ticks,
   eoi_pending |-> eoi_pending]

(* CPU c ends its visit in this mode.  The interrupts that have already    *)
(* reached other CPUs belong to visits to come.                            *)
EndVisit(c, mode) ==
  /\ cpu_mode' = [cpu_mode EXCEPT ![c] = mode]
  /\ committed' = [Snapshot EXCEPT
                     !.cpu_mode = cpu_mode',
                     !.eoi_pending = [committed.eoi_pending EXCEPT
                                        ![c] = eoi_pending[c]]]

LockInit ==
  /\ Init
  /\ pc = [c \in CPUs |-> IF c = BSP THEN "i386_init" ELSE "off"]
  /\ locked = FALSE
  /\ lock_cpu = NULL
  /\ lock_calls = [c \in CPUs |-> 1]
  /\ cpu_status = [c \in CPUs |-> IF c = BSP THEN "STARTED" ELSE "UNUSED"]
  /\ trapno = [c \in CPUs |-> "none"]
  /\ next_env = [c \in CPUs |-> NULL]
  /\ env_cpunum = [s \in Slots |-> NULL]
  /\ mpentry_kstack = BSP
  /\ kstack = [c \in CPUs |-> c]
  /\ committed = Snapshot

Goto(c, from, to) == pc[c] = from /\ pc' = [pc EXCEPT ![c] = to]

(* What most steps leave alone. *)
SameLock    == UNCHANGED lockvars
SameControl == UNCHANGED <<cpu_mode, cpu_status, trapno, next_env, env_cpunum,
                           bootvars, committed>>
OnlyPc      == UNCHANGED memory /\ SameLock /\ SameControl

-----------------------------------------------------------------------------
(***************************************************************************)
(* spin_lock(): the check of holding() reads `locked' and then `cpu', each *)
(* of which another CPU may change in between.                             *)
(***************************************************************************)
ReadLocked(c) ==
  /\ Goto(c, "holding", IF locked THEN "holding_cpu" ELSE "xchg")
  /\ OnlyPc

ReadLockCpu(c) ==
  /\ Goto(c, "holding_cpu", IF lock_cpu = c THEN "panic" ELSE "xchg")
  /\ OnlyPc

(* while (xchg(&lk->locked, 1) != 0) *)
XchgIgnoresValue(c) ==
  /\ Goto(c, "xchg", "own")
  /\ locked' = TRUE
  /\ UNCHANGED <<memory, lock_cpu, lock_calls>> /\ SameControl

Xchg(c) ==
  /\ Goto(c, "xchg", "own")
  /\ ~locked
  /\ locked' = TRUE
  /\ UNCHANGED <<memory, lock_cpu, lock_calls>> /\ SameControl

(* lk->cpu = thiscpu, and back to whoever called lock_kernel(): trap() may *)
(* have another call to make.                                              *)
Own(c) ==
  /\ Goto(c, "own",
          IF lock_calls[c] > 1 THEN "holding"
          ELSE IF cpu_mode[c] # "boot" THEN "handler"
          ELSE IF c = BSP THEN "boot_aps" ELSE "sched")
  /\ lock_cpu' = c
  /\ lock_calls' = [lock_calls EXCEPT ![c] = @ - 1]
  /\ UNCHANGED <<memory, locked>> /\ SameControl

(* spin_unlock(): the owner is cleared while the lock is still held.       *)
UnlockKeepsCpu(c) ==
  /\ Goto(c, "unlock", IF locked /\ lock_cpu = c THEN "release" ELSE "panic")
  /\ OnlyPc

Unlock(c) ==
  /\ Goto(c, "unlock", IF locked /\ lock_cpu = c THEN "release" ELSE "panic")
  /\ lock_cpu' = NULL
  /\ UNCHANGED <<memory, locked, lock_calls>> /\ SameControl

(* xchg(&lk->locked, 0), which ends the visit: sched_halt() goes on to     *)
(* hlt, and env_run() to what it does last.                                *)
Release(c) ==
  LET halted == next_env[c] = NULL
  IN  /\ Goto(c, "release", IF halted THEN "hlt" ELSE "env_cpunum")
      /\ locked' = FALSE
      /\ EndVisit(c, IF halted THEN "halted" ELSE "user")
      /\ trapno' = [trapno EXCEPT ![c] = "none"]
      /\ next_env' = [next_env EXCEPT ![c] = NULL]
      /\ UNCHANGED <<memory, lock_cpu, lock_calls, cpu_status, env_cpunum,
                     bootvars>>

-----------------------------------------------------------------------------
(***************************************************************************)
(* Start-up.  The boot CPU takes the lock, starts the others one by one,   *)
(* handing each its stack in mpentry_kstack, and then schedules.           *)
(***************************************************************************)
I386Init(c) == Goto(c, "i386_init", "holding") /\ OnlyPc

(* The INIT and the two STARTUP interrupts that start a CPU: the second    *)
(* STARTUP finds it running and is ignored.                                *)
LapicStartap(at, ap) == [at EXCEPT ![ap] = "mpentry"]

StartAp(c, ap) ==
  /\ pc[c] = "boot_aps"
  /\ pc[ap] = "off"
  /\ pc' = LapicStartap([pc EXCEPT ![c] = "wait_ap"], ap)
  /\ mpentry_kstack' = ap
  /\ SameLock
  /\ UNCHANGED <<memory, cpu_mode, cpu_status, trapno, next_env, env_cpunum,
                 kstack, committed>>

WaitApNot(c) == Goto(c, "wait_ap", "boot_aps") /\ OnlyPc

WaitAp(c) ==
  /\ Goto(c, "wait_ap", "boot_aps")
  /\ cpu_status[mpentry_kstack] = "STARTED"
  /\ OnlyPc

ApsStarted(c) ==
  /\ Goto(c, "boot_aps", "sched")
  /\ \A ap \in CPUs : pc[ap] # "off"
  /\ OnlyPc

(* mpentry.S loads mpentry_kstack into %esp. *)
MpEntry(c) ==
  /\ Goto(c, "mpentry", "mp_main")
  /\ kstack' = [kstack EXCEPT ![c] = mpentry_kstack]
  /\ SameLock
  /\ UNCHANGED <<memory, cpu_mode, cpu_status, trapno, next_env, env_cpunum,
                 mpentry_kstack, committed>>

MpMainLocksFirst(c) == Goto(c, "mp_main", "holding") /\ OnlyPc

MpMain(c) ==
  /\ Goto(c, "mp_main", "holding")
  /\ cpu_status' = [cpu_status EXCEPT ![c] = "STARTED"]
  /\ SameLock
  /\ UNCHANGED <<memory, cpu_mode, trapno, next_env, env_cpunum, bootvars,
                 committed>>

-----------------------------------------------------------------------------
(***************************************************************************)
(* trap().  A CPU that was halted in the kernel takes the lock because its *)
(* cpu_status says so; one that comes from user mode, because of tf_cs.    *)
(***************************************************************************)
LockCallsUserOnly(c) == IF cpu_mode[c] = "user" THEN 1 ELSE 0

LockCalls(c) == (IF cpu_status[c] = "HALTED" THEN 1 ELSE 0)
                + (IF cpu_mode[c] = "user" THEN 1 ELSE 0)

StatusAfterTrap(c) == [cpu_status EXCEPT ![c] = "STARTED"]

Trap(c, no) ==
  /\ \/ pc[c] = "user"
     \/ pc[c] = "hlt" /\ no = "timer"
  /\ no = "timer" => ~eoi_pending[c]
  /\ lock_calls' = [lock_calls EXCEPT ![c] = LockCalls(c)]
  /\ pc' = [pc EXCEPT ![c] = IF LockCalls(c) = 0 THEN "handler"
                                                 ELSE "holding"]
  /\ cpu_status' = StatusAfterTrap(c)
  /\ trapno' = [trapno EXCEPT ![c] = no]
  /\ eoi_pending' = [eoi_pending EXCEPT ![c] = @ \/ no = "timer"]
  /\ UNCHANGED <<envs, env_free_list, curenv, cpu_mode, cr3, pp_ref, ticks,
                 locked, lock_cpu, next_env, env_cpunum, bootvars, committed>>

(* curenv is a zombie: env_free(), and on to the scheduler. *)
Dying(c) == cpu_mode[c] = "user" /\ envs[curenv[c]].status = "DYING"

FreeCurenvKeepsPgdir(c) ==
  /\ EnvFree(curenv[c])
  /\ envs' = AfterFree(envs, curenv[c])
  /\ curenv' = [curenv EXCEPT ![c] = NULL]
  /\ UNCHANGED cr3

FreeCurenv(c) ==
  /\ EnvFree(curenv[c])
  /\ envs' = AfterFree(envs, curenv[c])
  /\ curenv' = [curenv EXCEPT ![c] = NULL]
  /\ cr3' = [cr3 EXCEPT ![c] = KernPgdir]

HandleZombie(c) ==
  /\ Goto(c, "handler", "sched")
  /\ Dying(c)
  /\ FreeCurenv(c)
  /\ SameLock /\ SameControl
  /\ UNCHANGED <<ticks, eoi_pending>>

Handle(c, no, then) ==
  /\ Goto(c, "handler", then)
  /\ ~Dying(c)
  /\ trapno[c] = no
  /\ SameLock /\ SameControl

HandleTimer(c) ==
  /\ Handle(c, "timer", "sched")
  /\ eoi_pending' = [eoi_pending EXCEPT ![c] = FALSE]
  /\ ticks' = IF ticks = LastTick THEN ticks ELSE TickSum(ticks, 1)
  /\ envs' = Woken(envs, ticks')
  /\ UNCHANGED <<env_free_list, curenv, cr3, pp_ref>>

HandleExofork(c, p) ==
  LET new == Head(env_free_list)
      cur == curenv[c]
  IN  /\ Handle(c, "fork", "return")
      /\ CanAlloc(p)
      /\ envs' = [envs EXCEPT ![new] =
                    [NewEnv(envs[new], EnvId(envs, cur), p) EXCEPT
                       !.status = "NOT_RUNNABLE",
                       !.priority = envs[cur].priority]]
      /\ env_free_list' = Tail(env_free_list)
      /\ pp_ref' = [pp_ref EXCEPT ![p] = @ + 1]
      /\ UNCHANGED <<curenv, cr3, ticks, eoi_pending>>

HandleSetStatusAny(c, s) ==
  /\ Handle(c, "fork", "return")
  /\ s # curenv[c] /\ MayControl(envs, curenv[c], s)
  /\ envs' = [envs EXCEPT ![s].status = "RUNNABLE"]
  /\ UNCHANGED <<env_free_list, curenv, cr3, pp_ref, ticks, eoi_pending>>

HandleSetStatus(c, s) ==
  /\ Handle(c, "fork", "return")
  /\ s # curenv[c] /\ MayControl(envs, curenv[c], s) /\ Embryo(envs[s])
  /\ envs' = [envs EXCEPT ![s].status = "RUNNABLE"]
  /\ UNCHANGED <<env_free_list, curenv, cr3, pp_ref, ticks, eoi_pending>>

HandleDestroy(c, s) ==
  /\ Handle(c, "destroy", "return")
  /\ s # curenv[c] /\ MayControl(envs, curenv[c], s)
  /\ envs[s].status # "DYING"
  /\ \/ /\ envs[s].status = "RUNNING"
        /\ envs' = [envs EXCEPT ![s].status = "DYING"]
        /\ UNCHANGED <<env_free_list, pp_ref>>
     \/ /\ envs[s].status # "RUNNING"
        /\ EnvFree(s)
        /\ envs' = AfterFree(envs, s)
  /\ UNCHANGED <<curenv, cr3, ticks, eoi_pending>>

HandleExit(c) ==
  /\ Handle(c, "exit", "sched")
  /\ FreeCurenv(c)
  /\ UNCHANGED <<ticks, eoi_pending>>

(* A call that only returns a value, or an error. *)
HandleNothing(c) ==
  /\ \E no \in Calls : Handle(c, no, "return")
  /\ UNCHANGED memory

(* The end of trap(). *)
Return(c) ==
  LET running == envs[curenv[c]].status = "RUNNING"
  IN  /\ Goto(c, "return", IF running THEN "env_run" ELSE "sched")
      /\ next_env' = [next_env EXCEPT ![c] = IF running THEN curenv[c] ELSE @]
      /\ SameLock
      /\ UNCHANGED <<memory, cpu_mode, cpu_status, trapno, env_cpunum,
                     bootvars, committed>>

-----------------------------------------------------------------------------
(***************************************************************************)
(* sched_yield(), sched_halt() and env_run().                              *)
(***************************************************************************)
Sched(c) ==
  \E r \in Slots :
    /\ Goto(c, "sched", "env_run")
    /\ Picks(envs, curenv[c], r)
    /\ envs' = Aged(envs, r)
    /\ next_env' = [next_env EXCEPT ![c] = r]
    /\ SameLock
    /\ UNCHANGED <<env_free_list, curenv, cr3, pp_ref, ticks, eoi_pending,
                   cpu_mode, cpu_status, trapno, env_cpunum, bootvars,
                   committed>>

Halt(c) ==
  /\ Goto(c, "sched", "unlock")
  /\ ~CanPick(envs, curenv[c])
  /\ Pending(envs)
  /\ curenv' = [curenv EXCEPT ![c] = NULL]
  /\ cr3' = [cr3 EXCEPT ![c] = KernPgdir]
  /\ cpu_status' = [cpu_status EXCEPT ![c] = "HALTED"]
  /\ SameLock
  /\ UNCHANGED <<envs, env_free_list, pp_ref, ticks, eoi_pending, cpu_mode,
                 trapno, next_env, env_cpunum, bootvars, committed>>

(* The visit never ends: the monitor keeps the lock.                       *)
EnterMonitor(c) ==
  /\ Goto(c, "sched", "monitor")
  /\ ~CanPick(envs, curenv[c])
  /\ ~Pending(envs)
  /\ EndVisit(c, "monitor")
  /\ SameLock
  /\ UNCHANGED <<memory, cpu_status, trapno, next_env, env_cpunum, bootvars>>

(* env_run(): the previous environment goes back to the ready queue, ...   *)
Deschedule(c) ==
  /\ Goto(c, "env_run", "switch")
  /\ envs' = IF CanKeepCpu(envs, curenv[c])
             THEN [envs EXCEPT ![curenv[c]].status = "RUNNABLE"]
             ELSE envs
  /\ SameLock /\ SameControl
  /\ UNCHANGED <<env_free_list, curenv, cr3, pp_ref, ticks, eoi_pending>>

(* ... the next one is made curenv and its page directory loaded, ...      *)
Switch(c) ==
  LET e == next_env[c]
  IN  /\ Goto(c, "switch", "unlock")
      /\ curenv' = [curenv EXCEPT ![c] = e]
      /\ envs' = [envs EXCEPT ![e].status = "RUNNING"]
      /\ cr3' = [cr3 EXCEPT ![c] = envs[e].pgdir]
      /\ SameLock /\ SameControl
      /\ UNCHANGED <<env_free_list, pp_ref, ticks, eoi_pending>>

(* ... and, after unlock_kernel(), env_cpunum is written.                  *)
WriteCpunum(c) ==
  /\ Goto(c, "env_cpunum", "user")
  /\ env_cpunum' = [env_cpunum EXCEPT ![curenv[c]] = c]
  /\ SameLock
  /\ UNCHANGED <<memory, cpu_mode, cpu_status, trapno, next_env, bootvars,
                 committed>>

-----------------------------------------------------------------------------

(* What a CPU does by itself once it is in the kernel. *)
KernelStep(c) ==
  \/ ReadLocked(c) \/ ReadLockCpu(c) \/ Xchg(c) \/ Own(c)
  \/ Unlock(c) \/ Release(c)
  \/ I386Init(c) \/ WaitAp(c) \/ ApsStarted(c) \/ MpEntry(c) \/ MpMain(c)
  \/ \E ap \in CPUs : StartAp(c, ap)
  \/ HandleZombie(c) \/ HandleTimer(c) \/ HandleExit(c) \/ HandleNothing(c)
  \/ \E p \in Pages : HandleExofork(c, p)
  \/ \E s \in Slots : HandleSetStatus(c, s) \/ HandleDestroy(c, s)
  \/ Return(c) \/ Sched(c) \/ Halt(c) \/ EnterMonitor(c)
  \/ Deschedule(c) \/ Switch(c) \/ WriteCpunum(c)

LockNext ==
  \E c \in CPUs :
    \/ KernelStep(c)
    \/ \E no \in Calls \cup {"timer"} : Trap(c, no)

(* Every CPU keeps executing instructions.  Nothing is assumed of who wins *)
(* the lock.                                                               *)
LockSpec ==
  LockInit /\ [][LockNext]_allvars /\ \A c \in CPUs : WF_allvars(KernelStep(c))

-----------------------------------------------------------------------------
(***************************************************************************)
(* Properties.                                                             *)
(***************************************************************************)

(* The big kernel lock works: at most one CPU is between the xchg of       *)
(* lock_kernel() and the xchg of unlock_kernel().                          *)
MutualExclusion ==
  \A c, d \in CPUs : pc[c] \in Critical /\ pc[d] \in Critical => c = d

(* The checks of DEBUG_SPINLOCK never fire: no CPU takes the lock twice or *)
(* releases one it does not hold, and holding(), which reads the two       *)
(* fields of the lock without holding it, is never misled by what another  *)
(* CPU is doing to them.                                                   *)
NeverPanics == \A c \in CPUs : pc[c] # "panic"

(* Each CPU runs on a stack of its own: boot_aps() does not overwrite      *)
(* mpentry_kstack before the CPU it starts has read it.                    *)
StacksDistinct ==
  \A c, d \in CPUs :
    /\ pc[c] \notin {"off", "mpentry"} /\ pc[d] \notin {"off", "mpentry"}
    /\ kstack[c] = kstack[d]
    => c = d

(* What env_run() does after unlock_kernel() is safe: when the environment *)
(* is in user mode its env_cpunum is the CPU it runs on, whatever the      *)
(* other CPUs did in between, such as destroying it.                       *)
CpunumRight ==
  \A c \in CPUs : pc[c] = "user" => env_cpunum[curenv[c]] = c

(* The monitor, which never gives the lock back, is entered only when no   *)
(* CPU has an environment, not even one that is waiting for the lock.      *)
MonitorAlone ==
  \A c, d \in CPUs : pc[c] = "monitor" /\ d # c => curenv[d] = NULL

(* While the lock is free the kernel's data is what the last visit left:   *)
(* nothing is written outside the lock.                                    *)
NothingPending ==
  ~locked => /\ envs = committed.envs
             /\ env_free_list = committed.env_free_list
             /\ pp_ref = committed.pp_ref
             /\ ticks = committed.ticks
             /\ curenv = committed.curenv
             /\ cr3 = committed.cr3

(* Whoever has the lock gives it back, unless it is in the monitor.        *)
LockComesBack == locked ~> ~locked \/ \E c \in CPUs : pc[c] = "monitor"

(* Atomic visits: what the visits to the kernel do, one instruction after  *)
(* another on several CPUs, is a behaviour of Kernel, in which each visit  *)
(* is a single step.                                                       *)
Atomic == INSTANCE Kernel WITH
            envs <- committed.envs,
            env_free_list <- committed.env_free_list,
            curenv <- committed.curenv,
            cpu_mode <- committed.cpu_mode,
            cr3 <- committed.cr3,
            pp_ref <- committed.pp_ref,
            ticks <- committed.ticks,
            eoi_pending <- committed.eoi_pending

ImplementsKernel == Atomic!Spec
=============================================================================
