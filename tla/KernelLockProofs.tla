-------------------------- MODULE KernelLockProofs --------------------------
(***************************************************************************)
(* Proofs about KernelLock, for any number of CPUs, slots, pages and       *)
(* environments: the big kernel lock excludes, its checks never fire,      *)
(* every CPU has a stack of its own, and KernelLock implements Kernel.     *)
(***************************************************************************)
EXTENDS KernelLock, KernelProofs

PCs == Locking \cup Critical \cup Outside

LockTypes ==
  /\ pc \in [CPUs -> PCs]
  /\ locked \in BOOLEAN
  /\ lock_calls \in [CPUs -> Nat]
  /\ cpu_status \in [CPUs -> {"UNUSED", "STARTED", "HALTED"}]
  /\ cpu_mode \in [CPUs -> Modes]
  /\ trapno \in [CPUs -> Calls \cup {"timer", "none"}]
  /\ next_env \in [CPUs -> Slots \cup {NULL}]
  /\ curenv \in [CPUs -> Slots \cup {NULL}]
  /\ kstack \in [CPUs -> CPUs]
  /\ mpentry_kstack \in CPUs

(* The lock is held by exactly one CPU, or free; kernel_lock.cpu is the    *)
(* holder, except right after one xchg and right before the other.         *)
Holder ==
  /\ MutualExclusion
  /\ locked <=> \E c \in CPUs : pc[c] \in Critical
  /\ \A c \in CPUs : lock_cpu = c <=> pc[c] \in Critical \ {"own", "release"}

(* What a CPU has to know at each place so that it calls lock_kernel()     *)
(* once, whether it comes from user mode or from hlt, and so that it goes  *)
(* back to where it belongs when it releases the lock.                     *)
Scheduling == {"env_run", "switch", "unlock", "release"}
Starting   == {"off", "mpentry", "mp_main"}

CpuInv(c) ==
  /\ pc[c] # "panic"
  /\ pc[c] \in Locking \cup Starting \cup {"own", "i386_init"} => lock_calls[c] = 1
  /\ pc[c] \in Starting => cpu_status[c] = "UNUSED" /\ cpu_mode[c] = "boot"
  /\ pc[c] = "i386_init" => cpu_mode[c] = "boot"
  /\ pc[c] \in {"i386_init", "boot_aps", "wait_ap"} => c = BSP
  /\ pc[c] \in {"user", "env_cpunum"} => cpu_mode[c] = "user" /\ curenv[c] \in Slots
  /\ pc[c] = "hlt" => cpu_mode[c] = "halted" /\ cpu_status[c] = "HALTED"
  /\ cpu_status[c] = "HALTED" =>
       pc[c] = "hlt" \/ (pc[c] \in {"unlock", "release"} /\ next_env[c] = NULL)
  /\ pc[c] \in {"unlock", "release"} /\ next_env[c] = NULL => cpu_status[c] = "HALTED"
  /\ pc[c] \in {"unlock", "release"} => next_env[c] \in {NULL, curenv[c]}
  /\ pc[c] \in {"env_run", "switch"} => next_env[c] \in Slots
  /\ pc[c] \notin Scheduling => next_env[c] = NULL
  /\ pc[c] = "handler" => cpu_mode[c] # "boot"
  /\ /\ pc[c] \in Locking \cup {"own", "handler"}
     /\ cpu_mode[c] # "boot"
     /\ trapno[c] # "timer"
     => curenv[c] \in Slots
  /\ pc[c] = "return" => curenv[c] \in Slots

(* While a CPU is on its way to its stack, boot_aps() waits for it.        *)
StackInv ==
  /\ \A c \in CPUs : kstack[c] = c
  /\ \A c \in CPUs : pc[c] = "mpentry" => pc[BSP] = "wait_ap" /\ mpentry_kstack = c

LockInv == LockTypes /\ Holder /\ (\A c \in CPUs : CpuInv(c)) /\ StackInv

(* A CPU that makes no step keeps what it knows. *)
LocalVars(d) == <<pc[d], lock_calls[d], cpu_status[d], cpu_mode[d], trapno[d],
                  next_env[d], curenv[d]>>

LEMMA OthersKept ==
  ASSUME NEW d \in CPUs, CpuInv(d), LocalVars(d)' = LocalVars(d)
  PROVE  CpuInv(d)'
BY DEF CpuInv, LocalVars

(* A step inside the critical section, or outside of it. *)
LEMMA HolderKept ==
  ASSUME LockTypes, Holder, NEW c \in CPUs, NEW q,
         pc' = [pc EXCEPT ![c] = q], UNCHANGED <<locked, lock_cpu>>,
         \/ pc[c] \in Critical \ {"own", "release"} /\ q \in Critical \ {"own", "release"}
         \/ pc[c] \notin Critical /\ q \notin Critical
  PROVE  Holder'
<1>1. \A d \in CPUs : pc'[d] \in Critical <=> pc[d] \in Critical
  BY DEF LockTypes
<1>2. \A d \in CPUs : pc'[d] \in Critical \ {"own", "release"} <=> pc[d] \in Critical \ {"own", "release"}
  BY DEF LockTypes
<1> QED BY <1>1, <1>2 DEF Holder, MutualExclusion

(* StackInv is about the CPUs that are being started only. *)
LEMMA StackKept ==
  ASSUME LockTypes, StackInv, NEW c \in CPUs, NEW q,
         pc' = [pc EXCEPT ![c] = q], UNCHANGED bootvars,
         q # "mpentry", pc[c] # "wait_ap"
  PROVE  StackInv'
BY KernelAssumption DEF StackInv, LockTypes, bootvars

LEMMA ReadLockedInv ==
  ASSUME LockInv, NEW c \in CPUs, ReadLocked(c)
  PROVE  LockInv'
<1> DEFINE q == IF locked THEN "holding_cpu" ELSE "xchg"
<1>1. /\ pc[c] = "holding" /\ pc' = [pc EXCEPT ![c] = q]
      /\ UNCHANGED <<locked, lock_cpu, lock_calls, cpu_status, cpu_mode,
                     trapno, next_env, curenv, kstack, mpentry_kstack>>
  BY DEF ReadLocked, Goto, OnlyPc, SameLock, SameControl, lockvars, memory, bootvars
<1>2. LockTypes'
  BY <1>1 DEF LockInv, LockTypes, PCs, Locking, Critical, Outside
<1>3. Holder'
  BY <1>1, HolderKept DEF LockInv, Critical
<1>4. CpuInv(c)'
  BY <1>1 DEF LockInv, LockTypes, CpuInv, Locking, Scheduling, Starting
<1>5. \A d \in CPUs : d # c => CpuInv(d)'
  BY <1>1, OthersKept DEF LockInv, LockTypes, LocalVars
<1>6. StackInv'
  BY <1>1, StackKept DEF LockInv, bootvars
<1> QED BY <1>2, <1>3, <1>4, <1>5, <1>6 DEF LockInv

(* holding() is not misled: a CPU outside the lock is never lock_cpu. *)
LEMMA ReadLockCpuInv ==
  ASSUME LockInv, NEW c \in CPUs, ReadLockCpu(c)
  PROVE  LockInv'
<1>0. pc[c] = "holding_cpu" /\ lock_cpu # c
  BY DEF ReadLockCpu, Goto, LockInv, Holder, Critical
<1>1. /\ pc[c] = "holding_cpu" /\ pc' = [pc EXCEPT ![c] = "xchg"]
      /\ UNCHANGED <<locked, lock_cpu, lock_calls, cpu_status, cpu_mode,
                     trapno, next_env, curenv, kstack, mpentry_kstack>>
  BY <1>0 DEF ReadLockCpu, Goto, OnlyPc, SameLock, SameControl, lockvars, memory, bootvars
<1>2. LockTypes'
  BY <1>1 DEF LockInv, LockTypes, PCs, Locking, Critical, Outside
<1>3. Holder'
  BY <1>1, HolderKept DEF LockInv, Critical
<1>4. CpuInv(c)'
  BY <1>1 DEF LockInv, LockTypes, CpuInv, Locking, Scheduling, Starting
<1>5. \A d \in CPUs : d # c => CpuInv(d)'
  BY <1>1, OthersKept DEF LockInv, LockTypes, LocalVars
<1>6. StackInv'
  BY <1>1, StackKept DEF LockInv, bootvars
<1> QED BY <1>2, <1>3, <1>4, <1>5, <1>6 DEF LockInv

LEMMA XchgInv ==
  ASSUME LockInv, NEW c \in CPUs, Xchg(c)
  PROVE  LockInv'
<1>1. /\ pc[c] = "xchg" /\ pc' = [pc EXCEPT ![c] = "own"]
      /\ ~locked /\ locked' = TRUE
      /\ UNCHANGED <<lock_cpu, lock_calls, cpu_status, cpu_mode, trapno,
                     next_env, curenv, kstack, mpentry_kstack>>
  BY DEF Xchg, Goto, OnlyPc, SameLock, SameControl, lockvars, memory, bootvars
<1>2. LockTypes'
  BY <1>1 DEF LockInv, LockTypes, PCs, Locking, Critical, Outside
<1>3. Holder'
  BY <1>1 DEF LockInv, LockTypes, Holder, MutualExclusion, Critical
<1>4. CpuInv(c)'
  BY <1>1 DEF LockInv, LockTypes, CpuInv, Locking, Scheduling, Starting
<1>5. \A d \in CPUs : d # c => CpuInv(d)'
  BY <1>1, OthersKept DEF LockInv, LockTypes, LocalVars
<1>6. StackInv'
  BY <1>1, StackKept DEF LockInv, bootvars
<1> QED BY <1>2, <1>3, <1>4, <1>5, <1>6 DEF LockInv

(* No CPU has to call lock_kernel() a second time. *)
LEMMA OwnInv ==
  ASSUME LockInv, NEW c \in CPUs, Own(c)
  PROVE  LockInv'
<1> DEFINE q == IF cpu_mode[c] # "boot" THEN "handler"
              ELSE IF c = BSP THEN "boot_aps" ELSE "sched"
<1>0. pc[c] = "own" /\ lock_calls[c] = 1
  BY DEF Own, Goto, LockInv, CpuInv
<1>1. /\ pc[c] = "own" /\ pc' = [pc EXCEPT ![c] = q]
      /\ lock_cpu' = c
      /\ lock_calls' = [lock_calls EXCEPT ![c] = 0]
      /\ UNCHANGED <<locked, cpu_status, cpu_mode, trapno, next_env,
                     curenv, kstack, mpentry_kstack>>
  BY <1>0 DEF Own, Goto, OnlyPc, SameLock, SameControl, lockvars, memory, bootvars
<1>2. LockTypes'
  BY <1>1 DEF LockInv, LockTypes, PCs, Locking, Critical, Outside
<1>3. Holder'
  BY <1>1 DEF LockInv, LockTypes, Holder, MutualExclusion, Critical
<1>4. CpuInv(c)'
  BY <1>1 DEF LockInv, LockTypes, CpuInv, Locking, Scheduling, Starting
<1>5. \A d \in CPUs : d # c => CpuInv(d)'
  BY <1>1, OthersKept DEF LockInv, LockTypes, LocalVars
<1>6. StackInv'
  BY <1>1, StackKept DEF LockInv, bootvars
<1> QED BY <1>2, <1>3, <1>4, <1>5, <1>6 DEF LockInv

LEMMA UnlockInv ==
  ASSUME LockInv, NEW c \in CPUs, Unlock(c)
  PROVE  LockInv'
<1>0. pc[c] = "unlock" /\ locked /\ lock_cpu = c
  BY DEF Unlock, Goto, LockInv, Holder, Critical
<1>1. /\ pc[c] = "unlock" /\ pc' = [pc EXCEPT ![c] = "release"]
      /\ lock_cpu' = NULL
      /\ UNCHANGED <<locked, lock_calls, cpu_status, cpu_mode, trapno,
                     next_env, curenv, kstack, mpentry_kstack>>
  BY <1>0 DEF Unlock, Goto, OnlyPc, SameLock, SameControl, lockvars, memory, bootvars
<1>2. LockTypes'
  BY <1>1 DEF LockInv, LockTypes, PCs, Locking, Critical, Outside
<1>3. Holder'
  BY <1>1, LockAssumption DEF LockInv, LockTypes, Holder, MutualExclusion, Critical
<1>4. CpuInv(c)'
  BY <1>1 DEF LockInv, LockTypes, CpuInv, Locking, Scheduling, Starting
<1>5. \A d \in CPUs : d # c => CpuInv(d)'
  BY <1>1, OthersKept DEF LockInv, LockTypes, LocalVars
<1>6. StackInv'
  BY <1>1, StackKept DEF LockInv, bootvars
<1> QED BY <1>2, <1>3, <1>4, <1>5, <1>6 DEF LockInv

LEMMA ReleaseInv ==
  ASSUME LockInv, NEW c \in CPUs, Release(c)
  PROVE  LockInv'
<1> DEFINE q == IF next_env[c] = NULL THEN "hlt" ELSE "env_cpunum"
<1>1. /\ pc[c] = "release" /\ pc' = [pc EXCEPT ![c] = q]
      /\ locked' = FALSE
      /\ cpu_mode' = [cpu_mode EXCEPT ![c] = IF next_env[c] = NULL THEN "halted" ELSE "user"]
      /\ trapno' = [trapno EXCEPT ![c] = "none"]
      /\ next_env' = [next_env EXCEPT ![c] = NULL]
      /\ UNCHANGED <<lock_cpu, lock_calls, cpu_status, curenv, kstack,
                     mpentry_kstack>>
  BY DEF Release, Goto, EndVisit, memory, bootvars
<1>2. LockTypes'
  BY <1>1 DEF LockInv, LockTypes, PCs, Locking, Critical, Outside, Modes
<1>3. Holder'
  BY <1>1 DEF LockInv, LockTypes, Holder, MutualExclusion, Critical
<1>4. CpuInv(c)'
  BY <1>1 DEF LockInv, LockTypes, CpuInv, Locking, Scheduling, Starting
<1>5. \A d \in CPUs : d # c => CpuInv(d)'
  BY <1>1, OthersKept DEF LockInv, LockTypes, LocalVars
<1>6. StackInv'
  BY <1>1, StackKept DEF LockInv, bootvars
<1> QED BY <1>2, <1>3, <1>4, <1>5, <1>6 DEF LockInv

LEMMA I386InitInv ==
  ASSUME LockInv, NEW c \in CPUs, I386Init(c)
  PROVE  LockInv'
<1>1. /\ pc[c] = "i386_init" /\ pc' = [pc EXCEPT ![c] = "holding"]
      /\ UNCHANGED <<locked, lock_cpu, lock_calls, cpu_status, cpu_mode,
                     trapno, next_env, curenv, kstack, mpentry_kstack>>
  BY DEF I386Init, Goto, OnlyPc, SameLock, SameControl, lockvars, memory, bootvars
<1>2. LockTypes'
  BY <1>1 DEF LockInv, LockTypes, PCs, Locking, Critical, Outside
<1>3. Holder'
  BY <1>1, HolderKept DEF LockInv, Critical
<1>4. CpuInv(c)'
  BY <1>1 DEF LockInv, LockTypes, CpuInv, Locking, Scheduling, Starting
<1>5. \A d \in CPUs : d # c => CpuInv(d)'
  BY <1>1, OthersKept DEF LockInv, LockTypes, LocalVars
<1>6. StackInv'
  BY <1>1, StackKept DEF LockInv, bootvars
<1> QED BY <1>2, <1>3, <1>4, <1>5, <1>6 DEF LockInv

(* boot_aps() goes on when the CPU it waits for has left mpentry.S. *)
LEMMA WaitApInv ==
  ASSUME LockInv, NEW c \in CPUs, WaitAp(c)
  PROVE  LockInv'
<1>0. cpu_status[mpentry_kstack] = "STARTED"
  BY DEF WaitAp
<1>1. /\ pc[c] = "wait_ap" /\ pc' = [pc EXCEPT ![c] = "boot_aps"]
      /\ UNCHANGED <<locked, lock_cpu, lock_calls, cpu_status, cpu_mode,
                     trapno, next_env, curenv, kstack, mpentry_kstack>>
  BY DEF WaitAp, Goto, OnlyPc, SameLock, SameControl, lockvars, memory, bootvars
<1>2. LockTypes'
  BY <1>1 DEF LockInv, LockTypes, PCs, Locking, Critical, Outside
<1>3. Holder'
  BY <1>1, HolderKept DEF LockInv, Critical
<1>4. CpuInv(c)'
  BY <1>1 DEF LockInv, LockTypes, CpuInv, Locking, Scheduling, Starting
<1>5. \A d \in CPUs : d # c => CpuInv(d)'
  BY <1>1, OthersKept DEF LockInv, LockTypes, LocalVars
<1>6. StackInv'
  BY <1>1, <1>0, KernelAssumption DEF LockInv, LockTypes, StackInv, CpuInv, Starting
<1> QED BY <1>2, <1>3, <1>4, <1>5, <1>6 DEF LockInv

LEMMA ApsStartedInv ==
  ASSUME LockInv, NEW c \in CPUs, ApsStarted(c)
  PROVE  LockInv'
<1>1. /\ pc[c] = "boot_aps" /\ pc' = [pc EXCEPT ![c] = "sched"]
      /\ UNCHANGED <<locked, lock_cpu, lock_calls, cpu_status, cpu_mode,
                     trapno, next_env, curenv, kstack, mpentry_kstack>>
  BY DEF ApsStarted, Goto, OnlyPc, SameLock, SameControl, lockvars, memory, bootvars
<1>2. LockTypes'
  BY <1>1 DEF LockInv, LockTypes, PCs, Locking, Critical, Outside
<1>3. Holder'
  BY <1>1, HolderKept DEF LockInv, Critical
<1>4. CpuInv(c)'
  BY <1>1 DEF LockInv, LockTypes, CpuInv, Locking, Scheduling, Starting
<1>5. \A d \in CPUs : d # c => CpuInv(d)'
  BY <1>1, OthersKept DEF LockInv, LockTypes, LocalVars
<1>6. StackInv'
  BY <1>1, StackKept DEF LockInv, bootvars
<1> QED BY <1>2, <1>3, <1>4, <1>5, <1>6 DEF LockInv

LEMMA MpEntryInv ==
  ASSUME LockInv, NEW c \in CPUs, MpEntry(c)
  PROVE  LockInv'
<1>1. /\ pc[c] = "mpentry" /\ pc' = [pc EXCEPT ![c] = "mp_main"]
      /\ kstack' = [kstack EXCEPT ![c] = mpentry_kstack]
      /\ UNCHANGED <<locked, lock_cpu, lock_calls, cpu_status, cpu_mode,
                     trapno, next_env, curenv, mpentry_kstack>>
  BY DEF MpEntry, Goto, SameLock, lockvars, memory
<1>2. LockTypes'
  BY <1>1 DEF LockInv, LockTypes, PCs, Locking, Critical, Outside
<1>3. Holder'
  BY <1>1, HolderKept DEF LockInv, Critical
<1>4. CpuInv(c)'
  BY <1>1 DEF LockInv, LockTypes, CpuInv, Locking, Scheduling, Starting
<1>5. \A d \in CPUs : d # c => CpuInv(d)'
  BY <1>1, OthersKept DEF LockInv, LockTypes, LocalVars
<1>6. StackInv'
  BY <1>1, KernelAssumption DEF LockInv, LockTypes, StackInv
<1> QED BY <1>2, <1>3, <1>4, <1>5, <1>6 DEF LockInv

LEMMA MpMainInv ==
  ASSUME LockInv, NEW c \in CPUs, MpMain(c)
  PROVE  LockInv'
<1>1. /\ pc[c] = "mp_main" /\ pc' = [pc EXCEPT ![c] = "holding"]
      /\ cpu_status' = [cpu_status EXCEPT ![c] = "STARTED"]
      /\ UNCHANGED <<locked, lock_cpu, lock_calls, cpu_mode, trapno,
                     next_env, curenv, kstack, mpentry_kstack>>
  BY DEF MpMain, Goto, SameLock, lockvars, memory, bootvars
<1>2. LockTypes'
  BY <1>1 DEF LockInv, LockTypes, PCs, Locking, Critical, Outside
<1>3. Holder'
  BY <1>1, HolderKept DEF LockInv, Critical
<1>4. CpuInv(c)'
  BY <1>1 DEF LockInv, LockTypes, CpuInv, Locking, Scheduling, Starting
<1>5. \A d \in CPUs : d # c => CpuInv(d)'
  BY <1>1, OthersKept DEF LockInv, LockTypes, LocalVars
<1>6. StackInv'
  BY <1>1, StackKept DEF LockInv, bootvars
<1> QED BY <1>2, <1>3, <1>4, <1>5, <1>6 DEF LockInv

(* From user mode or from hlt, trap() calls lock_kernel() exactly once.    *)
LEMMA TrapInv ==
  ASSUME LockInv, NEW c \in CPUs, NEW no \in Calls \cup {"timer"}, Trap(c, no)
  PROVE  LockInv'
<1>0. LockCalls(c) = 1
  BY DEF LockInv, LockTypes, CpuInv, Trap, LockCalls
<1>1. /\ pc[c] = "user" \/ (pc[c] = "hlt" /\ no = "timer")
      /\ pc' = [pc EXCEPT ![c] = "holding"]
      /\ lock_calls' = [lock_calls EXCEPT ![c] = 1]
      /\ cpu_status' = [cpu_status EXCEPT ![c] = "STARTED"]
      /\ trapno' = [trapno EXCEPT ![c] = no]
      /\ UNCHANGED <<locked, lock_cpu, cpu_mode, next_env, curenv, kstack,
                     mpentry_kstack>>
  BY <1>0 DEF Trap, StatusAfterTrap, bootvars
<1>2. LockTypes'
  BY <1>1 DEF LockInv, LockTypes, PCs, Locking
<1>3. Holder'
  BY <1>1, HolderKept DEF LockInv, Critical
<1>4. CpuInv(c)'
  BY <1>1 DEF LockInv, LockTypes, CpuInv, Locking, Scheduling, Starting
<1>5. \A d \in CPUs : d # c => CpuInv(d)'
  BY <1>1, OthersKept DEF LockInv, LockTypes, LocalVars
<1>6. StackInv'
  BY <1>1, StackKept DEF LockInv, bootvars
<1> QED BY <1>2, <1>3, <1>4, <1>5, <1>6 DEF LockInv

LEMMA HandleZombieInv ==
  ASSUME LockInv, NEW c \in CPUs, HandleZombie(c)
  PROVE  LockInv'
<1>1. /\ pc[c] = "handler" /\ pc' = [pc EXCEPT ![c] = "sched"]
      /\ curenv' = [curenv EXCEPT ![c] = NULL]
      /\ UNCHANGED <<locked, lock_cpu, lock_calls, cpu_status, cpu_mode,
                     trapno, next_env, kstack, mpentry_kstack>>
  BY DEF HandleZombie, FreeCurenv, Goto, SameLock, SameControl, lockvars, bootvars
<1>2. LockTypes'
  BY <1>1 DEF LockInv, LockTypes, PCs, Locking, Critical, Outside
<1>3. Holder'
  BY <1>1, HolderKept DEF LockInv, Critical
<1>4. CpuInv(c)'
  BY <1>1 DEF LockInv, LockTypes, CpuInv, Locking, Scheduling, Starting
<1>5. \A d \in CPUs : d # c => CpuInv(d)'
  BY <1>1, OthersKept DEF LockInv, LockTypes, LocalVars
<1>6. StackInv'
  BY <1>1, StackKept DEF LockInv, bootvars
<1> QED BY <1>2, <1>3, <1>4, <1>5, <1>6 DEF LockInv

LEMMA HandleTimerInv ==
  ASSUME LockInv, NEW c \in CPUs, HandleTimer(c)
  PROVE  LockInv'
<1>1. /\ pc[c] = "handler" /\ pc' = [pc EXCEPT ![c] = "sched"]
      /\ UNCHANGED <<locked, lock_cpu, lock_calls, cpu_status, cpu_mode,
                     trapno, next_env, curenv, kstack, mpentry_kstack>>
  BY DEF HandleTimer, Handle, Goto, SameLock, SameControl, lockvars, bootvars
<1>2. LockTypes'
  BY <1>1 DEF LockInv, LockTypes, PCs, Locking, Critical, Outside
<1>3. Holder'
  BY <1>1, HolderKept DEF LockInv, Critical
<1>4. CpuInv(c)'
  BY <1>1 DEF LockInv, LockTypes, CpuInv, Locking, Scheduling, Starting
<1>5. \A d \in CPUs : d # c => CpuInv(d)'
  BY <1>1, OthersKept DEF LockInv, LockTypes, LocalVars
<1>6. StackInv'
  BY <1>1, StackKept DEF LockInv, bootvars
<1> QED BY <1>2, <1>3, <1>4, <1>5, <1>6 DEF LockInv

LEMMA HandleExitInv ==
  ASSUME LockInv, NEW c \in CPUs, HandleExit(c)
  PROVE  LockInv'
<1>1. /\ pc[c] = "handler" /\ pc' = [pc EXCEPT ![c] = "sched"]
      /\ curenv' = [curenv EXCEPT ![c] = NULL]
      /\ UNCHANGED <<locked, lock_cpu, lock_calls, cpu_status, cpu_mode,
                     trapno, next_env, kstack, mpentry_kstack>>
  BY DEF HandleExit, Handle, FreeCurenv, Goto, SameLock, SameControl, lockvars, bootvars
<1>2. LockTypes'
  BY <1>1 DEF LockInv, LockTypes, PCs, Locking, Critical, Outside
<1>3. Holder'
  BY <1>1, HolderKept DEF LockInv, Critical
<1>4. CpuInv(c)'
  BY <1>1 DEF LockInv, LockTypes, CpuInv, Locking, Scheduling, Starting
<1>5. \A d \in CPUs : d # c => CpuInv(d)'
  BY <1>1, OthersKept DEF LockInv, LockTypes, LocalVars
<1>6. StackInv'
  BY <1>1, StackKept DEF LockInv, bootvars
<1> QED BY <1>2, <1>3, <1>4, <1>5, <1>6 DEF LockInv

(* The system calls that return to their caller. *)
Returning(c) ==
  \/ HandleNothing(c)
  \/ \E p \in Pages : HandleExofork(c, p)
  \/ \E s \in Slots : HandleSetStatus(c, s) \/ HandleDestroy(c, s)

LEMMA ReturningInv ==
  ASSUME LockInv, NEW c \in CPUs, Returning(c)
  PROVE  LockInv'
<1>0. \E no \in {"fork", "destroy"} \cup Calls : Handle(c, no, "return") /\ UNCHANGED curenv
  BY DEF Returning, HandleNothing, HandleExofork, HandleSetStatus, HandleDestroy, memory
<1>a. trapno[c] # "timer"
  BY <1>0, KernelAssumption DEF Handle, CallKinds
<1>1. /\ pc[c] = "handler" /\ pc' = [pc EXCEPT ![c] = "return"]
      /\ UNCHANGED <<locked, lock_cpu, lock_calls, cpu_status, cpu_mode,
                     trapno, next_env, curenv, kstack, mpentry_kstack>>
  BY <1>0 DEF Handle, Goto, SameLock, SameControl, lockvars, bootvars, memory
<1>2. LockTypes'
  BY <1>1 DEF LockInv, LockTypes, PCs, Locking, Critical, Outside
<1>3. Holder'
  BY <1>1, HolderKept DEF LockInv, Critical
<1>4. CpuInv(c)'
  BY <1>1, <1>a DEF LockInv, LockTypes, CpuInv, Locking, Scheduling, Starting
<1>5. \A d \in CPUs : d # c => CpuInv(d)'
  BY <1>1, OthersKept DEF LockInv, LockTypes, LocalVars
<1>6. StackInv'
  BY <1>1, StackKept DEF LockInv, bootvars
<1> QED BY <1>2, <1>3, <1>4, <1>5, <1>6 DEF LockInv

LEMMA ReturnInv ==
  ASSUME LockInv, NEW c \in CPUs, Return(c)
  PROVE  LockInv'
<1> DEFINE q == IF envs[curenv[c]].status = "RUNNING" THEN "env_run" ELSE "sched"
<1>1. /\ pc[c] = "return" /\ pc' = [pc EXCEPT ![c] = q]
      /\ next_env' = [next_env EXCEPT ![c] = IF envs[curenv[c]].status = "RUNNING" THEN curenv[c] ELSE @]
      /\ UNCHANGED <<locked, lock_cpu, lock_calls, cpu_status, cpu_mode,
                     trapno, curenv, kstack, mpentry_kstack>>
  BY DEF Return, Goto, SameLock, lockvars, bootvars, memory
<1>2. LockTypes'
  BY <1>1 DEF LockInv, LockTypes, PCs, Locking, Critical, Outside
<1>3. Holder'
  BY <1>1, HolderKept DEF LockInv, Critical
<1>4. CpuInv(c)'
  BY <1>1 DEF LockInv, LockTypes, CpuInv, Locking, Scheduling, Starting
<1>5. \A d \in CPUs : d # c => CpuInv(d)'
  BY <1>1, OthersKept DEF LockInv, LockTypes, LocalVars
<1>6. StackInv'
  BY <1>1, StackKept DEF LockInv, bootvars
<1> QED BY <1>2, <1>3, <1>4, <1>5, <1>6 DEF LockInv

LEMMA SchedInv ==
  ASSUME LockInv, NEW c \in CPUs, Sched(c)
  PROVE  LockInv'
<1>1. /\ pc[c] = "sched" /\ pc' = [pc EXCEPT ![c] = "env_run"]
      /\ \E r \in Slots : next_env' = [next_env EXCEPT ![c] = r]
      /\ UNCHANGED <<locked, lock_cpu, lock_calls, cpu_status, cpu_mode,
                     trapno, curenv, kstack, mpentry_kstack>>
  BY DEF Sched, Goto, SameLock, lockvars, bootvars
<1>2. LockTypes'
  BY <1>1 DEF LockInv, LockTypes, PCs, Locking, Critical, Outside
<1>3. Holder'
  BY <1>1, HolderKept DEF LockInv, Critical
<1>4. CpuInv(c)'
  BY <1>1 DEF LockInv, LockTypes, CpuInv, Locking, Scheduling, Starting
<1>5. \A d \in CPUs : d # c => CpuInv(d)'
  BY <1>1, OthersKept DEF LockInv, LockTypes, LocalVars
<1>6. StackInv'
  BY <1>1, StackKept DEF LockInv, bootvars
<1> QED BY <1>2, <1>3, <1>4, <1>5, <1>6 DEF LockInv

LEMMA HaltInv ==
  ASSUME LockInv, NEW c \in CPUs, Halt(c)
  PROVE  LockInv'
<1>1. /\ pc[c] = "sched" /\ pc' = [pc EXCEPT ![c] = "unlock"]
      /\ curenv' = [curenv EXCEPT ![c] = NULL]
      /\ cpu_status' = [cpu_status EXCEPT ![c] = "HALTED"]
      /\ UNCHANGED <<locked, lock_cpu, lock_calls, cpu_mode, trapno,
                     next_env, kstack, mpentry_kstack>>
  BY DEF Halt, Goto, SameLock, lockvars, bootvars
<1>2. LockTypes'
  BY <1>1 DEF LockInv, LockTypes, PCs, Locking, Critical, Outside
<1>3. Holder'
  BY <1>1, HolderKept DEF LockInv, Critical
<1>4. CpuInv(c)'
  BY <1>1 DEF LockInv, LockTypes, CpuInv, Locking, Scheduling, Starting
<1>5. \A d \in CPUs : d # c => CpuInv(d)'
  BY <1>1, OthersKept DEF LockInv, LockTypes, LocalVars
<1>6. StackInv'
  BY <1>1, StackKept DEF LockInv, bootvars
<1> QED BY <1>2, <1>3, <1>4, <1>5, <1>6 DEF LockInv

LEMMA EnterMonitorInv ==
  ASSUME LockInv, NEW c \in CPUs, EnterMonitor(c)
  PROVE  LockInv'
<1>1. /\ pc[c] = "sched" /\ pc' = [pc EXCEPT ![c] = "monitor"]
      /\ cpu_mode' = [cpu_mode EXCEPT ![c] = "monitor"]
      /\ UNCHANGED <<locked, lock_cpu, lock_calls, cpu_status, trapno,
                     next_env, curenv, kstack, mpentry_kstack>>
  BY DEF EnterMonitor, EndVisit, Goto, SameLock, lockvars, bootvars, memory
<1>2. LockTypes'
  BY <1>1 DEF LockInv, LockTypes, PCs, Locking, Critical, Outside, Modes
<1>3. Holder'
  BY <1>1, HolderKept DEF LockInv, Critical
<1>4. CpuInv(c)'
  BY <1>1 DEF LockInv, LockTypes, CpuInv, Locking, Scheduling, Starting
<1>5. \A d \in CPUs : d # c => CpuInv(d)'
  BY <1>1, OthersKept DEF LockInv, LockTypes, LocalVars
<1>6. StackInv'
  BY <1>1, StackKept DEF LockInv, bootvars
<1> QED BY <1>2, <1>3, <1>4, <1>5, <1>6 DEF LockInv

LEMMA DescheduleInv ==
  ASSUME LockInv, NEW c \in CPUs, Deschedule(c)
  PROVE  LockInv'
<1>1. /\ pc[c] = "env_run" /\ pc' = [pc EXCEPT ![c] = "switch"]
      /\ UNCHANGED <<locked, lock_cpu, lock_calls, cpu_status, cpu_mode,
                     trapno, next_env, curenv, kstack, mpentry_kstack>>
  BY DEF Deschedule, Goto, SameLock, SameControl, lockvars, bootvars
<1>2. LockTypes'
  BY <1>1 DEF LockInv, LockTypes, PCs, Locking, Critical, Outside
<1>3. Holder'
  BY <1>1, HolderKept DEF LockInv, Critical
<1>4. CpuInv(c)'
  BY <1>1 DEF LockInv, LockTypes, CpuInv, Locking, Scheduling, Starting
<1>5. \A d \in CPUs : d # c => CpuInv(d)'
  BY <1>1, OthersKept DEF LockInv, LockTypes, LocalVars
<1>6. StackInv'
  BY <1>1, StackKept DEF LockInv, bootvars
<1> QED BY <1>2, <1>3, <1>4, <1>5, <1>6 DEF LockInv

LEMMA SwitchInv ==
  ASSUME LockInv, NEW c \in CPUs, Switch(c)
  PROVE  LockInv'
<1>1. /\ pc[c] = "switch" /\ pc' = [pc EXCEPT ![c] = "unlock"]
      /\ curenv' = [curenv EXCEPT ![c] = next_env[c]]
      /\ UNCHANGED <<locked, lock_cpu, lock_calls, cpu_status, cpu_mode,
                     trapno, next_env, kstack, mpentry_kstack>>
  BY DEF Switch, Goto, SameLock, SameControl, lockvars, bootvars
<1>2. LockTypes'
  BY <1>1 DEF LockInv, LockTypes, PCs, Locking, Critical, Outside
<1>3. Holder'
  BY <1>1, HolderKept DEF LockInv, Critical
<1>4. CpuInv(c)'
  BY <1>1, PolicyAssumption DEF LockInv, LockTypes, CpuInv, Locking, Scheduling, Starting, Slots, NULL
<1>5. \A d \in CPUs : d # c => CpuInv(d)'
  BY <1>1, OthersKept DEF LockInv, LockTypes, LocalVars
<1>6. StackInv'
  BY <1>1, StackKept DEF LockInv, bootvars
<1> QED BY <1>2, <1>3, <1>4, <1>5, <1>6 DEF LockInv

LEMMA WriteCpunumInv ==
  ASSUME LockInv, NEW c \in CPUs, WriteCpunum(c)
  PROVE  LockInv'
<1>1. /\ pc[c] = "env_cpunum" /\ pc' = [pc EXCEPT ![c] = "user"]
      /\ UNCHANGED <<locked, lock_cpu, lock_calls, cpu_status, cpu_mode,
                     trapno, next_env, curenv, kstack, mpentry_kstack>>
  BY DEF WriteCpunum, Goto, SameLock, lockvars, bootvars, memory
<1>2. LockTypes'
  BY <1>1 DEF LockInv, LockTypes, PCs, Locking, Critical, Outside
<1>3. Holder'
  BY <1>1, HolderKept DEF LockInv, Critical
<1>4. CpuInv(c)'
  BY <1>1 DEF LockInv, LockTypes, CpuInv, Locking, Scheduling, Starting
<1>5. \A d \in CPUs : d # c => CpuInv(d)'
  BY <1>1, OthersKept DEF LockInv, LockTypes, LocalVars
<1>6. StackInv'
  BY <1>1, StackKept DEF LockInv, bootvars
<1> QED BY <1>2, <1>3, <1>4, <1>5, <1>6 DEF LockInv

(* StartAp() moves two CPUs. *)
LEMMA StartApInv ==
  ASSUME LockInv, NEW c \in CPUs, NEW ap \in CPUs, StartAp(c, ap)
  PROVE  LockInv'
<1>1. /\ pc[c] = "boot_aps" /\ pc[ap] = "off" /\ c # ap
      /\ pc' = [pc EXCEPT ![c] = "wait_ap", ![ap] = "mpentry"]
      /\ mpentry_kstack' = ap
      /\ UNCHANGED <<locked, lock_cpu, lock_calls, cpu_status, cpu_mode, trapno,
                     next_env, curenv, kstack>>
  BY DEF StartAp, LapicStartap, LockInv, LockTypes, SameLock, lockvars, memory
<1>2. LockTypes'
  BY <1>1 DEF LockInv, LockTypes, PCs, Critical, Outside
<1>3. Holder'
  BY <1>1 DEF LockInv, LockTypes, Holder, MutualExclusion, Critical
<1>4. CpuInv(c)' /\ CpuInv(ap)'
  BY <1>1 DEF LockInv, LockTypes, CpuInv, Locking, Scheduling, Starting
<1>5. \A d \in CPUs : d \notin {c, ap} => CpuInv(d)'
  BY <1>1, OthersKept DEF LockInv, LockTypes, LocalVars
<1>6. StackInv'
  BY <1>1 DEF LockInv, LockTypes, StackInv, CpuInv
<1> QED BY <1>2, <1>3, <1>4, <1>5, <1>6 DEF LockInv

-----------------------------------------------------------------------------
LEMMA LockInvInit == LockInit => LockInv
<1> SUFFICES ASSUME LockInit PROVE LockInv
  OBVIOUS
<1>1. LockTypes
  BY KernelAssumption DEF LockInit, Init, LockTypes, PCs, Outside, Modes
<1>2. Holder
  BY LockAssumption DEF LockInit, Holder, MutualExclusion, Critical
<1>3. \A c \in CPUs : CpuInv(c)
  BY DEF LockInit, Init, CpuInv, Locking, Starting, Scheduling
<1>4. StackInv
  BY DEF LockInit, StackInv
<1> QED BY <1>1, <1>2, <1>3, <1>4 DEF LockInv

LEMMA LockInvStep == LockInv /\ [LockNext]_allvars => LockInv'
<1> SUFFICES ASSUME LockInv, [LockNext]_allvars PROVE LockInv'
  OBVIOUS
<1>1. CASE UNCHANGED allvars
  <2>1. UNCHANGED <<pc, locked, lock_cpu, lock_calls, cpu_status, cpu_mode, trapno,
                    next_env, curenv, kstack, mpentry_kstack>>
    BY <1>1 DEF allvars, memory, control, lockvars, bootvars
  <2> QED BY <2>1 DEF LockInv, LockTypes, Holder, MutualExclusion, CpuInv, StackInv
<1>2. ASSUME NEW c \in CPUs, KernelStep(c) PROVE LockInv'
  <2>1. CASE ReadLocked(c) \/ ReadLockCpu(c) \/ Xchg(c) \/ Own(c) \/ Unlock(c) \/ Release(c)
    BY <2>1, ReadLockedInv, ReadLockCpuInv, XchgInv, OwnInv, UnlockInv, ReleaseInv
  <2>2. CASE \/ I386Init(c) \/ WaitAp(c) \/ ApsStarted(c) \/ MpEntry(c) \/ MpMain(c)
             \/ \E ap \in CPUs : StartAp(c, ap)
    BY <2>2, I386InitInv, WaitApInv, ApsStartedInv, MpEntryInv, MpMainInv, StartApInv
  <2>3. CASE HandleZombie(c) \/ HandleTimer(c) \/ HandleExit(c) \/ Returning(c)
    BY <2>3, HandleZombieInv, HandleTimerInv, HandleExitInv, ReturningInv
  <2>4. CASE \/ Return(c) \/ Sched(c) \/ Halt(c) \/ EnterMonitor(c) \/ Deschedule(c)
             \/ Switch(c) \/ WriteCpunum(c)
    BY <2>4, ReturnInv, SchedInv, HaltInv, EnterMonitorInv, DescheduleInv, SwitchInv,
       WriteCpunumInv
  <2> QED BY <1>2, <2>1, <2>2, <2>3, <2>4 DEF KernelStep, Returning
<1>3. ASSUME NEW c \in CPUs, NEW no \in Calls \cup {"timer"}, Trap(c, no) PROVE LockInv'
  BY <1>3, TrapInv
<1> QED BY <1>1, <1>2, <1>3 DEF LockNext

(* The inductive invariant. *)
THEOREM LockInvariant == LockSpec => []LockInv
BY LockInvInit, LockInvStep, PTL DEF LockSpec

(* The big kernel lock excludes: whatever the number of CPUs and however   *)
(* they interleave, at most one is between the xchg of spin_lock() and the *)
(* xchg of spin_unlock().                                                  *)
THEOREM LockExcludes == LockSpec => []MutualExclusion
<1>1. LockInv => MutualExclusion
  BY DEF LockInv, Holder
<1> QED BY <1>1, LockInvariant, PTL

(* The checks of DEBUG_SPINLOCK never fire, although holding() reads the   *)
(* lock without owning it.                                                 *)
THEOREM LockNeverPanics == LockSpec => []NeverPanics
<1>1. LockInv => NeverPanics
  BY DEF LockInv, CpuInv, NeverPanics
<1> QED BY <1>1, LockInvariant, PTL

(* boot_aps() gives every CPU it starts a stack of its own.                *)
THEOREM StacksOfTheirOwn == LockSpec => []StacksDistinct
<1>1. LockInv => StacksDistinct
  BY DEF LockInv, StackInv, StacksDistinct
<1> QED BY <1>1, LockInvariant, PTL

-----------------------------------------------------------------------------
(* A step of a CPU that does not have the lock. *)
LEMMA PendingKept ==
  ASSUME NothingPending, UNCHANGED <<envs, env_free_list, pp_ref, ticks, curenv, cr3,
                                     committed>>, locked' = locked
  PROVE  NothingPending'
BY DEF NothingPending

LEMMA NothingPendingStep ==
  ASSUME LockInv, NothingPending, [LockNext]_allvars
  PROVE  NothingPending'
<1>1. CASE UNCHANGED allvars
  BY <1>1, PendingKept DEF allvars, memory, control, lockvars
<1>2. ASSUME NEW c \in CPUs, NEW no \in Calls \cup {"timer"}, Trap(c, no)
      PROVE  NothingPending'
  BY <1>2, PendingKept DEF Trap
<1>3. ASSUME NEW c \in CPUs, KernelStep(c)
      PROVE  NothingPending'
  <2>1. CASE Release(c)
    BY <2>1 DEF Release, EndVisit, Snapshot, NothingPending, memory
  <2>2. CASE Xchg(c)
    BY <2>2 DEF Xchg, NothingPending
  <2>3. CASE ReadLocked(c) \/ ReadLockCpu(c) \/ I386Init(c)
    BY <2>3, PendingKept DEF ReadLocked, ReadLockCpu, I386Init, OnlyPc, SameLock,
       SameControl, memory, lockvars
  <2>4. CASE MpEntry(c) \/ MpMain(c) \/ WriteCpunum(c)
    BY <2>4, PendingKept DEF MpEntry, MpMain, WriteCpunum, SameLock, memory, lockvars
  <2>5. CASE pc[c] \in Critical /\ locked' = locked
    BY <2>5 DEF LockInv, Holder, NothingPending
  <2>6. CASE Own(c) \/ Unlock(c) \/ WaitAp(c) \/ ApsStarted(c) \/ \E ap \in CPUs : StartAp(c, ap)
    BY <2>5, <2>6 DEF Own, Unlock, WaitAp, ApsStarted, StartAp, Goto, OnlyPc, SameLock,
       lockvars, Critical
  <2>7. CASE HandleZombie(c) \/ HandleTimer(c) \/ HandleExit(c) \/ Returning(c)
    <3>1. pc[c] = "handler" /\ SameLock
      BY <2>7 DEF HandleZombie, HandleTimer, HandleExit, Returning, HandleNothing,
         HandleExofork, HandleSetStatus, HandleDestroy, Handle, Goto
    <3> QED BY <2>5, <3>1 DEF SameLock, lockvars, Critical
  <2>8. CASE \/ Return(c) \/ Sched(c) \/ Halt(c) \/ EnterMonitor(c) \/ Deschedule(c)
             \/ Switch(c)
    <3>1. pc[c] \in {"return", "sched", "env_run", "switch"} /\ SameLock
      BY <2>8 DEF Return, Sched, Halt, EnterMonitor, Deschedule, Switch, Goto
    <3> QED BY <2>5, <3>1 DEF SameLock, lockvars, Critical
  <2> QED BY <1>3, <2>1, <2>2, <2>3, <2>4, <2>6, <2>7, <2>8 DEF KernelStep, Returning
<1> QED BY <1>1, <1>2, <1>3 DEF LockNext

(* Nothing is written outside the lock: whenever it is free, the kernel's  *)
(* data is what the last visit left.                                       *)
THEOREM VisitsLeaveNothing == LockSpec => []NothingPending
<1>1. LockInit => NothingPending
  BY DEF LockInit, Snapshot, NothingPending
<1>2. LockInv /\ NothingPending /\ [LockNext]_allvars => NothingPending'
  BY NothingPendingStep
<1> QED BY <1>1, <1>2, LockInvariant, PTL DEF LockSpec

-----------------------------------------------------------------------------
(***************************************************************************)
(* KernelLock implements Kernel, for any number of CPUs, slots and pages:  *)
(* a visit to the kernel, although it takes many steps and other CPUs trap *)
(* and wait meanwhile, is a single step of Kernel, taken when the lock is  *)
(* released.                                                               *)
(***************************************************************************)
(* The invariants of Kernel, of the state between visits. *)
Committed == INSTANCE KernelProofs WITH
               envs <- committed.envs,
               env_free_list <- committed.env_free_list,
               curenv <- committed.curenv,
               cpu_mode <- committed.cpu_mode,
               cr3 <- committed.cr3,
               pp_ref <- committed.pp_ref,
               ticks <- committed.ticks,
               eoi_pending <- committed.eoi_pending

-----------------------------------------------------------------------------
(***************************************************************************)
(* The steps of Kernel, as relations between `committed' and the state n   *)
(* in which the visit ends.                                                *)
(***************************************************************************)

(* CPU c leaves the kernel with table es, to environment e in this mode.   *)
Left(k, c, n, es, e, dir, mode) ==
  /\ n.envs = es
  /\ n.curenv = [k.curenv EXCEPT ![c] = e]
  /\ n.cr3 = [k.cr3 EXCEPT ![c] = dir]
  /\ n.cpu_mode = [k.cpu_mode EXCEPT ![c] = mode]

(* sched_yield() with table es and curenv cur; dir is what is loaded.      *)
Yielded(k, c, n, es, cur, dir) ==
  \/ \E r \in Slots :
       /\ Picks(es, cur, r)
       /\ Left(k, c, n, EnvRun(Aged(es, r), cur, r), r, es[r].pgdir, "user")
  \/ /\ ~CanPick(es, cur) /\ Pending(es)
     /\ Left(k, c, n, es, NULL, KernPgdir, "halted")
  \/ /\ ~CanPick(es, cur) /\ ~Pending(es)
     /\ Left(k, c, n, es, cur, dir, "monitor")

(* The end of trap(). *)
Returned(k, c, n, es) ==
  LET cur == k.curenv[c]
  IN  \/ es[cur].status = "RUNNING" /\ Left(k, c, n, es, cur, es[cur].pgdir, "user")
      \/ es[cur].status # "RUNNING" /\ Yielded(k, c, n, es, cur, k.cr3[c])

(* env_free() of e. *)
FreeDone(k, n, e) ==
  /\ \E q \in Descending(Freed(k.envs, e) \ {e}) :
       n.env_free_list = <<e>> \o q \o k.env_free_list
  /\ n.pp_ref = [p \in Pages |->
                   k.pp_ref[p]
                     - Cardinality({s \in Freed(k.envs, e) :
                                      k.envs[s].pgdir = p})]

SameList(k, n)  == n.env_free_list = k.env_free_list /\ n.pp_ref = k.pp_ref
SameClock(k, n) == n.ticks = k.ticks
SameEoi(k, n)   == n.eoi_pending = k.eoi_pending

(* A CPU that comes from user mode, where curenv is not a zombie. *)
Caller(k, c) == k.cpu_mode[c] = "user" /\ k.envs[k.curenv[c]].status # "DYING"

BootVisit(k, c, n) ==
  /\ k.cpu_mode[c] = "boot"
  /\ c # BSP => k.cpu_mode[BSP] # "boot"
  /\ Yielded(k, c, n, k.envs, NULL, KernPgdir)
  /\ SameList(k, n) /\ SameClock(k, n) /\ SameEoi(k, n)

TimerVisit(k, c, n) ==
  /\ Caller(k, c) \/ k.cpu_mode[c] = "halted"
  /\ ~k.eoi_pending[c]
  /\ n.ticks = IF k.ticks = LastTick THEN k.ticks
               ELSE TickSum(k.ticks, 1)
  /\ Yielded(k, c, n, Woken(k.envs, n.ticks), k.curenv[c],
             IF k.curenv[c] = NULL THEN KernPgdir ELSE k.cr3[c])
  /\ SameList(k, n) /\ SameEoi(k, n)

ReapVisit(k, c, byTimer, n) ==
  /\ k.cpu_mode[c] = "user"
  /\ k.envs[k.curenv[c]].status = "DYING"
  /\ byTimer => ~k.eoi_pending[c]
  /\ n.eoi_pending = [k.eoi_pending EXCEPT ![c] = @ \/ byTimer]
  /\ FreeDone(k, n, k.curenv[c])
  /\ Yielded(k, c, n, AfterFree(k.envs, k.curenv[c]), NULL, KernPgdir)
  /\ SameClock(k, n)

ExitVisit(k, c, n) ==
  /\ Caller(k, c) /\ "exit" \in Calls
  /\ FreeDone(k, n, k.curenv[c])
  /\ Yielded(k, c, n, AfterFree(k.envs, k.curenv[c]), NULL, KernPgdir)
  /\ SameClock(k, n) /\ SameEoi(k, n)

ForkVisit(k, c, p, n) ==
  LET new == Head(k.env_free_list)
  IN  /\ Caller(k, c) /\ "fork" \in Calls
      /\ k.env_free_list # <<>>
      /\ k.envs[new].gen # LastGen
      /\ k.pp_ref[p] = 0
      /\ Returned(k, c, n, [k.envs EXCEPT ![new] =
                          [NewEnv(k.envs[new], EnvId(k.envs, k.curenv[c]), p)
                             EXCEPT !.status = "NOT_RUNNABLE",
                                    !.priority = k.envs[k.curenv[c]].priority]])
      /\ n.env_free_list = Tail(k.env_free_list)
      /\ n.pp_ref = [k.pp_ref EXCEPT ![p] = @ + 1]
      /\ SameClock(k, n) /\ SameEoi(k, n)

StartVisit(k, c, s, n) ==
  /\ Caller(k, c) /\ "fork" \in Calls
  /\ s # k.curenv[c] /\ MayControl(k.envs, k.curenv[c], s)
  /\ Embryo(k.envs[s])
  /\ Returned(k, c, n, [k.envs EXCEPT ![s].status = "RUNNABLE"])
  /\ SameList(k, n) /\ SameClock(k, n) /\ SameEoi(k, n)

DestroyVisit(k, c, s, n) ==
  /\ Caller(k, c) /\ "destroy" \in Calls
  /\ s # k.curenv[c] /\ MayControl(k.envs, k.curenv[c], s)
  /\ k.envs[s].status # "DYING" /\ k.envs[s].type # "THREAD"
  /\ \/ /\ k.envs[s].status = "RUNNING"
        /\ Returned(k, c, n, [k.envs EXCEPT ![s].status = "DYING"])
        /\ SameList(k, n)
     \/ /\ k.envs[s].status # "RUNNING"
        /\ FreeDone(k, n, s)
        /\ Returned(k, c, n, AfterFree(k.envs, s))
  /\ SameClock(k, n) /\ SameEoi(k, n)

(* A call that changes nothing. *)
NullVisit(k, n) ==
  /\ n.envs = k.envs /\ n.curenv = k.curenv
  /\ n.cr3 = k.cr3 /\ n.cpu_mode = k.cpu_mode
  /\ SameList(k, n) /\ SameClock(k, n) /\ SameEoi(k, n)

Visit(k, c, n) ==
  /\ \A d \in CPUs : k.cpu_mode[d] # "monitor"
  /\ \/ BootVisit(k, c, n) \/ TimerVisit(k, c, n) \/ ExitVisit(k, c, n) \/ NullVisit(k, n)
     \/ \E byTimer \in BOOLEAN : ReapVisit(k, c, byTimer, n)
     \/ \E p \in Pages : ForkVisit(k, c, p, n)
     \/ \E s \in Slots : StartVisit(k, c, s, n) \/ DestroyVisit(k, c, s, n)

-----------------------------------------------------------------------------
(***************************************************************************)
(* They are steps of Kernel.  Operators of an instance are not the         *)
(* operators of this module, even where they do not depend on the state.   *)
(***************************************************************************)

(* The kernel whose state is `committed', in KernelLock ... *)
LEMMA AtomicTables ==
  /\ Atomic!Slots = Slots /\ Atomic!NULL = NULL /\ Atomic!WaitCap = WaitCap
  /\ Atomic!KernelId = KernelId
  /\ \A es, s : Atomic!Live(es, s) = Live(es, s)
  /\ \A es, s : Atomic!EnvId(es, s) = EnvId(es, s)
  /\ \A es, cur, s : Atomic!MayControl(es, cur, s) = MayControl(es, cur, s)
  /\ \A e : Atomic!Embryo(e) = Embryo(e)
  /\ \A e, parent, p : Atomic!NewEnv(e, parent, p) = NewEnv(e, parent, p)
  /\ \A t, n : Atomic!TickSum(t, n) = TickSum(t, n)
  /\ \A es, now : Atomic!Woken(es, now) = Woken(es, now)
BY DEF Atomic!Slots, Atomic!NULL, Atomic!WaitCap, Atomic!KernelId, Atomic!Live,
       Atomic!EnvId, Atomic!MayControl, Atomic!Embryo, Atomic!NewEnv, Atomic!NextGen,
       Atomic!TickSum, Atomic!Woken,
       Slots, NULL, WaitCap, KernelId, Live, EnvId, MayControl, Embryo, NewEnv,
       NextGen, TickSum, Woken

LEMMA AtomicPolicy ==
  /\ \A es : Atomic!Ready(es) = Ready(es)
  /\ \A es, cur : Atomic!CanKeepCpu(es, cur) = CanKeepCpu(es, cur)
  /\ \A es, cur : Atomic!CanPick(es, cur) = CanPick(es, cur)
  /\ \A es : Atomic!Pending(es) = Pending(es)
  /\ \A es, r : Atomic!Aged(es, r) = Aged(es, r)
  /\ \A es, cur, r : Atomic!EnvRun(es, cur, r) = EnvRun(es, cur, r)
BY AtomicTables
   DEF Atomic!Ready, Atomic!CanKeepCpu, Atomic!CanPick, Atomic!Pending, Atomic!Aged,
       Atomic!EnvRun, Ready, CanKeepCpu, CanPick, Pending, Aged, EnvRun

LEMMA AtomicPicks ==
  ASSUME NEW es, NEW cur, NEW r
  PROVE  Atomic!Picks(es, cur, r) = Picks(es, cur, r)
<1>1. \A a, b : Atomic!ScanPosition(a, b) = ScanPosition(a, b)
  BY DEF Atomic!ScanPosition, ScanPosition
<1>2. \A e : Atomic!sched_effective_priority(e) = sched_effective_priority(e)
  BY DEF Atomic!sched_effective_priority, Atomic!Bonus, sched_effective_priority, Bonus
<1> QED
  BY <1>1, <1>2, AtomicPolicy
  DEF Atomic!Picks, Atomic!RoundRobinPicks, Atomic!PrioritiesPick,
      Picks, RoundRobinPicks, PrioritiesPick

LEMMA AtomicFreed ==
  ASSUME NEW es, NEW e
  PROVE  /\ Atomic!Freed(es, e) = Freed(es, e)
         /\ Atomic!AfterFree(es, e) = AfterFree(es, e)
<1>1. Atomic!ThreadsOf(es, e) = ThreadsOf(es, e)
  BY AtomicTables DEF Atomic!ThreadsOf, ThreadsOf
<1>2. Atomic!Zombies(es, e) = Zombies(es, e)
  BY <1>1 DEF Atomic!Zombies, Zombies
<1>3. Atomic!Freed(es, e) = Freed(es, e)
  BY <1>1, <1>2 DEF Atomic!Freed, Freed
<1> QED BY <1>2, <1>3, AtomicTables DEF Atomic!AfterFree, AfterFree

LEMMA AtomicDescending ==
  ASSUME NEW S
  PROVE  Atomic!Descending(S) = Descending(S)
BY DEF Atomic!Descending, Descending

(* ... and the same one with its invariants. *)
LEMMA CommittedTables ==
  /\ Committed!Slots = Slots /\ Committed!NULL = NULL /\ Committed!WaitCap = WaitCap
  /\ Committed!KernelId = KernelId
  /\ \A es, s : Committed!Live(es, s) = Live(es, s)
  /\ \A es, s : Committed!EnvId(es, s) = EnvId(es, s)
  /\ \A es, cur, s : Committed!MayControl(es, cur, s) = MayControl(es, cur, s)
  /\ \A e : Committed!Embryo(e) = Embryo(e)
  /\ \A e, parent, p : Committed!NewEnv(e, parent, p) = NewEnv(e, parent, p)
  /\ \A t, n : Committed!TickSum(t, n) = TickSum(t, n)
  /\ \A es, now : Committed!Woken(es, now) = Woken(es, now)
BY DEF Committed!Slots, Committed!NULL, Committed!WaitCap, Committed!KernelId, Committed!Live,
       Committed!EnvId, Committed!MayControl, Committed!Embryo, Committed!NewEnv, Committed!NextGen,
       Committed!TickSum, Committed!Woken,
       Slots, NULL, WaitCap, KernelId, Live, EnvId, MayControl, Embryo, NewEnv,
       NextGen, TickSum, Woken

LEMMA CommittedPolicy ==
  /\ \A es : Committed!Ready(es) = Ready(es)
  /\ \A es, cur : Committed!CanKeepCpu(es, cur) = CanKeepCpu(es, cur)
  /\ \A es, cur : Committed!CanPick(es, cur) = CanPick(es, cur)
  /\ \A es : Committed!Pending(es) = Pending(es)
  /\ \A es, r : Committed!Aged(es, r) = Aged(es, r)
  /\ \A es, cur, r : Committed!EnvRun(es, cur, r) = EnvRun(es, cur, r)
BY CommittedTables
   DEF Committed!Ready, Committed!CanKeepCpu, Committed!CanPick, Committed!Pending, Committed!Aged,
       Committed!EnvRun, Ready, CanKeepCpu, CanPick, Pending, Aged, EnvRun

LEMMA CommittedPicks ==
  ASSUME NEW es, NEW cur, NEW r
  PROVE  Committed!Picks(es, cur, r) = Picks(es, cur, r)
<1>1. \A a, b : Committed!ScanPosition(a, b) = ScanPosition(a, b)
  BY DEF Committed!ScanPosition, ScanPosition
<1>2. \A e : Committed!sched_effective_priority(e) = sched_effective_priority(e)
  BY DEF Committed!sched_effective_priority, Committed!Bonus, sched_effective_priority, Bonus
<1> QED
  BY <1>1, <1>2, CommittedPolicy
  DEF Committed!Picks, Committed!RoundRobinPicks, Committed!PrioritiesPick,
      Picks, RoundRobinPicks, PrioritiesPick

LEMMA CommittedFreed ==
  ASSUME NEW es, NEW e
  PROVE  /\ Committed!Freed(es, e) = Freed(es, e)
         /\ Committed!AfterFree(es, e) = AfterFree(es, e)
<1>1. Committed!ThreadsOf(es, e) = ThreadsOf(es, e)
  BY CommittedTables DEF Committed!ThreadsOf, ThreadsOf
<1>2. Committed!Zombies(es, e) = Zombies(es, e)
  BY <1>1 DEF Committed!Zombies, Zombies
<1>3. Committed!Freed(es, e) = Freed(es, e)
  BY <1>1, <1>2 DEF Committed!Freed, Freed
<1> QED BY <1>2, <1>3, CommittedTables DEF Committed!AfterFree, AfterFree

LEMMA CommittedDescending ==
  ASSUME NEW S
  PROVE  Committed!Descending(S) = Descending(S)
BY DEF Committed!Descending, Descending

(* What is known of the state between visits from the types alone. *)
Cur(c)    == committed.curenv[c]
UserOf(c) == committed.cpu_mode[c] = "user"

CommittedTypes ==
  /\ committed.curenv \in [CPUs -> Slots \cup {NULL}]
  /\ committed.cpu_mode \in [CPUs -> Modes]
  /\ \A c \in CPUs : UserOf(c) => Cur(c) \in Slots

LEMMA AtomicYield ==
  ASSUME NEW c \in CPUs, NEW es, NEW cur, NEW dir,
         Yielded(committed, c, committed', es, cur, dir),
         dir = IF cur = NULL THEN KernPgdir ELSE committed.cr3[c]
  PROVE  Atomic!SchedYield(c, cur, es)
<1> USE AtomicTables, AtomicPolicy DEF Left
<1>1. CASE \E r \in Slots :
             /\ Picks(es, cur, r)
             /\ Left(committed, c, committed', EnvRun(Aged(es, r), cur, r), r, es[r].pgdir, "user")
  BY <1>1, AtomicPicks DEF Atomic!SchedYield, Atomic!SchedRun
<1>2. CASE /\ ~CanPick(es, cur) /\ Pending(es)
           /\ Left(committed, c, committed', es, NULL, KernPgdir, "halted")
  BY <1>2 DEF Atomic!SchedYield, Atomic!SchedHlt
<1>3. CASE /\ ~CanPick(es, cur) /\ ~Pending(es)
           /\ Left(committed, c, committed', es, cur, dir, "monitor")
  BY <1>3 DEF Atomic!SchedYield, Atomic!SchedMonitor
<1> QED BY <1>1, <1>2, <1>3 DEF Yielded

LEMMA AtomicReturn ==
  ASSUME NEW c \in CPUs, NEW es, CommittedTypes, UserOf(c), Returned(committed, c, committed', es)
  PROVE  Atomic!TrapReturn(c, es)
<1>1. Cur(c) # NULL
  BY NullIsNoSlot DEF CommittedTypes
<1>2. CASE /\ es[Cur(c)].status = "RUNNING"
           /\ Left(committed, c, committed', es, Cur(c), es[Cur(c)].pgdir, "user")
  <2>1. [committed.curenv EXCEPT ![c] = Cur(c)] = committed.curenv
    BY DEF CommittedTypes, Cur
  <2>2. [committed.cpu_mode EXCEPT ![c] = "user"] = committed.cpu_mode
    BY DEF CommittedTypes, UserOf
  <2> QED BY <1>2, <2>1, <2>2 DEF Left, Cur, Atomic!TrapReturn
<1>3. CASE /\ es[Cur(c)].status # "RUNNING"
           /\ Yielded(committed, c, committed', es, Cur(c), committed.cr3[c])
  BY <1>1, <1>3, AtomicYield DEF Cur, Atomic!TrapReturn
<1> QED BY <1>2, <1>3 DEF Returned, Cur

LEMMA AtomicFree ==
  ASSUME NEW e, FreeDone(committed, committed', e)
  PROVE  Atomic!EnvFree(e)
<1>1. \A S : Atomic!Cardinality(S) = Cardinality(S)
  BY DEF Atomic!Cardinality, Cardinality
<1>2. Atomic!FreeListAfterFree(committed.envs, e, committed'.env_free_list)
  BY AtomicFreed, AtomicDescending DEF FreeDone, Atomic!FreeListAfterFree
<1>3. committed'.pp_ref = Atomic!RefsAfterFree(committed.envs, e)
  <2> DEFINE refs(F) == [p \in Pages |-> committed.pp_ref[p]
                                   - Cardinality({s \in F : committed.envs[s].pgdir = p})]
  <2>1. committed'.pp_ref = refs(Freed(committed.envs, e))
    BY DEF FreeDone
  <2>2. Atomic!RefsAfterFree(committed.envs, e) = refs(Atomic!Freed(committed.envs, e))
    BY <1>1, Zenon DEF Atomic!RefsAfterFree
  <2> HIDE DEF refs
  <2> QED BY <2>1, <2>2, AtomicFreed
<1> QED BY <1>2, <1>3 DEF Atomic!EnvFree

LEMMA AtomicStep ==
  ASSUME NEW c \in CPUs, CommittedTypes, Visit(committed, c, committed')
  PROVE  [Atomic!Next]_(Atomic!vars)
<1> USE DEF Atomic!LockAvailable, Atomic!Trapped, Atomic!Syscall,
            SameList, SameClock, SameEoi, Cur, UserOf, Caller
<1>l. Atomic!LockAvailable
  BY DEF Visit
<1>1. CASE BootVisit(committed, c, committed')
  <2>1. Atomic!SchedYield(c, NULL, committed.envs)
    BY <1>1, AtomicYield DEF BootVisit
  <2>2. Atomic!Boot(c)
    BY <1>1, <1>l, <2>1, AtomicTables DEF BootVisit, Atomic!Boot
  <2> QED BY <2>2 DEF Atomic!Next
<1>2. CASE TimerVisit(committed, c, committed')
  <2>1. Atomic!SchedYield(c, Cur(c), Woken(committed.envs, committed'.ticks))
    BY <1>2, AtomicYield DEF TimerVisit
  <2>2. Atomic!Timer(c)
    BY <1>2, <1>l, <2>1, AtomicTables DEF TimerVisit, Atomic!Timer
  <2> QED BY <2>2 DEF Atomic!Next
<1>3. CASE ExitVisit(committed, c, committed')
  <2>1. Atomic!SchedYield(c, NULL, AfterFree(committed.envs, Cur(c)))
    BY <1>3, AtomicYield DEF ExitVisit
  <2>2. Atomic!EnvFree(Cur(c))
    BY <1>3, AtomicFree DEF ExitVisit
  <2>3. Atomic!DestroySelf(c)
    BY <1>3, <1>l, <2>1, <2>2, AtomicTables, AtomicFreed DEF ExitVisit, Atomic!DestroySelf
  <2> QED BY <2>3 DEF Atomic!Next
<1>4. CASE NullVisit(committed, committed')
  BY <1>4 DEF NullVisit, Atomic!vars
<1>5. ASSUME NEW byTimer \in BOOLEAN, ReapVisit(committed, c, byTimer, committed')
      PROVE  Atomic!Next
  <2>1. Atomic!SchedYield(c, NULL, AfterFree(committed.envs, Cur(c)))
    BY <1>5, AtomicYield DEF ReapVisit
  <2>2. Atomic!EnvFree(Cur(c))
    BY <1>5, AtomicFree DEF ReapVisit
  <2>3. Atomic!Reap(c, byTimer)
    BY <1>5, <1>l, <2>1, <2>2, AtomicTables, AtomicFreed DEF ReapVisit, Atomic!Reap
  <2> QED BY <2>3 DEF Atomic!Next
<1>6. ASSUME NEW p \in Pages, ForkVisit(committed, c, p, committed')
      PROVE  Atomic!Next
  <2> DEFINE new == Head(committed.env_free_list)
             es  == [committed.envs EXCEPT ![new] =
                       [NewEnv(committed.envs[new], EnvId(committed.envs, Cur(c)), p)
                          EXCEPT !.status = "NOT_RUNNABLE",
                                 !.priority = committed.envs[Cur(c)].priority]]
  <2>1. Atomic!TrapReturn(c, es)
    BY <1>6, AtomicReturn DEF ForkVisit
  <2>2. Atomic!SysExofork(c)
    BY <1>6, <1>l, <2>1, AtomicTables DEF ForkVisit, Atomic!SysExofork, Atomic!CanAlloc
  <2> QED BY <2>2 DEF Atomic!Next
<1>7. ASSUME NEW s \in Slots, StartVisit(committed, c, s, committed')
      PROVE  Atomic!Next
  <2>1. Atomic!TrapReturn(c, [committed.envs EXCEPT ![s].status = "RUNNABLE"])
    BY <1>7, AtomicReturn DEF StartVisit
  <2>2. Atomic!SysEnvSetStatus(c, s, "RUNNABLE")
    BY <1>7, <1>l, <2>1, AtomicTables DEF StartVisit, Atomic!SysEnvSetStatus
  <2> QED BY <2>2, AtomicTables DEF Atomic!Next
<1>8. ASSUME NEW s \in Slots, DestroyVisit(committed, c, s, committed')
      PROVE  Atomic!Next
  <2>1. Atomic!Destroy(c, s)
    <3>1. CASE committed.envs[s].status = "RUNNING"
      <4>1. Atomic!TrapReturn(c, [committed.envs EXCEPT ![s].status = "DYING"])
        BY <1>8, <3>1, AtomicReturn DEF DestroyVisit
      <4> QED BY <1>8, <3>1, <4>1 DEF DestroyVisit, Atomic!Destroy
    <3>2. CASE committed.envs[s].status # "RUNNING"
      <4>1. Atomic!TrapReturn(c, AfterFree(committed.envs, s))
        BY <1>8, <3>2, AtomicReturn DEF DestroyVisit
      <4>2. Atomic!EnvFree(s)
        BY <1>8, <3>2, AtomicFree DEF DestroyVisit
      <4> QED BY <3>2, <4>1, <4>2, AtomicFreed DEF Atomic!Destroy
    <3> QED BY <3>1, <3>2
  <2>2. Atomic!SysEnvDestroy(c, s)
    BY <1>8, <1>l, <2>1, AtomicTables DEF DestroyVisit, Atomic!SysEnvDestroy
  <2> QED BY <2>2, AtomicTables DEF Atomic!Next
<1> QED BY <1>1, <1>2, <1>3, <1>4, <1>5, <1>6, <1>7, <1>8 DEF Visit

LEMMA CommittedYield ==
  ASSUME NEW c \in CPUs, NEW es, NEW cur, NEW dir,
         Yielded(committed, c, committed', es, cur, dir),
         dir = IF cur = NULL THEN KernPgdir ELSE committed.cr3[c]
  PROVE  Committed!SchedYield(c, cur, es)
<1> USE CommittedTables, CommittedPolicy DEF Left
<1>1. CASE \E r \in Slots :
             /\ Picks(es, cur, r)
             /\ Left(committed, c, committed', EnvRun(Aged(es, r), cur, r), r, es[r].pgdir, "user")
  BY <1>1, CommittedPicks DEF Committed!SchedYield, Committed!SchedRun
<1>2. CASE /\ ~CanPick(es, cur) /\ Pending(es)
           /\ Left(committed, c, committed', es, NULL, KernPgdir, "halted")
  BY <1>2 DEF Committed!SchedYield, Committed!SchedHlt
<1>3. CASE /\ ~CanPick(es, cur) /\ ~Pending(es)
           /\ Left(committed, c, committed', es, cur, dir, "monitor")
  BY <1>3 DEF Committed!SchedYield, Committed!SchedMonitor
<1> QED BY <1>1, <1>2, <1>3 DEF Yielded

LEMMA CommittedReturn ==
  ASSUME NEW c \in CPUs, NEW es, CommittedTypes, UserOf(c), Returned(committed, c, committed', es)
  PROVE  Committed!TrapReturn(c, es)
<1>1. Cur(c) # NULL
  BY NullIsNoSlot DEF CommittedTypes
<1>2. CASE /\ es[Cur(c)].status = "RUNNING"
           /\ Left(committed, c, committed', es, Cur(c), es[Cur(c)].pgdir, "user")
  <2>1. [committed.curenv EXCEPT ![c] = Cur(c)] = committed.curenv
    BY DEF CommittedTypes, Cur
  <2>2. [committed.cpu_mode EXCEPT ![c] = "user"] = committed.cpu_mode
    BY DEF CommittedTypes, UserOf
  <2> QED BY <1>2, <2>1, <2>2 DEF Left, Cur, Committed!TrapReturn
<1>3. CASE /\ es[Cur(c)].status # "RUNNING"
           /\ Yielded(committed, c, committed', es, Cur(c), committed.cr3[c])
  BY <1>1, <1>3, CommittedYield DEF Cur, Committed!TrapReturn
<1> QED BY <1>2, <1>3 DEF Returned, Cur

LEMMA CommittedFree ==
  ASSUME NEW e, FreeDone(committed, committed', e)
  PROVE  Committed!EnvFree(e)
<1>1. \A S : Committed!Cardinality(S) = Cardinality(S)
  BY DEF Committed!Cardinality, Cardinality
<1>2. Committed!FreeListAfterFree(committed.envs, e, committed'.env_free_list)
  BY CommittedFreed, CommittedDescending DEF FreeDone, Committed!FreeListAfterFree
<1>3. committed'.pp_ref = Committed!RefsAfterFree(committed.envs, e)
  <2> DEFINE refs(F) == [p \in Pages |-> committed.pp_ref[p]
                                   - Cardinality({s \in F : committed.envs[s].pgdir = p})]
  <2>1. committed'.pp_ref = refs(Freed(committed.envs, e))
    BY DEF FreeDone
  <2>2. Committed!RefsAfterFree(committed.envs, e) = refs(Committed!Freed(committed.envs, e))
    BY <1>1, Zenon DEF Committed!RefsAfterFree
  <2> HIDE DEF refs
  <2> QED BY <2>1, <2>2, CommittedFreed
<1> QED BY <1>2, <1>3 DEF Committed!EnvFree

LEMMA CommittedStep ==
  ASSUME NEW c \in CPUs, CommittedTypes, Visit(committed, c, committed')
  PROVE  [Committed!Next]_(Committed!vars)
<1> USE DEF Committed!LockAvailable, Committed!Trapped, Committed!Syscall,
            SameList, SameClock, SameEoi, Cur, UserOf, Caller
<1>l. Committed!LockAvailable
  BY DEF Visit
<1>1. CASE BootVisit(committed, c, committed')
  <2>1. Committed!SchedYield(c, NULL, committed.envs)
    BY <1>1, CommittedYield DEF BootVisit
  <2>2. Committed!Boot(c)
    BY <1>1, <1>l, <2>1, CommittedTables DEF BootVisit, Committed!Boot
  <2> QED BY <2>2 DEF Committed!Next
<1>2. CASE TimerVisit(committed, c, committed')
  <2>1. Committed!SchedYield(c, Cur(c), Woken(committed.envs, committed'.ticks))
    BY <1>2, CommittedYield DEF TimerVisit
  <2>2. Committed!Timer(c)
    BY <1>2, <1>l, <2>1, CommittedTables DEF TimerVisit, Committed!Timer
  <2> QED BY <2>2 DEF Committed!Next
<1>3. CASE ExitVisit(committed, c, committed')
  <2>1. Committed!SchedYield(c, NULL, AfterFree(committed.envs, Cur(c)))
    BY <1>3, CommittedYield DEF ExitVisit
  <2>2. Committed!EnvFree(Cur(c))
    BY <1>3, CommittedFree DEF ExitVisit
  <2>3. Committed!DestroySelf(c)
    BY <1>3, <1>l, <2>1, <2>2, CommittedTables, CommittedFreed DEF ExitVisit, Committed!DestroySelf
  <2> QED BY <2>3 DEF Committed!Next
<1>4. CASE NullVisit(committed, committed')
  BY <1>4 DEF NullVisit, Committed!vars
<1>5. ASSUME NEW byTimer \in BOOLEAN, ReapVisit(committed, c, byTimer, committed')
      PROVE  Committed!Next
  <2>1. Committed!SchedYield(c, NULL, AfterFree(committed.envs, Cur(c)))
    BY <1>5, CommittedYield DEF ReapVisit
  <2>2. Committed!EnvFree(Cur(c))
    BY <1>5, CommittedFree DEF ReapVisit
  <2>3. Committed!Reap(c, byTimer)
    BY <1>5, <1>l, <2>1, <2>2, CommittedTables, CommittedFreed DEF ReapVisit, Committed!Reap
  <2> QED BY <2>3 DEF Committed!Next
<1>6. ASSUME NEW p \in Pages, ForkVisit(committed, c, p, committed')
      PROVE  Committed!Next
  <2> DEFINE new == Head(committed.env_free_list)
             es  == [committed.envs EXCEPT ![new] =
                       [NewEnv(committed.envs[new], EnvId(committed.envs, Cur(c)), p)
                          EXCEPT !.status = "NOT_RUNNABLE",
                                 !.priority = committed.envs[Cur(c)].priority]]
  <2>1. Committed!TrapReturn(c, es)
    BY <1>6, CommittedReturn DEF ForkVisit
  <2>2. Committed!SysExofork(c)
    BY <1>6, <1>l, <2>1, CommittedTables DEF ForkVisit, Committed!SysExofork, Committed!CanAlloc
  <2> QED BY <2>2 DEF Committed!Next
<1>7. ASSUME NEW s \in Slots, StartVisit(committed, c, s, committed')
      PROVE  Committed!Next
  <2>1. Committed!TrapReturn(c, [committed.envs EXCEPT ![s].status = "RUNNABLE"])
    BY <1>7, CommittedReturn DEF StartVisit
  <2>2. Committed!SysEnvSetStatus(c, s, "RUNNABLE")
    BY <1>7, <1>l, <2>1, CommittedTables DEF StartVisit, Committed!SysEnvSetStatus
  <2> QED BY <2>2, CommittedTables DEF Committed!Next
<1>8. ASSUME NEW s \in Slots, DestroyVisit(committed, c, s, committed')
      PROVE  Committed!Next
  <2>1. Committed!Destroy(c, s)
    <3>1. CASE committed.envs[s].status = "RUNNING"
      <4>1. Committed!TrapReturn(c, [committed.envs EXCEPT ![s].status = "DYING"])
        BY <1>8, <3>1, CommittedReturn DEF DestroyVisit
      <4> QED BY <1>8, <3>1, <4>1 DEF DestroyVisit, Committed!Destroy
    <3>2. CASE committed.envs[s].status # "RUNNING"
      <4>1. Committed!TrapReturn(c, AfterFree(committed.envs, s))
        BY <1>8, <3>2, CommittedReturn DEF DestroyVisit
      <4>2. Committed!EnvFree(s)
        BY <1>8, <3>2, CommittedFree DEF DestroyVisit
      <4> QED BY <3>2, <4>1, <4>2, CommittedFreed DEF Committed!Destroy
    <3> QED BY <3>1, <3>2
  <2>2. Committed!SysEnvDestroy(c, s)
    BY <1>8, <1>l, <2>1, CommittedTables DEF DestroyVisit, Committed!SysEnvDestroy
  <2> QED BY <2>2, CommittedTables DEF Committed!Next
<1> QED BY <1>1, <1>2, <1>3, <1>4, <1>5, <1>6, <1>7, <1>8 DEF Visit

-----------------------------------------------------------------------------
(***************************************************************************)
(* The invariant.  In the middle of a visit, however it will end, it will  *)
(* have been a step of Kernel from `committed'; between visits the memory  *)
(* is `committed', but for the timer interrupts that CPUs waiting for the  *)
(* lock have not handled yet.                                              *)
(***************************************************************************)
Visiting == {"return", "sched", "env_run", "switch", "unlock", "release"}

(* Trapped, and not yet past the handler. *)
InTrap(c) == pc[c] \in Locking \cup {"own", "handler"} /\ cpu_mode[c] # "boot"

(* All the ways in which the visit of c can end from here, state n. *)
Finish(c, n) ==
  /\ n.env_free_list = env_free_list /\ n.pp_ref = pp_ref /\ n.ticks = ticks
  /\ n.eoi_pending = [committed.eoi_pending EXCEPT ![c] = eoi_pending[c]]
  /\ \/ /\ pc[c] = "return" /\ envs[curenv[c]].status = "RUNNING"
        /\ Left(committed, c, n, EnvRun(envs, curenv[c], curenv[c]), curenv[c],
                envs[curenv[c]].pgdir, "user")
     \/ /\ pc[c] = "return" /\ envs[curenv[c]].status # "RUNNING"
        /\ Yielded(committed, c, n, envs, curenv[c], cr3[c])
     \/ /\ pc[c] = "sched"
        /\ Yielded(committed, c, n, envs, curenv[c], cr3[c])
     \/ /\ pc[c] = "env_run"
        /\ Left(committed, c, n, EnvRun(envs, curenv[c], next_env[c]), next_env[c],
                envs[next_env[c]].pgdir, "user")
     \/ /\ pc[c] = "switch"
        /\ Left(committed, c, n, [envs EXCEPT ![next_env[c]].status = "RUNNING"], next_env[c],
                envs[next_env[c]].pgdir, "user")
     \/ /\ pc[c] \in {"unlock", "release"}
        /\ Left(committed, c, n, envs, curenv[c], cr3[c],
                IF next_env[c] = NULL THEN "halted" ELSE "user")

(* Other CPUs' curenv and cr3 are as they were. *)
OnlyItsOwn(c) ==
  /\ curenv = [committed.curenv EXCEPT ![c] = curenv[c]]
  /\ cr3 = [committed.cr3 EXCEPT ![c] = cr3[c]]

Underway(c) ==
  pc[c] \in Visiting => OnlyItsOwn(c) /\ \A n : Finish(c, n) => Visit(committed, c, n)

AsCommitted ==
  /\ envs = committed.envs /\ env_free_list = committed.env_free_list
  /\ pp_ref = committed.pp_ref /\ ticks = committed.ticks
  /\ curenv = committed.curenv /\ cr3 = committed.cr3

AtRest == (\A c \in CPUs : pc[c] \notin Visiting) => AsCommitted

(* A timer interrupt sets eoi_pending before the lock is taken. *)
EoiInv(c) ==
  pc[c] \notin Visiting =>
    /\ eoi_pending[c] = (committed.eoi_pending[c] \/ (InTrap(c) /\ trapno[c] = "timer"))
    /\ InTrap(c) /\ trapno[c] = "timer" => ~committed.eoi_pending[c]

(* The boot CPU has the lock from before it starts the others until it has *)
(* called sched_yield().                                                   *)
BootOrder ==
  /\ \A c \in CPUs : pc[c] \in {"boot_aps", "wait_ap"} => cpu_mode[c] = "boot"
  /\ cpu_mode[BSP] = "boot" /\ pc[BSP] \notin Critical =>
       \A d \in CPUs \ {BSP} : pc[d] = "off"

ModeInv ==
  /\ cpu_mode = committed.cpu_mode
  /\ \A c \in CPUs : cpu_mode[c] = "monitor" <=> pc[c] = "monitor"
  /\ \A c \in CPUs : pc[c] = "monitor" => ~Pending(committed.envs)

(* No program makes a thread here. *)
Table ==
  /\ envs \in [Slots -> Env]
  /\ \A s \in Slots : envs[s].type = "USER"
  /\ eoi_pending \in [CPUs -> BOOLEAN]
  /\ env_cpunum \in [Slots -> CPUs \cup {NULL}]

(* The state between visits is one that Kernel reaches. *)
CommittedInv == Committed!SafetyInv /\ Committed!RefsInv

VisitInv ==
  /\ Table /\ ModeInv /\ BootOrder /\ AtRest /\ CpunumRight
  /\ \A c \in CPUs : Underway(c) /\ EoiInv(c)
  /\ CommittedInv

-----------------------------------------------------------------------------
(***************************************************************************)
(* What the invariants of Kernel say of the state between visits.          *)
(***************************************************************************)
CommittedFacts ==
  /\ CommittedTypes
  /\ committed.eoi_pending \in [CPUs -> BOOLEAN]
  /\ committed.cr3 \in [CPUs -> Pages \cup {KernPgdir, NULL}]
  /\ committed.env_free_list \in Seq(Slots)
  /\ \A c \in CPUs : committed.cpu_mode[c] \in {"boot", "halted"} =>
                       Cur(c) = NULL /\ committed.cr3[c] = KernPgdir
  /\ \A c \in CPUs : UserOf(c) =>
       /\ committed.envs[Cur(c)].status \in {"RUNNING", "DYING"}
       /\ committed.cr3[c] = committed.envs[Cur(c)].pgdir
  /\ \A c, d \in CPUs : UserOf(c) /\ UserOf(d) /\ Cur(c) = Cur(d) => c = d

LEMMA CommittedKnown ==
  ASSUME CommittedInv
  PROVE  CommittedFacts
<1> USE CommittedTables DEF Cur, UserOf
<1>1. /\ Committed!TypeInv /\ Committed!CpuState /\ Committed!RunsOnOneCpu
      /\ Committed!Loaded
  BY DEF CommittedInv, Committed!SafetyInv, Committed!RefsInv
<1>2. /\ committed.curenv \in [CPUs -> Slots \cup {NULL}]
      /\ committed.cpu_mode \in [CPUs -> Modes]
      /\ committed.eoi_pending \in [CPUs -> BOOLEAN]
      /\ committed.cr3 \in [CPUs -> Pages \cup {KernPgdir, NULL}]
  BY <1>1 DEF Committed!TypeInv, Committed!TypeOK, Committed!Modes, Modes
<1>6. \A c \in CPUs : UserOf(c) => Cur(c) \in Slots
  BY <1>1 DEF Committed!TypeInv, Committed!HasCurenv
<1>7. committed.env_free_list \in Seq(Slots)
  BY <1>1 DEF Committed!TypeInv, Committed!TypeOK
<1>3. \A c \in CPUs : committed.cpu_mode[c] \in {"boot", "halted"} =>
        Cur(c) = NULL /\ committed.cr3[c] = KernPgdir
  BY <1>1, NullIsNoSlot DEF Committed!CpuState, Committed!Loaded
<1>4. \A c \in CPUs : UserOf(c) =>
        /\ committed.envs[Cur(c)].status \in {"RUNNING", "DYING"}
        /\ committed.cr3[c] = committed.envs[Cur(c)].pgdir
  BY <1>1, <1>2, <1>6 DEF Committed!RunsOnOneCpu, Committed!OnCpu, Committed!Loaded
<1>5. \A c, d \in CPUs : UserOf(c) /\ UserOf(d) /\ Cur(c) = Cur(d) => c = d
  BY <1>1, <1>2, <1>6 DEF Committed!RunsOnOneCpu, Committed!OnCpu
<1> QED BY <1>2, <1>3, <1>4, <1>5, <1>6, <1>7 DEF CommittedFacts, CommittedTypes

(* Only the CPU in the critical section is in the middle of a visit. *)
LEMMA OneVisitor ==
  ASSUME LockInv, NEW c \in CPUs, pc[c] \in Critical
  PROVE  /\ \A d \in CPUs : d # c => pc[d] \notin Visiting /\ pc[d] \notin Critical
         /\ Visiting \subseteq Critical
BY DEF LockInv, Holder, MutualExclusion, Visiting, Critical

(* Who is not in the middle of a visit has the curenv of `committed'. *)
LEMMA CurenvSettled ==
  ASSUME LockInv, VisitInv, NEW d \in CPUs, pc[d] \notin Visiting
  PROVE  curenv[d] = Cur(d) /\ cr3[d] = committed.cr3[d]
<1>0. CommittedFacts
  BY CommittedKnown DEF VisitInv
<1>1. CASE \A c \in CPUs : pc[c] \notin Visiting
  BY <1>1 DEF VisitInv, AtRest, AsCommitted, Cur
<1>2. CASE \E c \in CPUs : pc[c] \in Visiting
  <2>1. PICK c \in CPUs : pc[c] \in Visiting
    BY <1>2
  <2>2. OnlyItsOwn(c) /\ c # d
    BY <2>1 DEF VisitInv, Underway
  <2> QED BY <1>0, <2>2 DEF OnlyItsOwn, Cur, CommittedFacts, CommittedTypes
<1> QED BY <1>1, <1>2

(* What is known of Kernel is known of the instance. *)
LEMMA CommittedInductive ==
  ASSUME ProgramsOnly
  PROVE  /\ Committed!Init => CommittedInv
         /\ CommittedInv /\ [Committed!Next]_(Committed!vars) => CommittedInv'
<1>1. Committed!ProgramsOnly
  BY DEF ProgramsOnly, Committed!ProgramsOnly
<1>2. Committed!PolicyAssumption /\ Committed!KernelAssumption
  BY PolicyAssumption, KernelAssumption, CommittedTables
     DEF Committed!PolicyAssumption, Committed!KernelAssumption,
         Committed!Priorities, Priorities, Committed!CallKinds, CallKinds,
         Committed!RawCallKinds, RawCallKinds
<1> QED BY <1>1, <1>2, Committed!KernelInductive DEF CommittedInv

LEMMA CommittedKept ==
  ASSUME ProgramsOnly, CommittedInv, UNCHANGED committed
  PROVE  CommittedInv'
<1>1. UNCHANGED Committed!vars
  BY DEF Committed!vars
<1> QED BY <1>1, CommittedInductive

-----------------------------------------------------------------------------
(***************************************************************************)
(* Steps that leave the memory and `committed' as they are, but for the    *)
(* timer interrupt of a CPU that traps.                                    *)
(***************************************************************************)
LEMMA QuietStep ==
  ASSUME ProgramsOnly, VisitInv,
         UNCHANGED <<envs, env_free_list, curenv, cr3, pp_ref, ticks, cpu_mode,
                     next_env, committed>>,
         \A e \in CPUs :
           \/ /\ pc'[e] = pc[e] /\ eoi_pending'[e] = eoi_pending[e]
              /\ trapno'[e] = trapno[e]
           \/ /\ pc[e] \notin Visiting \cup {"monitor"}
              /\ pc'[e] \notin Visiting \cup {"monitor"}
              /\ EoiInv(e)',
         Table', BootOrder', CpunumRight'
  PROVE  VisitInv'
<1>1. ModeInv'
  BY DEF VisitInv, ModeInv
<1>2. AtRest'
  BY DEF VisitInv, AtRest, AsCommitted
<1>3. ASSUME NEW e \in CPUs PROVE Underway(e)'
  <2> SUFFICES ASSUME pc'[e] \in Visiting PROVE Underway(e)'
    BY DEF Underway
  <2>1. pc'[e] = pc[e] /\ eoi_pending'[e] = eoi_pending[e]
    OBVIOUS
  <2>2. OnlyItsOwn(e) /\ \A n : Finish(e, n) => Visit(committed, e, n)
    BY <2>1 DEF VisitInv, Underway
  <2>3. ASSUME NEW n, Finish(e, n)' PROVE Visit(committed, e, n)'
    <3>1. Finish(e, n)
      BY <2>1, <2>3 DEF Finish
    <3> QED BY <2>2, <3>1
  <2>4. OnlyItsOwn(e)'
    BY <2>2 DEF OnlyItsOwn
  <2> QED BY <2>3, <2>4 DEF Underway
<1>4. ASSUME NEW e \in CPUs PROVE EoiInv(e)'
  BY DEF VisitInv, EoiInv, InTrap
<1>5. CommittedInv'
  BY CommittedKept DEF VisitInv
<1> QED BY <1>1, <1>2, <1>3, <1>4, <1>5 DEF VisitInv

(* One CPU goes on, before it has begun to handle its trap. *)
LEMMA PcStep ==
  ASSUME ProgramsOnly, LockInv, VisitInv, NEW c \in CPUs, NEW q,
         pc' = [pc EXCEPT ![c] = q],
         UNCHANGED <<memory, cpu_mode, trapno, next_env, env_cpunum, committed>>,
         pc[c] \notin Visiting \cup {"monitor", "off"},
         q \notin Visiting \cup {"monitor", "user"},
         cpu_mode[c] = "boot" \/ {pc[c], q} \subseteq Locking \cup {"own", "handler"},
         q \in {"boot_aps", "wait_ap"} => cpu_mode[c] = "boot",
         pc[c] \in Critical => q \in Critical
  PROVE  VisitInv'
<1>1. /\ pc'[c] = q /\ \A d \in CPUs : d # c => pc'[d] = pc[d]
      /\ UNCHANGED <<envs, env_free_list, curenv, cr3, pp_ref, ticks, eoi_pending>>
  BY DEF LockInv, LockTypes, memory
<1>2. Table'
  BY <1>1 DEF VisitInv, Table
<1>3. BootOrder'
  BY <1>1, KernelAssumption DEF VisitInv, BootOrder
<1>4. CpunumRight'
  BY <1>1 DEF VisitInv, CpunumRight
<1>5. EoiInv(c)'
  BY <1>1 DEF VisitInv, EoiInv, InTrap
<1> QED BY <1>1, <1>2, <1>3, <1>4, <1>5, QuietStep

LEMMA BeforeLock ==
  ASSUME ProgramsOnly, LockInv, VisitInv, NEW c \in CPUs,
         ReadLocked(c) \/ ReadLockCpu(c) \/ Xchg(c) \/ I386Init(c) \/ WaitAp(c)
           \/ MpEntry(c) \/ MpMain(c)
  PROVE  VisitInv'
<1> USE DEF Goto, OnlyPc, SameLock, SameControl, Visiting, Critical, Locking
<1>c. CpuInv(c) /\ BootOrder
  BY DEF LockInv, VisitInv
<1>1. CASE ReadLocked(c)
  BY <1>1, PcStep DEF ReadLocked
<1>2. CASE ReadLockCpu(c)
  <2>1. lock_cpu # c
    BY <1>2 DEF ReadLockCpu, LockInv, Holder
  <2> QED BY <1>2, <2>1, PcStep DEF ReadLockCpu
<1>3. CASE Xchg(c)
  BY <1>3, PcStep DEF Xchg
<1>4. CASE I386Init(c)
  BY <1>4, <1>c, PcStep DEF I386Init, CpuInv
<1>5. CASE WaitAp(c)
  BY <1>5, <1>c, PcStep DEF WaitAp, BootOrder
<1>6. CASE MpEntry(c)
  BY <1>6, <1>c, PcStep DEF MpEntry, CpuInv, Starting
<1>7. CASE MpMain(c)
  BY <1>7, <1>c, PcStep DEF MpMain, CpuInv, Starting
<1> QED BY <1>1, <1>2, <1>3, <1>4, <1>5, <1>6, <1>7

(* boot_aps() starts a CPU. *)
LEMMA StartApVisit ==
  ASSUME ProgramsOnly, LockInv, VisitInv, NEW c \in CPUs, NEW ap \in CPUs,
         StartAp(c, ap)
  PROVE  VisitInv'
<1>1. /\ pc[c] = "boot_aps" /\ pc[ap] = "off"
      /\ pc' = [[pc EXCEPT ![c] = "wait_ap"] EXCEPT ![ap] = "mpentry"]
      /\ UNCHANGED <<envs, env_free_list, curenv, cr3, pp_ref, ticks, eoi_pending,
                     cpu_mode, trapno, next_env, env_cpunum, committed>>
  BY DEF StartAp, LapicStartap, SameLock, memory
<1>2. /\ pc'[c] = "wait_ap" /\ pc'[ap] = "mpentry"
      /\ \A d \in CPUs : d # c /\ d # ap => pc'[d] = pc[d]
  BY <1>1 DEF LockInv, LockTypes
<1>3. c = BSP /\ cpu_mode[c] = "boot" /\ cpu_mode[ap] = "boot"
  BY <1>1 DEF LockInv, CpuInv, Starting, VisitInv, BootOrder
<1>4. Table'
  BY <1>1 DEF VisitInv, Table
<1>5. BootOrder'
  BY <1>1, <1>2, <1>3 DEF VisitInv, BootOrder, Critical
<1>6. CpunumRight'
  BY <1>1, <1>2 DEF VisitInv, CpunumRight
<1>7. EoiInv(c)' /\ EoiInv(ap)'
  BY <1>1, <1>2, <1>3 DEF VisitInv, EoiInv, InTrap, Visiting, Locking
<1>8. /\ {pc[c], pc[ap]} \cap (Visiting \cup {"monitor"}) = {}
      /\ {pc'[c], pc'[ap]} \cap (Visiting \cup {"monitor"}) = {}
  BY <1>1, <1>2 DEF Visiting
<1> QED BY <1>1, <1>2, <1>4, <1>5, <1>6, <1>7, <1>8, QuietStep

(* A trap: a timer interrupt is pending from here on. *)
LEMMA TrapVisit ==
  ASSUME ProgramsOnly, LockInv, VisitInv, NEW c \in CPUs,
         NEW no \in Calls \cup {"timer"}, Trap(c, no)
  PROVE  VisitInv'
<1>0. LockCalls(c) = 1
  BY DEF Trap, LockCalls, LockInv, CpuInv, LockTypes
<1>1. /\ pc[c] \in {"user", "hlt"} /\ pc' = [pc EXCEPT ![c] = "holding"]
      /\ no = "timer" => ~eoi_pending[c]
      /\ trapno' = [trapno EXCEPT ![c] = no]
      /\ eoi_pending' = [eoi_pending EXCEPT ![c] = @ \/ no = "timer"]
      /\ UNCHANGED <<envs, env_free_list, curenv, cr3, pp_ref, ticks,
                     cpu_mode, next_env, env_cpunum, committed>>
  BY <1>0 DEF Trap
<1>2. /\ pc'[c] = "holding" /\ trapno'[c] = no
      /\ \A d \in CPUs : d # c => pc'[d] = pc[d] /\ trapno'[d] = trapno[d]
  BY <1>1 DEF LockInv, LockTypes
<1>3. /\ eoi_pending'[c] = (eoi_pending[c] \/ no = "timer")
      /\ \A d \in CPUs : d # c => eoi_pending'[d] = eoi_pending[d]
      /\ eoi_pending' \in [CPUs -> BOOLEAN]
  BY <1>1 DEF VisitInv, Table
<1>4. Table'
  BY <1>1, <1>3 DEF VisitInv, Table
<1>5. BootOrder'
  BY <1>1, <1>2, KernelAssumption DEF VisitInv, BootOrder, Critical
<1>6. CpunumRight'
  BY <1>1, <1>2 DEF VisitInv, CpunumRight
<1>7. EoiInv(c)'
  <2>1. cpu_mode[c] # "boot"
    BY <1>1 DEF LockInv, CpuInv
  <2>2. eoi_pending[c] = committed.eoi_pending[c]
    <3>1. CommittedFacts
      BY CommittedKnown DEF VisitInv
    <3> QED BY <1>1, <3>1 DEF VisitInv, Table, EoiInv, InTrap, Visiting, Locking, CommittedFacts
  <2> QED BY <1>1, <1>2, <1>3, <2>1, <2>2 DEF EoiInv, InTrap, Locking
<1>8. /\ pc[c] \notin Visiting \cup {"monitor"}
      /\ pc'[c] \notin Visiting \cup {"monitor"}
  BY <1>1, <1>2 DEF Visiting
<1> QED BY <1>1, <1>2, <1>3, <1>4, <1>5, <1>6, <1>7, <1>8, QuietStep

(* The one write outside the lock is to an environment no other CPU has.   *)
LEMMA WriteCpunumVisit ==
  ASSUME ProgramsOnly, LockInv, VisitInv, NEW c \in CPUs, WriteCpunum(c)
  PROVE  VisitInv'
<1>1. /\ pc[c] = "env_cpunum" /\ pc' = [pc EXCEPT ![c] = "user"]
      /\ env_cpunum' = [env_cpunum EXCEPT ![curenv[c]] = c]
      /\ UNCHANGED <<envs, env_free_list, curenv, cr3, pp_ref, ticks, eoi_pending,
                     cpu_mode, trapno, next_env, committed>>
  BY DEF WriteCpunum, Goto, memory
<1>2. pc'[c] = "user" /\ \A d \in CPUs : d # c => pc'[d] = pc[d]
  BY <1>1 DEF LockInv, LockTypes
<1>3. CommittedFacts /\ curenv[c] \in Slots /\ cpu_mode[c] = "user"
  BY <1>1, CommittedKnown DEF VisitInv, LockInv, CpuInv
<1>4. Table'
  BY <1>1, <1>3 DEF VisitInv, Table
<1>5. BootOrder'
  BY <1>1, <1>2, KernelAssumption DEF VisitInv, BootOrder, Critical
<1>6. CpunumRight'
  <2> SUFFICES ASSUME NEW d \in CPUs, pc'[d] = "user"
               PROVE  env_cpunum'[curenv[d]] = d
    BY <1>1 DEF CpunumRight
  <2>1. CASE d = c
    BY <1>1, <1>3, <2>1 DEF VisitInv, Table
  <2>2. CASE d # c
    <3>1. pc[d] = "user" /\ cpu_mode[d] = "user" /\ curenv[d] \in Slots
      BY <1>2, <2>2 DEF LockInv, CpuInv
    <3>2. curenv[d] = Cur(d) /\ curenv[c] = Cur(c)
      BY <1>1, <3>1, CurenvSettled DEF Visiting
    <3>3. UserOf(c) /\ UserOf(d)
      BY <1>3, <3>1 DEF VisitInv, ModeInv, UserOf
    <3>4. curenv[d] # curenv[c]
      BY <1>3, <2>2, <3>2, <3>3 DEF CommittedFacts
    <3> QED BY <1>1, <1>3, <3>1, <3>4 DEF VisitInv, Table, CpunumRight
  <2> QED BY <2>1, <2>2
<1>7. EoiInv(c)'
  BY <1>1, <1>2 DEF VisitInv, EoiInv, InTrap, Visiting, Locking
<1>8. /\ pc[c] \notin Visiting \cup {"monitor"}
      /\ pc'[c] \notin Visiting \cup {"monitor"}
  BY <1>1, <1>2 DEF Visiting
<1> QED BY <1>1, <1>2, <1>4, <1>5, <1>6, <1>7, <1>8, QuietStep

-----------------------------------------------------------------------------
(***************************************************************************)
(* A visit goes on.  Each of its steps leaves fewer ways to end it.        *)
(***************************************************************************)
LEMMA VisitorStep ==
  ASSUME ProgramsOnly, LockInv, VisitInv, NEW c \in CPUs,
         pc[c] \in Critical \ {"monitor"}, pc'[c] \in Visiting,
         \A d \in CPUs : d # c => /\ pc'[d] = pc[d]
                                  /\ eoi_pending'[d] = eoi_pending[d],
         UNCHANGED <<cpu_mode, trapno, env_cpunum, committed>>,
         Table', OnlyItsOwn(c)',
         \A n : Finish(c, n)' => Visit(committed, c, n)
  PROVE  VisitInv'
<1>1. \A d \in CPUs : d # c => pc[d] \notin Visiting /\ pc[d] \notin Critical
  BY OneVisitor
<1>2. ModeInv'
  BY DEF VisitInv, ModeInv, Visiting
<1>3. BootOrder'
  <2>1. pc'[c] \in Critical /\ pc'[c] \notin {"boot_aps", "wait_ap"} /\ pc[c] # "off"
    BY DEF Visiting, Critical
  <2> QED BY <2>1, KernelAssumption DEF VisitInv, BootOrder
<1>4. AtRest'
  BY DEF AtRest
<1>5. CpunumRight'
  <2> SUFFICES ASSUME NEW d \in CPUs, pc'[d] = "user"
               PROVE  env_cpunum[curenv'[d]] = d
    BY DEF CpunumRight
  <2>1. d # c /\ pc[d] = "user"
    BY DEF Visiting
  <2>2. curenv[d] = committed.curenv[d]
    BY <1>1, <2>1, CurenvSettled DEF Cur
  <2>3. curenv'[d] = committed.curenv[d]
    <3>1. CommittedFacts
      BY CommittedKnown DEF VisitInv
    <3> QED BY <2>1, <3>1 DEF OnlyItsOwn, CommittedFacts, CommittedTypes
  <2> QED BY <2>1, <2>2, <2>3 DEF VisitInv, CpunumRight
<1>6. ASSUME NEW d \in CPUs PROVE Underway(d)'
  BY <1>1 DEF Underway
<1>7. ASSUME NEW d \in CPUs PROVE EoiInv(d)'
  <2>1. CASE d = c
    BY <2>1 DEF EoiInv
  <2>2. CASE d # c
    BY <2>2 DEF VisitInv, EoiInv, InTrap
  <2> QED BY <2>1, <2>2
<1>8. CommittedInv'
  BY CommittedKept DEF VisitInv
<1> QED BY <1>2, <1>3, <1>4, <1>5, <1>6, <1>7, <1>8 DEF VisitInv

(* The visit of c is under way. *)
LEMMA Carried ==
  ASSUME ProgramsOnly, LockInv, VisitInv, NEW c \in CPUs,
         pc[c] \in Visiting, pc'[c] \in Visiting,
         \A d \in CPUs : d # c => /\ pc'[d] = pc[d]
                                  /\ eoi_pending'[d] = eoi_pending[d],
         UNCHANGED <<cpu_mode, trapno, env_cpunum, committed>>,
         Table', OnlyItsOwn(c)',
         \A n : Finish(c, n)' => Finish(c, n)
  PROVE  VisitInv'
<1>1. pc[c] \in Critical \ {"monitor"}
  BY DEF Visiting, Critical
<1>2. \A n : Finish(c, n)' => Visit(committed, c, n)
  BY DEF VisitInv, Underway
<1> QED BY <1>1, <1>2, VisitorStep

(* What sched_yield() and env_run() write of the table. *)
LEMMA AgedTable ==
  ASSUME NEW es \in [Slots -> Env], NEW r \in Slots
  PROVE  /\ Aged(es, r) \in [Slots -> Env]
         /\ \A s \in Slots : /\ Aged(es, r)[s].type = es[s].type
                             /\ Aged(es, r)[s].pgdir = es[s].pgdir
<1>1. Aged(es, r) \in [Slots -> Env]
  BY WaitCapType DEF Aged, Env
<1> QED BY <1>1 DEF Aged, Env

Descheduled(es, cur) ==
  IF CanKeepCpu(es, cur) THEN [es EXCEPT ![cur].status = "RUNNABLE"] ELSE es

LEMMA DescheduledTable ==
  ASSUME NEW es \in [Slots -> Env], NEW cur \in Slots \cup {NULL}, NEW e \in Slots
  PROVE  /\ Descheduled(es, cur) \in [Slots -> Env]
         /\ \A s \in Slots : /\ Descheduled(es, cur)[s].type = es[s].type
                             /\ Descheduled(es, cur)[s].pgdir = es[s].pgdir
         /\ [Descheduled(es, cur) EXCEPT ![e].status = "RUNNING"] = EnvRun(es, cur, e)
<1>1. Descheduled(es, cur) \in [Slots -> Env]
  BY DEF Descheduled, CanKeepCpu, Env, Statuses
<1>2. \A s \in Slots : /\ Descheduled(es, cur)[s].type = es[s].type
                       /\ Descheduled(es, cur)[s].pgdir = es[s].pgdir
  BY DEF Descheduled, CanKeepCpu, Env
<1>3. ASSUME NEW s \in Slots
      PROVE  [Descheduled(es, cur) EXCEPT ![e].status = "RUNNING"][s] = EnvRun(es, cur, e)[s]
  <2>1. CASE s = e /\ s # cur
    BY <1>1, <2>1 DEF Descheduled, CanKeepCpu, EnvRun
  <2>2. CASE s = e /\ s = cur
    BY <1>1, <2>2 DEF Descheduled, CanKeepCpu, EnvRun, Env
  <2>3. CASE s # e
    BY <1>1, <2>3, NullIsNoSlot DEF Descheduled, CanKeepCpu, EnvRun
  <2> QED BY <2>1, <2>2, <2>3
<1>4. [Descheduled(es, cur) EXCEPT ![e].status = "RUNNING"] = EnvRun(es, cur, e)
  BY <1>1, <1>3 DEF EnvRun
<1> QED BY <1>1, <1>2, <1>4

LEMMA RunAgain ==
  ASSUME NEW es \in [Slots -> Env], NEW cur \in Slots, es[cur].status = "RUNNING"
  PROVE  EnvRun(es, cur, cur) = es
BY DEF EnvRun, Env

LEMMA ReturnVisit ==
  ASSUME ProgramsOnly, LockInv, VisitInv, NEW c \in CPUs, Return(c)
  PROVE  VisitInv'
<1> DEFINE running == envs[curenv[c]].status = "RUNNING"
<1>1. /\ pc[c] = "return"
      /\ pc' = [pc EXCEPT ![c] = IF running THEN "env_run" ELSE "sched"]
      /\ next_env' = [next_env EXCEPT ![c] = IF running THEN curenv[c] ELSE @]
      /\ UNCHANGED <<envs, env_free_list, curenv, cr3, pp_ref, ticks, eoi_pending,
                     cpu_mode, trapno, env_cpunum, committed>>
  BY DEF Return, Goto, memory
<1>2. /\ pc'[c] = IF running THEN "env_run" ELSE "sched"
      /\ \A d \in CPUs : d # c => pc'[d] = pc[d]
      /\ running => next_env'[c] = curenv[c]
  BY <1>1 DEF LockInv, LockTypes
<1>3. Table' /\ OnlyItsOwn(c)'
  BY <1>1 DEF VisitInv, Table, Underway, OnlyItsOwn, Visiting
<1>4. ASSUME NEW n, Finish(c, n)' PROVE Finish(c, n)
  BY <1>1, <1>2, <1>4 DEF Finish
<1>5. pc[c] \in Visiting /\ pc'[c] \in Visiting
  BY <1>1, <1>2 DEF Visiting
<1> QED BY <1>1, <1>2, <1>3, <1>4, <1>5, Carried

LEMMA SchedVisit ==
  ASSUME ProgramsOnly, LockInv, VisitInv, NEW c \in CPUs, Sched(c)
  PROVE  VisitInv'
<1>1. PICK r \in Slots :
        /\ pc[c] = "sched" /\ pc' = [pc EXCEPT ![c] = "env_run"]
        /\ Picks(envs, curenv[c], r)
        /\ envs' = Aged(envs, r)
        /\ next_env' = [next_env EXCEPT ![c] = r]
        /\ UNCHANGED <<env_free_list, curenv, cr3, pp_ref, ticks, eoi_pending,
                       cpu_mode, trapno, env_cpunum, committed>>
  BY DEF Sched, Goto
<1>2. /\ pc'[c] = "env_run" /\ \A d \in CPUs : d # c => pc'[d] = pc[d]
      /\ next_env'[c] = r
  BY <1>1 DEF LockInv, LockTypes
<1>t. envs \in [Slots -> Env] /\ \A s \in Slots : envs[s].type = "USER"
  BY DEF VisitInv, Table
<1>3. Table' /\ OnlyItsOwn(c)'
  <2>1. envs' \in [Slots -> Env] /\ \A s \in Slots : envs'[s].type = "USER"
    BY <1>1, <1>t, AgedTable
  <2> QED BY <1>1, <2>1 DEF VisitInv, Table, Underway, OnlyItsOwn, Visiting
<1>4. ASSUME NEW n, Finish(c, n)' PROVE Finish(c, n)
  <2>1. /\ n.env_free_list = env_free_list /\ n.pp_ref = pp_ref /\ n.ticks = ticks
        /\ n.eoi_pending = [committed.eoi_pending EXCEPT ![c] = eoi_pending[c]]
        /\ Left(committed, c, n, EnvRun(Aged(envs, r), curenv[c], r), r,
                Aged(envs, r)[r].pgdir, "user")
    BY <1>1, <1>2, <1>4 DEF Finish
  <2>2. Aged(envs, r)[r].pgdir = envs[r].pgdir
    BY <1>t, AgedTable
  <2>3. Yielded(committed, c, n, envs, curenv[c], cr3[c])
    BY <1>1, <2>1, <2>2 DEF Yielded
  <2> QED BY <1>1, <2>1, <2>3 DEF Finish
<1>5. pc[c] \in Visiting /\ pc'[c] \in Visiting
  BY <1>1, <1>2 DEF Visiting
<1> QED BY <1>1, <1>2, <1>3, <1>4, <1>5, Carried

(* c writes its own curenv and cr3. *)
LEMMA OwnWritten ==
  ASSUME CommittedFacts, NEW c \in CPUs, OnlyItsOwn(c), NEW e, NEW dir,
         curenv' = [curenv EXCEPT ![c] = e], cr3' = [cr3 EXCEPT ![c] = dir],
         UNCHANGED committed
  PROVE  OnlyItsOwn(c)' /\ curenv'[c] = e /\ cr3'[c] = dir
<1>1. /\ committed.curenv \in [CPUs -> Slots \cup {NULL}]
      /\ committed.cr3 \in [CPUs -> Pages \cup {KernPgdir, NULL}]
  BY DEF CommittedFacts, CommittedTypes
<1>2. curenv' = [committed.curenv EXCEPT ![c] = e] /\ curenv'[c] = e
  <2>1. curenv = [committed.curenv EXCEPT ![c] = curenv[c]]
    BY DEF OnlyItsOwn
  <2> QED BY <1>1, <2>1
<1>3. cr3' = [committed.cr3 EXCEPT ![c] = dir] /\ cr3'[c] = dir
  <2>1. cr3 = [committed.cr3 EXCEPT ![c] = cr3[c]]
    BY DEF OnlyItsOwn
  <2> QED BY <1>1, <2>1
<1> QED BY <1>2, <1>3 DEF OnlyItsOwn

LEMMA HaltVisit ==
  ASSUME ProgramsOnly, LockInv, VisitInv, NEW c \in CPUs, Halt(c)
  PROVE  VisitInv'
<1>1. /\ pc[c] = "sched" /\ pc' = [pc EXCEPT ![c] = "unlock"]
      /\ ~CanPick(envs, curenv[c]) /\ Pending(envs)
      /\ curenv' = [curenv EXCEPT ![c] = NULL]
      /\ cr3' = [cr3 EXCEPT ![c] = KernPgdir]
      /\ UNCHANGED <<envs, env_free_list, pp_ref, ticks, eoi_pending, cpu_mode,
                     trapno, next_env, env_cpunum, committed>>
  BY DEF Halt, Goto
<1>0. CommittedFacts /\ OnlyItsOwn(c)
  BY <1>1, CommittedKnown DEF VisitInv, Underway, Visiting
<1>2. /\ pc'[c] = "unlock" /\ \A d \in CPUs : d # c => pc'[d] = pc[d]
      /\ next_env[c] = NULL
  BY <1>1 DEF LockInv, LockTypes, CpuInv, Scheduling
<1>w. OnlyItsOwn(c)' /\ curenv'[c] = NULL /\ cr3'[c] = KernPgdir
  BY <1>0, <1>1, OwnWritten
<1>3. Table'
  BY <1>1 DEF VisitInv, Table
<1>4. ASSUME NEW n, Finish(c, n)' PROVE Finish(c, n)
  <2>1. /\ n.env_free_list = env_free_list /\ n.pp_ref = pp_ref /\ n.ticks = ticks
        /\ n.eoi_pending = [committed.eoi_pending EXCEPT ![c] = eoi_pending[c]]
        /\ Left(committed, c, n, envs, NULL, KernPgdir, "halted")
    BY <1>1, <1>2, <1>w, <1>4 DEF Finish
  <2>2. Yielded(committed, c, n, envs, curenv[c], cr3[c])
    BY <1>1, <2>1 DEF Yielded
  <2> QED BY <1>1, <2>1, <2>2 DEF Finish
<1>5. pc[c] \in Visiting /\ pc'[c] \in Visiting
  BY <1>1, <1>2 DEF Visiting
<1> QED BY <1>1, <1>2, <1>w, <1>3, <1>4, <1>5, Carried

LEMMA DescheduleVisit ==
  ASSUME ProgramsOnly, LockInv, VisitInv, NEW c \in CPUs, Deschedule(c)
  PROVE  VisitInv'
<1> DEFINE e == next_env[c]
<1>1. /\ pc[c] = "env_run" /\ pc' = [pc EXCEPT ![c] = "switch"]
      /\ envs' = Descheduled(envs, curenv[c])
      /\ UNCHANGED <<env_free_list, curenv, cr3, pp_ref, ticks, eoi_pending,
                     cpu_mode, trapno, next_env, env_cpunum, committed>>
  BY DEF Deschedule, Goto, SameControl, Descheduled
<1>2. /\ pc'[c] = "switch" /\ \A d \in CPUs : d # c => pc'[d] = pc[d]
      /\ e \in Slots /\ curenv[c] \in Slots \cup {NULL}
  BY <1>1 DEF LockInv, LockTypes, CpuInv
<1>t. envs \in [Slots -> Env] /\ \A s \in Slots : envs[s].type = "USER"
  BY DEF VisitInv, Table
<1>d. /\ envs' \in [Slots -> Env]
      /\ \A s \in Slots : envs'[s].type = "USER" /\ envs'[s].pgdir = envs[s].pgdir
      /\ [envs' EXCEPT ![e].status = "RUNNING"] = EnvRun(envs, curenv[c], e)
  <2>1. /\ Descheduled(envs, curenv[c]) \in [Slots -> Env]
        /\ \A s \in Slots :
             /\ Descheduled(envs, curenv[c])[s].type = envs[s].type
             /\ Descheduled(envs, curenv[c])[s].pgdir = envs[s].pgdir
        /\ [Descheduled(envs, curenv[c]) EXCEPT ![e].status = "RUNNING"]
             = EnvRun(envs, curenv[c], e)
    <3>1. envs \in [Slots -> Env] /\ curenv[c] \in Slots \cup {NULL} /\ e \in Slots
      BY <1>2, <1>t
    <3> HIDE DEF e
    <3> QED BY <3>1, DescheduledTable
  <2>2. \A s \in Slots : envs'[s].type = "USER" /\ envs'[s].pgdir = envs[s].pgdir
    BY <1>1, <1>t, <2>1
  <2> QED BY <1>1, <2>1, <2>2
<1>3. Table' /\ OnlyItsOwn(c)'
  <2>1. Table'
    BY <1>1, <1>d DEF VisitInv, Table
  <2>2. OnlyItsOwn(c)'
    BY <1>1 DEF VisitInv, Underway, OnlyItsOwn, Visiting
  <2> QED BY <2>1, <2>2
<1>4. ASSUME NEW n, Finish(c, n)' PROVE Finish(c, n)
  <2>1. /\ n.env_free_list = env_free_list /\ n.pp_ref = pp_ref /\ n.ticks = ticks
        /\ n.eoi_pending = [committed.eoi_pending EXCEPT ![c] = eoi_pending[c]]
        /\ Left(committed, c, n, [envs' EXCEPT ![e].status = "RUNNING"], e,
                envs'[e].pgdir, "user")
    BY <1>1, <1>2, <1>4 DEF Finish
  <2>2. Left(committed, c, n, EnvRun(envs, curenv[c], e), e, envs[e].pgdir, "user")
    BY <1>2, <1>d, <2>1
  <2> QED BY <1>1, <2>1, <2>2 DEF Finish
<1>5. pc[c] \in Visiting /\ pc'[c] \in Visiting
  BY <1>1, <1>2 DEF Visiting
<1> QED BY <1>1, <1>2, <1>3, <1>4, <1>5, Carried

LEMMA SwitchVisit ==
  ASSUME ProgramsOnly, LockInv, VisitInv, NEW c \in CPUs, Switch(c)
  PROVE  VisitInv'
<1> DEFINE e == next_env[c]
<1>1. /\ pc[c] = "switch" /\ pc' = [pc EXCEPT ![c] = "unlock"]
      /\ curenv' = [curenv EXCEPT ![c] = e]
      /\ envs' = [envs EXCEPT ![e].status = "RUNNING"]
      /\ cr3' = [cr3 EXCEPT ![c] = envs[e].pgdir]
      /\ UNCHANGED <<env_free_list, pp_ref, ticks, eoi_pending, cpu_mode,
                     trapno, next_env, env_cpunum, committed>>
  BY DEF Switch, Goto, SameControl
<1>0. CommittedFacts /\ OnlyItsOwn(c)
  BY <1>1, CommittedKnown DEF VisitInv, Underway, Visiting
<1>2. /\ pc'[c] = "unlock" /\ \A d \in CPUs : d # c => pc'[d] = pc[d]
      /\ e \in Slots /\ e # NULL
  BY <1>1, NullIsNoSlot DEF LockInv, LockTypes, CpuInv
<1>w. OnlyItsOwn(c)' /\ curenv'[c] = e /\ cr3'[c] = envs[e].pgdir
  BY <1>0, <1>1, OwnWritten
<1>3. Table'
  <2>1. envs' \in [Slots -> Env] /\ \A s \in Slots : envs'[s].type = "USER"
    <3>1. envs \in [Slots -> Env] /\ \A s \in Slots : envs[s].type = "USER"
      BY DEF VisitInv, Table
    <3> HIDE DEF e
    <3> QED BY <1>1, <1>2, <3>1 DEF Env, Statuses
  <2> QED BY <1>1, <2>1 DEF VisitInv, Table
<1>4. ASSUME NEW n, Finish(c, n)' PROVE Finish(c, n)
  BY <1>1, <1>2, <1>w, <1>4 DEF Finish
<1>5. pc[c] \in Visiting /\ pc'[c] \in Visiting
  BY <1>1, <1>2 DEF Visiting
<1> QED BY <1>1, <1>2, <1>w, <1>3, <1>4, <1>5, Carried

LEMMA UnlockVisit ==
  ASSUME ProgramsOnly, LockInv, VisitInv, NEW c \in CPUs, Unlock(c)
  PROVE  VisitInv'
<1>0. pc[c] = "unlock" /\ locked /\ lock_cpu = c
  BY DEF Unlock, Goto, LockInv, Holder, Critical
<1>1. /\ pc[c] = "unlock" /\ pc' = [pc EXCEPT ![c] = "release"]
      /\ UNCHANGED <<envs, env_free_list, curenv, cr3, pp_ref, ticks, eoi_pending,
                     cpu_mode, trapno, next_env, env_cpunum, committed>>
  BY <1>0 DEF Unlock, Goto, memory, SameControl
<1>2. pc'[c] = "release" /\ \A d \in CPUs : d # c => pc'[d] = pc[d]
  BY <1>1 DEF LockInv, LockTypes
<1>3. Table' /\ OnlyItsOwn(c)'
  BY <1>1 DEF VisitInv, Table, Underway, OnlyItsOwn, Visiting
<1>4. ASSUME NEW n, Finish(c, n)' PROVE Finish(c, n)
  BY <1>1, <1>2, <1>4 DEF Finish
<1>5. pc[c] \in Visiting /\ pc'[c] \in Visiting
  BY <1>1, <1>2 DEF Visiting
<1> QED BY <1>1, <1>2, <1>3, <1>4, <1>5, Carried

-----------------------------------------------------------------------------
(***************************************************************************)
(* A visit ends.                                                           *)
(***************************************************************************)
LEMMA Ended ==
  ASSUME LockInv, VisitInv, NEW c \in CPUs, pc[c] \in Visiting,
         NEW mode, EndVisit(c, mode)
  PROVE  /\ Left(committed, c, committed', envs, curenv[c], cr3[c], mode)
         /\ committed'.envs = envs /\ committed'.env_free_list = env_free_list
         /\ committed'.pp_ref = pp_ref /\ committed'.ticks = ticks
         /\ committed'.curenv = curenv /\ committed'.cr3 = cr3
         /\ committed'.cpu_mode = cpu_mode'
         /\ committed'.eoi_pending = [committed.eoi_pending EXCEPT ![c] = eoi_pending[c]]
<1>1. /\ committed'.envs = envs /\ committed'.env_free_list = env_free_list
      /\ committed'.pp_ref = pp_ref /\ committed'.ticks = ticks
      /\ committed'.curenv = curenv /\ committed'.cr3 = cr3
      /\ committed'.cpu_mode = cpu_mode'
      /\ committed'.eoi_pending = [committed.eoi_pending EXCEPT ![c] = eoi_pending[c]]
  BY DEF EndVisit, Snapshot
<1>2. cpu_mode' = [committed.cpu_mode EXCEPT ![c] = mode]
  BY DEF EndVisit, VisitInv, ModeInv
<1>3. OnlyItsOwn(c)
  BY DEF VisitInv, Underway
<1> QED BY <1>1, <1>2, <1>3 DEF Left, OnlyItsOwn

LEMMA CommitStep ==
  ASSUME ProgramsOnly, LockInv, VisitInv, NEW c \in CPUs, pc[c] \in Visiting,
         NEW q, pc' = [pc EXCEPT ![c] = q],
         q \in {"hlt", "env_cpunum", "monitor"},
         NEW mode \in Modes \ {"boot"}, EndVisit(c, mode),
         mode = "monitor" <=> q = "monitor",
         mode = "monitor" => ~Pending(envs),
         UNCHANGED <<memory, env_cpunum>>,
         \A d \in CPUs : d # c => trapno'[d] = trapno[d],
         Finish(c, committed')
  PROVE  [Atomic!Next]_(Atomic!vars) /\ VisitInv'
<1>0. CommittedFacts
  BY CommittedKnown DEF VisitInv
<1>1. Visit(committed, c, committed')
  BY DEF VisitInv, Underway
<1>2. [Atomic!Next]_(Atomic!vars)
  BY <1>0, <1>1, AtomicStep DEF CommittedFacts
<1>3. CommittedInv'
  BY <1>0, <1>1, CommittedStep, CommittedInductive DEF CommittedFacts, VisitInv
<1>4. /\ committed'.envs = envs /\ committed'.env_free_list = env_free_list
      /\ committed'.pp_ref = pp_ref /\ committed'.ticks = ticks
      /\ committed'.curenv = curenv /\ committed'.cr3 = cr3
      /\ committed'.cpu_mode = cpu_mode'
      /\ committed'.eoi_pending = [committed.eoi_pending EXCEPT ![c] = eoi_pending[c]]
  BY Ended
<1>5. /\ pc'[c] = q /\ cpu_mode'[c] = mode
      /\ \A d \in CPUs : d # c => pc'[d] = pc[d] /\ cpu_mode'[d] = cpu_mode[d]
      /\ UNCHANGED <<envs, env_free_list, curenv, cr3, pp_ref, ticks, eoi_pending>>
  BY DEF LockInv, LockTypes, EndVisit, memory
<1>6. /\ \A d \in CPUs : d # c => pc[d] \notin Critical \cup Visiting
      /\ pc[c] # "off" /\ pc[c] # "monitor"
  <2>1. pc[c] \in Critical
    BY DEF Visiting, Critical
  <2> QED BY <2>1, OneVisitor DEF Visiting
<1>7. Table'
  BY <1>5 DEF VisitInv, Table
<1>8. ModeInv'
  BY <1>4, <1>5, <1>6 DEF VisitInv, ModeInv, Critical
<1>9. BootOrder'
  BY <1>5, <1>6, KernelAssumption DEF VisitInv, BootOrder, Critical
<1>10. AtRest'
  BY <1>4, <1>5 DEF AtRest, AsCommitted
<1>11. CpunumRight'
  BY <1>5 DEF VisitInv, CpunumRight
<1>12. ASSUME NEW d \in CPUs PROVE Underway(d)'
  BY <1>5, <1>6 DEF Underway, Visiting
<1>13. ASSUME NEW d \in CPUs PROVE EoiInv(d)'
  <2>1. CASE d = c
    <3>1. committed'.eoi_pending[c] = eoi_pending'[c] /\ eoi_pending'[c] \in BOOLEAN
      BY <1>0, <1>4, <1>5 DEF CommittedFacts, VisitInv, Table
    <3>2. ~InTrap(c)'
      BY <1>5 DEF InTrap, Locking
    <3> QED BY <2>1, <3>1, <3>2 DEF EoiInv
  <2>2. CASE d # c
    <3>1. committed'.eoi_pending[d] = committed.eoi_pending[d]
      BY <1>0, <1>4, <2>2 DEF CommittedFacts
    <3>2. EoiInv(d)
      BY DEF VisitInv
    <3> QED BY <1>5, <2>2, <3>1, <3>2 DEF EoiInv, InTrap
  <2> QED BY <2>1, <2>2
<1> QED BY <1>2, <1>3, <1>7, <1>8, <1>9, <1>10, <1>11, <1>12, <1>13 DEF VisitInv

LEMMA ReleaseVisit ==
  ASSUME ProgramsOnly, LockInv, VisitInv, NEW c \in CPUs, Release(c)
  PROVE  [Atomic!Next]_(Atomic!vars) /\ VisitInv'
<1> DEFINE mode == IF next_env[c] = NULL THEN "halted" ELSE "user"
           q    == IF next_env[c] = NULL THEN "hlt" ELSE "env_cpunum"
<1>1. /\ pc[c] = "release" /\ pc' = [pc EXCEPT ![c] = q]
      /\ EndVisit(c, mode)
      /\ trapno' = [trapno EXCEPT ![c] = "none"]
      /\ UNCHANGED <<memory, env_cpunum>>
  BY DEF Release, Goto
<1>2. /\ pc[c] \in Visiting /\ mode \in Modes \ {"boot"}
      /\ q \in {"hlt", "env_cpunum", "monitor"}
      /\ mode # "monitor" /\ q # "monitor"
      /\ \A d \in CPUs : d # c => trapno'[d] = trapno[d]
  BY <1>1 DEF Visiting, Modes, LockInv, LockTypes
<1>3. Finish(c, committed')
  BY <1>1, <1>2, Ended DEF Finish
<1> HIDE DEF mode, q
<1> QED BY <1>1, <1>2, <1>3, CommitStep

LEMMA EnterMonitorVisit ==
  ASSUME ProgramsOnly, LockInv, VisitInv, NEW c \in CPUs, EnterMonitor(c)
  PROVE  [Atomic!Next]_(Atomic!vars) /\ VisitInv'
<1>1. /\ pc[c] = "sched" /\ pc' = [pc EXCEPT ![c] = "monitor"]
      /\ ~CanPick(envs, curenv[c]) /\ ~Pending(envs)
      /\ EndVisit(c, "monitor")
      /\ UNCHANGED <<memory, env_cpunum, trapno>>
  BY DEF EnterMonitor, Goto
<1>2. pc[c] \in Visiting /\ "monitor" \in Modes \ {"boot"}
  BY <1>1 DEF Visiting, Modes
<1>3. Finish(c, committed')
  <2>1. Yielded(committed, c, committed', envs, curenv[c], cr3[c])
    BY <1>1, <1>2, Ended DEF Yielded
  <2> QED BY <1>1, <1>2, <2>1, Ended DEF Finish
<1> QED BY <1>1, <1>2, <1>3, CommitStep

-----------------------------------------------------------------------------
(***************************************************************************)
(* A visit begins: the CPU has the lock, and the memory is `committed'.    *)
(***************************************************************************)
LEMMA Arrived ==
  ASSUME LockInv, VisitInv, NEW c \in CPUs, pc[c] \in {"own", "boot_aps", "handler"}
  PROVE  /\ AsCommitted /\ CommittedFacts /\ OnlyItsOwn(c)
         /\ \A d \in CPUs : committed.cpu_mode[d] # "monitor"
         /\ pc[c] \in Critical \ {"monitor"}
         /\ cpu_mode = committed.cpu_mode
<1>1. pc[c] \in Critical \ {"monitor"} /\ pc[c] \notin Visiting
  BY DEF Critical, Visiting
<1>2. \A d \in CPUs : pc[d] \notin Visiting /\ pc[d] # "monitor"
  BY <1>1, OneVisitor DEF Critical
<1>3. AsCommitted /\ CommittedFacts
  BY <1>2, CommittedKnown DEF VisitInv, AtRest
<1>4. cpu_mode = committed.cpu_mode /\ \A d \in CPUs : committed.cpu_mode[d] # "monitor"
  BY <1>2 DEF VisitInv, ModeInv
<1>5. OnlyItsOwn(c)
  BY <1>3 DEF AsCommitted, OnlyItsOwn, CommittedFacts, CommittedTypes
<1> QED BY <1>1, <1>3, <1>4, <1>5

(* The state n in which the visit ends has the same interrupts pending. *)
LEMMA EoiEnds ==
  ASSUME CommittedFacts, NEW c \in CPUs, NEW n,
         n.eoi_pending = [committed.eoi_pending EXCEPT ![c] = committed.eoi_pending[c]]
  PROVE  SameEoi(committed, n)
BY DEF CommittedFacts, SameEoi

(* sched_yield() at the end of i386_init() and of mp_main(). *)
LEMMA BootArrives ==
  ASSUME ProgramsOnly, LockInv, VisitInv, NEW c \in CPUs,
         pc[c] \in {"own", "boot_aps"}, pc' = [pc EXCEPT ![c] = "sched"],
         cpu_mode[c] = "boot", c # BSP => cpu_mode[BSP] # "boot",
         UNCHANGED <<memory, cpu_mode, trapno, next_env, env_cpunum, committed>>
  PROVE  VisitInv'
<1>0. /\ AsCommitted /\ CommittedFacts /\ OnlyItsOwn(c)
      /\ \A d \in CPUs : committed.cpu_mode[d] # "monitor"
      /\ pc[c] \in Critical \ {"monitor"}
      /\ cpu_mode = committed.cpu_mode
  BY Arrived
<1>1. /\ pc'[c] = "sched" /\ \A d \in CPUs : d # c => pc'[d] = pc[d]
      /\ UNCHANGED <<envs, env_free_list, curenv, cr3, pp_ref, ticks, eoi_pending>>
  BY DEF LockInv, LockTypes, memory
<1>2. curenv[c] = NULL /\ cr3[c] = KernPgdir
  BY <1>0 DEF AsCommitted, CommittedFacts, Cur
<1>3. eoi_pending[c] = committed.eoi_pending[c]
  BY <1>0 DEF VisitInv, EoiInv, InTrap, Visiting, CommittedFacts, Table
<1>4. ASSUME NEW n, Finish(c, n)' PROVE Visit(committed, c, n)
  <2>1. /\ n.env_free_list = committed.env_free_list /\ n.pp_ref = committed.pp_ref
        /\ n.ticks = committed.ticks
        /\ n.eoi_pending = [committed.eoi_pending EXCEPT ![c] = committed.eoi_pending[c]]
        /\ Yielded(committed, c, n, committed.envs, NULL, KernPgdir)
    BY <1>0, <1>1, <1>2, <1>3, <1>4 DEF Finish, AsCommitted
  <2>2. SameEoi(committed, n)
    BY <1>0, <2>1, EoiEnds
  <2>3. BootVisit(committed, c, n)
    BY <1>0, <2>1, <2>2 DEF BootVisit, SameList, SameClock
  <2> QED BY <1>0, <2>3 DEF Visit
<1>5. Table' /\ OnlyItsOwn(c)'
  <2>1. Table'
    BY <1>1 DEF VisitInv, Table
  <2>2. OnlyItsOwn(c)'
    BY <1>0, <1>1 DEF OnlyItsOwn
  <2> QED BY <2>1, <2>2
<1>6. pc'[c] \in Visiting
  BY <1>1 DEF Visiting
<1> QED BY <1>0, <1>1, <1>4, <1>5, <1>6, VisitorStep

LEMMA OwnVisit ==
  ASSUME ProgramsOnly, LockInv, VisitInv, NEW c \in CPUs, Own(c)
  PROVE  VisitInv'
<1>0. pc[c] = "own" /\ lock_calls[c] = 1
  BY DEF Own, Goto, LockInv, CpuInv
<1>1. UNCHANGED <<memory, cpu_mode, trapno, next_env, env_cpunum, committed>>
  BY DEF Own, SameControl
<1>2. CASE cpu_mode[c] # "boot"
  <2>1. pc' = [pc EXCEPT ![c] = "handler"]
    BY <1>0, <1>2 DEF Own, Goto
  <2> QED BY <1>0, <1>1, <2>1, PcStep DEF Visiting, Critical
<1>3. CASE cpu_mode[c] = "boot" /\ c = BSP
  <2>1. pc' = [pc EXCEPT ![c] = "boot_aps"]
    BY <1>0, <1>3 DEF Own, Goto
  <2> QED BY <1>0, <1>1, <1>3, <2>1, PcStep DEF Visiting, Critical
<1>4. CASE cpu_mode[c] = "boot" /\ c # BSP
  <2>1. pc' = [pc EXCEPT ![c] = "sched"]
    BY <1>0, <1>4 DEF Own, Goto
  <2>2. pc[BSP] \notin Critical
    BY <1>0, <1>4, KernelAssumption DEF LockInv, Holder, MutualExclusion, Critical
  <2>3. cpu_mode[BSP] # "boot"
    BY <1>0, <1>4, <2>2 DEF VisitInv, BootOrder
  <2> QED BY <1>0, <1>1, <1>4, <2>1, <2>3, BootArrives
<1> QED BY <1>2, <1>3, <1>4

LEMMA ApsStartedVisit ==
  ASSUME ProgramsOnly, LockInv, VisitInv, NEW c \in CPUs, ApsStarted(c)
  PROVE  VisitInv'
<1>1. /\ pc[c] = "boot_aps" /\ pc' = [pc EXCEPT ![c] = "sched"]
      /\ UNCHANGED <<memory, cpu_mode, trapno, next_env, env_cpunum, committed>>
  BY DEF ApsStarted, Goto, OnlyPc, SameControl
<1>2. c = BSP /\ cpu_mode[c] = "boot"
  BY <1>1 DEF LockInv, CpuInv, VisitInv, BootOrder
<1> QED BY <1>1, <1>2, BootArrives

(***************************************************************************)
(* The handlers.                                                           *)
(***************************************************************************)

(* What a CPU finds when it begins to handle its trap. *)
LEMMA Trapping ==
  ASSUME LockInv, VisitInv, NEW c \in CPUs, pc[c] = "handler"
  PROVE  /\ UserOf(c) => Cur(c) \in Slots /\ Cur(c) # NULL
         /\ committed.cpu_mode[c] \in {"user", "halted"}
         /\ trapno[c] # "timer" => UserOf(c)
         /\ trapno[c] = "timer" => ~committed.eoi_pending[c]
         /\ eoi_pending[c] = (committed.eoi_pending[c] \/ trapno[c] = "timer")
         /\ trapno[c] \in Calls \cup {"timer", "none"}
<1>0. /\ AsCommitted /\ CommittedFacts
      /\ \A d \in CPUs : committed.cpu_mode[d] # "monitor"
      /\ cpu_mode = committed.cpu_mode
  BY Arrived
<1>1. UserOf(c) => Cur(c) \in Slots /\ Cur(c) # NULL
  BY <1>0, NullIsNoSlot DEF CommittedFacts, CommittedTypes
<1>2. committed.cpu_mode[c] \in {"user", "halted"}
  BY <1>0 DEF LockInv, CpuInv, CommittedFacts, CommittedTypes, Modes
<1>3. trapno[c] # "timer" => UserOf(c)
  <2>1. trapno[c] # "timer" => curenv[c] \in Slots
    BY <1>0, <1>2 DEF LockInv, CpuInv
  <2> QED BY <1>0, <1>2, <2>1, NullIsNoSlot DEF AsCommitted, CommittedFacts, Cur, UserOf
<1>4. InTrap(c) /\ pc[c] \notin Visiting
  BY <1>0, <1>2 DEF InTrap, Visiting
<1>5. /\ trapno[c] = "timer" => ~committed.eoi_pending[c]
      /\ eoi_pending[c] = (committed.eoi_pending[c] \/ trapno[c] = "timer")
  BY <1>4 DEF VisitInv, EoiInv
<1>6. trapno[c] \in Calls \cup {"timer", "none"}
  BY DEF LockInv, LockTypes
<1> QED BY <1>1, <1>2, <1>3, <1>5, <1>6

(* A handler, with what it writes, begins the visit. *)
LEMMA HandlerStep ==
  ASSUME ProgramsOnly, LockInv, VisitInv, NEW c \in CPUs, pc[c] = "handler",
         NEW q \in {"sched", "return"}, pc' = [pc EXCEPT ![c] = q],
         SameControl,
         \A d \in CPUs : d # c => eoi_pending'[d] = eoi_pending[d],
         Table', OnlyItsOwn(c)',
         \A n : Finish(c, n)' => Visit(committed, c, n)
  PROVE  VisitInv'
<1>1. pc'[c] = q /\ \A d \in CPUs : d # c => pc'[d] = pc[d]
  BY DEF LockInv, LockTypes
<1>2. UNCHANGED <<cpu_mode, trapno, env_cpunum, committed>>
  BY DEF SameControl
<1>3. pc[c] \in Critical \ {"monitor"} /\ pc'[c] \in Visiting
  BY <1>1 DEF Critical, Visiting
<1> QED BY <1>1, <1>2, <1>3, VisitorStep

(* What Finish says of a visit that goes on to sched_yield(), ... *)
LEMMA YieldsFrom ==
  ASSUME NEW c \in CPUs, pc'[c] = "sched", UNCHANGED committed, NEW n, Finish(c, n)'
  PROVE  /\ n.env_free_list = env_free_list' /\ n.pp_ref = pp_ref' /\ n.ticks = ticks'
         /\ n.eoi_pending = [committed.eoi_pending EXCEPT ![c] = eoi_pending'[c]]
         /\ Yielded(committed, c, n, envs', curenv'[c], cr3'[c])
BY DEF Finish

(* ... and of one that goes back to curenv. *)
LEMMA ReturnsFrom ==
  ASSUME NEW c \in CPUs, pc'[c] = "return", UNCHANGED committed, Table',
         Cur(c) \in Slots, curenv'[c] = Cur(c), cr3'[c] = committed.cr3[c],
         NEW n, Finish(c, n)'
  PROVE  /\ n.env_free_list = env_free_list' /\ n.pp_ref = pp_ref' /\ n.ticks = ticks'
         /\ n.eoi_pending = [committed.eoi_pending EXCEPT ![c] = eoi_pending'[c]]
         /\ Returned(committed, c, n, envs')
<1>1. /\ n.env_free_list = env_free_list' /\ n.pp_ref = pp_ref' /\ n.ticks = ticks'
      /\ n.eoi_pending = [committed.eoi_pending EXCEPT ![c] = eoi_pending'[c]]
      /\ \/ /\ envs'[Cur(c)].status = "RUNNING"
            /\ Left(committed, c, n, EnvRun(envs', Cur(c), Cur(c)), Cur(c),
                    envs'[Cur(c)].pgdir, "user")
         \/ /\ envs'[Cur(c)].status # "RUNNING"
            /\ Yielded(committed, c, n, envs', Cur(c), committed.cr3[c])
  BY DEF Finish
<1>2. envs'[Cur(c)].status = "RUNNING" => EnvRun(envs', Cur(c), Cur(c)) = envs'
  BY RunAgain DEF Table
<1> QED BY <1>1, <1>2 DEF Returned, Cur

(* env_free() of e, which the visit has done when it ends. *)
LEMMA FreeEnds ==
  ASSUME AsCommitted, NEW e, EnvFree(e), NEW n,
         n.env_free_list = env_free_list', n.pp_ref = pp_ref'
  PROVE  FreeDone(committed, n, e)
BY DEF AsCommitted, EnvFree, FreeListAfterFree, RefsAfterFree, FreeDone

LEMMA FreedTypes ==
  ASSUME Table, NEW e \in Slots
  PROVE  /\ AfterFree(envs, e) \in [Slots -> Env]
         /\ \A s \in Slots : AfterFree(envs, e)[s].type = "USER"
<1>1. AfterFree(envs, e) \in [Slots -> Env]
  BY AfterFreeType DEF Table
<1>2. ASSUME NEW s \in Slots PROVE AfterFree(envs, e)[s].type = "USER"
  <2>1. envs[s] \in Env /\ envs[s].type = "USER"
    BY DEF Table
  <2> QED BY <2>1 DEF AfterFree, Env
<1> QED BY <1>1, <1>2

LEMMA TimerBegins ==
  ASSUME ProgramsOnly, LockInv, VisitInv, NEW c \in CPUs, HandleTimer(c)
  PROVE  VisitInv'
<1>1. /\ pc[c] = "handler" /\ pc' = [pc EXCEPT ![c] = "sched"]
      /\ ~Dying(c) /\ trapno[c] = "timer" /\ SameControl
      /\ eoi_pending' = [eoi_pending EXCEPT ![c] = FALSE]
      /\ ticks' = IF ticks = LastTick THEN ticks ELSE TickSum(ticks, 1)
      /\ envs' = Woken(envs, ticks')
      /\ UNCHANGED <<env_free_list, curenv, cr3, pp_ref>>
  BY DEF HandleTimer, Handle, Goto
<1>0. /\ AsCommitted /\ CommittedFacts /\ OnlyItsOwn(c)
      /\ \A d \in CPUs : committed.cpu_mode[d] # "monitor"
      /\ cpu_mode = committed.cpu_mode /\ UNCHANGED committed
  BY <1>1, Arrived DEF SameControl
<1>2. committed.cpu_mode[c] \in {"user", "halted"} /\ ~committed.eoi_pending[c]
  BY <1>1, Trapping
<1>3. Caller(committed, c) \/ committed.cpu_mode[c] = "halted"
  BY <1>0, <1>1, <1>2 DEF Caller, Dying, AsCommitted
<1>4. Table'
  <2>1. envs \in [Slots -> Env] /\ \A s \in Slots : envs[s].type = "USER"
    BY DEF VisitInv, Table
  <2>2. envs' \in [Slots -> Env]
    BY <1>1, <2>1, WokenType
  <2>3. \A s \in Slots : envs'[s].type = "USER"
    BY <1>1, <2>1 DEF Woken, Env
  <2>4. eoi_pending' \in [CPUs -> BOOLEAN] /\ env_cpunum' \in [Slots -> CPUs \cup {NULL}]
    BY <1>1 DEF VisitInv, Table, SameControl
  <2> QED BY <2>2, <2>3, <2>4 DEF Table
<1>5. OnlyItsOwn(c)'
  BY <1>0, <1>1 DEF OnlyItsOwn
<1>6. /\ pc'[c] = "sched" /\ eoi_pending'[c] = committed.eoi_pending[c]
      /\ \A d \in CPUs : d # c => eoi_pending'[d] = eoi_pending[d]
  <2>1. pc'[c] = "sched"
    BY <1>1 DEF LockInv, LockTypes
  <2>2. eoi_pending \in [CPUs -> BOOLEAN] /\ committed.eoi_pending \in [CPUs -> BOOLEAN]
    BY <1>0 DEF VisitInv, Table, CommittedFacts, AsCommitted
  <2> QED BY <1>1, <1>2, <2>1, <2>2
<1>7. ASSUME NEW n, Finish(c, n)' PROVE Visit(committed, c, n)
  <2>1. /\ n.env_free_list = env_free_list' /\ n.pp_ref = pp_ref' /\ n.ticks = ticks'
        /\ n.eoi_pending = [committed.eoi_pending EXCEPT ![c] = committed.eoi_pending[c]]
        /\ Yielded(committed, c, n, envs', curenv'[c], cr3'[c])
    BY <1>0, <1>6, <1>7, YieldsFrom
  <2>2. SameEoi(committed, n)
    BY <1>0, <2>1, EoiEnds
  <2>3. /\ n.ticks = IF committed.ticks = LastTick THEN committed.ticks
                     ELSE TickSum(committed.ticks, 1)
        /\ envs' = Woken(committed.envs, n.ticks)
        /\ SameList(committed, n)
    BY <1>0, <1>1, <2>1 DEF AsCommitted, SameList
  <2>4. /\ curenv'[c] = committed.curenv[c]
        /\ cr3'[c] = IF committed.curenv[c] = NULL THEN KernPgdir ELSE committed.cr3[c]
    <3>1. curenv'[c] = committed.curenv[c] /\ cr3'[c] = committed.cr3[c]
      BY <1>0, <1>1 DEF AsCommitted
    <3>2. committed.curenv[c] = NULL => committed.cr3[c] = KernPgdir
      BY <1>0, <1>2, NullIsNoSlot DEF CommittedFacts, CommittedTypes, Cur, UserOf
    <3> QED BY <3>1, <3>2
  <2>5. TimerVisit(committed, c, n)
    BY <1>2, <1>3, <2>1, <2>2, <2>3, <2>4 DEF TimerVisit
  <2> QED BY <1>0, <2>5 DEF Visit
<1> QED BY <1>1, <1>4, <1>5, <1>6, <1>7, HandlerStep

(* env_free(curenv), of a zombie or by exit(), and sched_yield(). *)
LEMMA FreesItself ==
  ASSUME ProgramsOnly, LockInv, VisitInv, NEW c \in CPUs,
         pc[c] = "handler", pc' = [pc EXCEPT ![c] = "sched"], SameControl,
         UserOf(c), FreeCurenv(c), UNCHANGED <<ticks, eoi_pending>>,
         \A n : /\ FreeDone(committed, n, Cur(c))
                /\ Yielded(committed, c, n, AfterFree(committed.envs, Cur(c)), NULL,
                           KernPgdir)
                /\ SameClock(committed, n)
                /\ n.eoi_pending = [committed.eoi_pending EXCEPT ![c] = eoi_pending[c]]
                => Visit(committed, c, n)
  PROVE  VisitInv'
<1>0. AsCommitted /\ CommittedFacts /\ OnlyItsOwn(c) /\ UNCHANGED committed
  BY Arrived DEF SameControl
<1>1. /\ curenv[c] = Cur(c) /\ Cur(c) \in Slots
      /\ EnvFree(Cur(c)) /\ envs' = AfterFree(envs, Cur(c))
      /\ curenv' = [curenv EXCEPT ![c] = NULL]
      /\ cr3' = [cr3 EXCEPT ![c] = KernPgdir]
  BY <1>0, Trapping DEF AsCommitted, Cur, FreeCurenv
<1>2. OnlyItsOwn(c)' /\ curenv'[c] = NULL /\ cr3'[c] = KernPgdir
  BY <1>0, <1>1, OwnWritten
<1>3. Table'
  <2>1. envs' \in [Slots -> Env] /\ \A s \in Slots : envs'[s].type = "USER"
    BY <1>1, FreedTypes DEF VisitInv
  <2> QED BY <2>1 DEF VisitInv, Table, SameControl
<1>4. pc'[c] = "sched"
  BY DEF LockInv, LockTypes
<1>5. ASSUME NEW n, Finish(c, n)' PROVE Visit(committed, c, n)
  <2>1. /\ n.env_free_list = env_free_list' /\ n.pp_ref = pp_ref' /\ n.ticks = ticks'
        /\ n.eoi_pending = [committed.eoi_pending EXCEPT ![c] = eoi_pending[c]]
        /\ Yielded(committed, c, n, envs', NULL, KernPgdir)
    BY <1>0, <1>2, <1>4, <1>5, YieldsFrom
  <2>2. FreeDone(committed, n, Cur(c))
    BY <1>0, <1>1, <2>1, FreeEnds
  <2>3. /\ Yielded(committed, c, n, AfterFree(committed.envs, Cur(c)), NULL, KernPgdir)
        /\ SameClock(committed, n)
    BY <1>0, <1>1, <2>1 DEF AsCommitted, SameClock
  <2> QED BY <2>1, <2>2, <2>3
<1> QED BY <1>2, <1>3, <1>5, HandlerStep

LEMMA ZombieBegins ==
  ASSUME ProgramsOnly, LockInv, VisitInv, NEW c \in CPUs, HandleZombie(c)
  PROVE  VisitInv'
<1>1. /\ pc[c] = "handler" /\ pc' = [pc EXCEPT ![c] = "sched"]
      /\ Dying(c) /\ FreeCurenv(c) /\ SameControl
      /\ UNCHANGED <<ticks, eoi_pending>>
  BY DEF HandleZombie, Goto
<1>0. /\ AsCommitted /\ CommittedFacts
      /\ \A d \in CPUs : committed.cpu_mode[d] # "monitor"
      /\ cpu_mode = committed.cpu_mode
  BY <1>1, Arrived
<1>2. UserOf(c) /\ committed.envs[Cur(c)].status = "DYING"
  BY <1>0, <1>1 DEF AsCommitted, Dying, Cur, UserOf
<1>3. /\ trapno[c] = "timer" => ~committed.eoi_pending[c]
      /\ eoi_pending[c] = (committed.eoi_pending[c] \/ trapno[c] = "timer")
  BY <1>1, Trapping
<1>4. ASSUME NEW n,
             FreeDone(committed, n, Cur(c)),
             Yielded(committed, c, n, AfterFree(committed.envs, Cur(c)), NULL, KernPgdir),
             SameClock(committed, n),
             n.eoi_pending = [committed.eoi_pending EXCEPT ![c] = eoi_pending[c]]
      PROVE  Visit(committed, c, n)
  <2>1. n.eoi_pending = [committed.eoi_pending EXCEPT ![c] = @ \/ (trapno[c] = "timer")]
    BY <1>3, <1>4
  <2>2. ReapVisit(committed, c, trapno[c] = "timer", n)
    BY <1>2, <1>3, <1>4, <2>1 DEF ReapVisit, Cur, UserOf
  <2> QED BY <1>0, <2>2 DEF Visit
<1> QED BY <1>1, <1>2, <1>4, FreesItself

LEMMA ExitBegins ==
  ASSUME ProgramsOnly, LockInv, VisitInv, NEW c \in CPUs, HandleExit(c)
  PROVE  VisitInv'
<1>1. /\ pc[c] = "handler" /\ pc' = [pc EXCEPT ![c] = "sched"]
      /\ ~Dying(c) /\ trapno[c] = "exit" /\ FreeCurenv(c) /\ SameControl
      /\ UNCHANGED <<ticks, eoi_pending>>
  BY DEF HandleExit, Handle, Goto
<1>0. /\ AsCommitted /\ CommittedFacts
      /\ \A d \in CPUs : committed.cpu_mode[d] # "monitor"
      /\ cpu_mode = committed.cpu_mode
  BY <1>1, Arrived
<1>2. /\ UserOf(c) /\ "exit" \in Calls
      /\ eoi_pending[c] = (committed.eoi_pending[c] \/ trapno[c] = "timer")
  BY <1>1, Trapping
<1>3. Caller(committed, c)
  BY <1>0, <1>1, <1>2 DEF AsCommitted, Dying, UserOf, Caller
<1>4. ASSUME NEW n,
             FreeDone(committed, n, Cur(c)),
             Yielded(committed, c, n, AfterFree(committed.envs, Cur(c)), NULL, KernPgdir),
             SameClock(committed, n),
             n.eoi_pending = [committed.eoi_pending EXCEPT ![c] = eoi_pending[c]]
      PROVE  Visit(committed, c, n)
  <2>1. eoi_pending[c] = committed.eoi_pending[c]
    BY <1>0, <1>1, <1>2 DEF CommittedFacts
  <2>2. SameEoi(committed, n)
    BY <1>0, <1>4, <2>1, EoiEnds
  <2>3. ExitVisit(committed, c, n)
    BY <1>2, <1>3, <1>4, <2>2 DEF ExitVisit, Cur
  <2> QED BY <1>0, <2>3 DEF Visit
<1> QED BY <1>1, <1>2, <1>4, FreesItself

(* A system call that writes the table and returns. *)
LEMMA CallBegins ==
  ASSUME ProgramsOnly, LockInv, VisitInv, NEW c \in CPUs, NEW no \in CallKinds,
         Handle(c, no, "return"),
         envs' \in [Slots -> Env], \A s \in Slots : envs'[s].type = "USER",
         UNCHANGED <<curenv, cr3, ticks, eoi_pending>>,
         Caller(committed, c) /\ no \in Calls =>
           \A n : /\ n.env_free_list = env_free_list' /\ n.pp_ref = pp_ref'
                  /\ SameClock(committed, n) /\ SameEoi(committed, n)
                  /\ Returned(committed, c, n, envs')
                  => Visit(committed, c, n)
  PROVE  VisitInv'
<1>1. /\ pc[c] = "handler" /\ pc' = [pc EXCEPT ![c] = "return"]
      /\ ~Dying(c) /\ trapno[c] = no /\ SameControl /\ UNCHANGED committed
  BY DEF Handle, Goto, SameControl
<1>0. /\ AsCommitted /\ CommittedFacts /\ OnlyItsOwn(c)
      /\ cpu_mode = committed.cpu_mode
  BY <1>1, Arrived
<1>2. /\ UserOf(c) /\ Cur(c) \in Slots /\ no \in Calls
      /\ eoi_pending[c] = committed.eoi_pending[c]
  <2>1. no # "timer" /\ no # "none"
    BY DEF CallKinds
  <2> QED BY <1>0, <1>1, <2>1, Trapping DEF CommittedFacts
<1>3. Caller(committed, c)
  BY <1>0, <1>1, <1>2 DEF AsCommitted, Dying, UserOf, Caller
<1>4. Table'
  BY <1>1 DEF VisitInv, Table, SameControl
<1>5. OnlyItsOwn(c)'
  BY <1>0, <1>1 DEF OnlyItsOwn
<1>6. pc'[c] = "return" /\ curenv'[c] = Cur(c) /\ cr3'[c] = committed.cr3[c]
  BY <1>0, <1>1 DEF LockInv, LockTypes, AsCommitted, Cur
<1>7. ASSUME NEW n, Finish(c, n)' PROVE Visit(committed, c, n)
  <2>1. /\ n.env_free_list = env_free_list' /\ n.pp_ref = pp_ref' /\ n.ticks = ticks'
        /\ n.eoi_pending = [committed.eoi_pending EXCEPT ![c] = eoi_pending'[c]]
        /\ Returned(committed, c, n, envs')
    BY <1>1, <1>2, <1>4, <1>6, <1>7, ReturnsFrom
  <2>2. SameEoi(committed, n)
    BY <1>0, <1>2, <2>1, EoiEnds
  <2>3. SameClock(committed, n)
    BY <1>0, <2>1 DEF AsCommitted, SameClock
  <2> QED BY <1>2, <1>3, <2>1, <2>2, <2>3
<1> QED BY <1>1, <1>4, <1>5, <1>7, HandlerStep

LEMMA ExoforkBegins ==
  ASSUME ProgramsOnly, LockInv, VisitInv, NEW c \in CPUs, NEW p \in Pages,
         HandleExofork(c, p)
  PROVE  VisitInv'
<1> DEFINE new == Head(env_free_list)
           cur == curenv[c]
           r   == [NewEnv(envs[new], EnvId(envs, cur), p) EXCEPT
                     !.status = "NOT_RUNNABLE", !.priority = envs[cur].priority]
<1>1. /\ Handle(c, "fork", "return") /\ CanAlloc(p)
      /\ envs' = [envs EXCEPT ![new] = r]
      /\ env_free_list' = Tail(env_free_list)
      /\ pp_ref' = [pp_ref EXCEPT ![p] = @ + 1]
      /\ UNCHANGED <<curenv, cr3, ticks, eoi_pending>>
  BY DEF HandleExofork
<1>2. pc[c] = "handler" /\ trapno[c] = "fork"
  BY <1>1 DEF Handle, Goto
<1>0. /\ AsCommitted /\ CommittedFacts
      /\ \A d \in CPUs : committed.cpu_mode[d] # "monitor"
  BY <1>2, Arrived
<1>t. envs \in [Slots -> Env] /\ \A s \in Slots : envs[s].type = "USER"
  BY DEF VisitInv, Table
<1>3. new \in Slots /\ cur \in Slots
  <2>1. env_free_list \in Seq(Slots) /\ env_free_list # <<>>
    BY <1>0, <1>1 DEF AsCommitted, CommittedFacts, CanAlloc
  <2>2. curenv[c] \in Slots
    BY <1>0, <1>2, Trapping DEF AsCommitted, Cur
  <2> QED BY <2>1, <2>2
<1>4. r \in Env /\ r.type = "USER"
  <2> HIDE DEF new, cur
  <2>1. EnvId(envs, cur) \in (Slots \cup {NULL}) \X Nat
    BY <1>t, <1>3 DEF EnvId, Env
  <2>2. NewEnv(envs[new], EnvId(envs, cur), p) \in Env
    BY <1>t, <1>3, <2>1, NewEnvType
  <2>3. NewEnv(envs[new], EnvId(envs, cur), p).type = "USER"
    BY DEF NewEnv
  <2>4. envs[cur].priority \in Priorities /\ "NOT_RUNNABLE" \in Statuses
    BY <1>t, <1>3 DEF Env, Statuses
  <2> QED BY <2>2, <2>3, <2>4 DEF Env
<1>5. envs' \in [Slots -> Env] /\ \A s \in Slots : envs'[s].type = "USER"
  <2> HIDE DEF new, r
  <2> QED BY <1>1, <1>t, <1>3, <1>4
<1>6. ASSUME Caller(committed, c), "fork" \in Calls, NEW n,
             n.env_free_list = env_free_list', n.pp_ref = pp_ref',
             SameClock(committed, n), SameEoi(committed, n),
             Returned(committed, c, n, envs')
      PROVE  Visit(committed, c, n)
  <2>1. ForkVisit(committed, c, p, n)
    BY <1>0, <1>1, <1>6 DEF AsCommitted, CanAlloc, ForkVisit
  <2> QED BY <1>0, <2>1 DEF Visit
<1>7. "fork" \in CallKinds
  BY DEF CallKinds
<1> QED BY <1>1, <1>5, <1>6, <1>7, CallBegins

LEMMA SetStatusBegins ==
  ASSUME ProgramsOnly, LockInv, VisitInv, NEW c \in CPUs, NEW s \in Slots,
         HandleSetStatus(c, s)
  PROVE  VisitInv'
<1>1. /\ Handle(c, "fork", "return")
      /\ s # curenv[c] /\ MayControl(envs, curenv[c], s) /\ Embryo(envs[s])
      /\ envs' = [envs EXCEPT ![s].status = "RUNNABLE"]
      /\ UNCHANGED <<env_free_list, curenv, cr3, pp_ref, ticks, eoi_pending>>
  BY DEF HandleSetStatus
<1>0. /\ AsCommitted
      /\ \A d \in CPUs : committed.cpu_mode[d] # "monitor"
  BY <1>1, Arrived DEF Handle, Goto
<1>2. envs' \in [Slots -> Env] /\ \A x \in Slots : envs'[x].type = "USER"
  BY <1>1 DEF VisitInv, Table, Env, Statuses
<1>3. ASSUME Caller(committed, c), "fork" \in Calls, NEW n,
             n.env_free_list = env_free_list', n.pp_ref = pp_ref',
             SameClock(committed, n), SameEoi(committed, n),
             Returned(committed, c, n, envs')
      PROVE  Visit(committed, c, n)
  <2>1. StartVisit(committed, c, s, n)
    BY <1>0, <1>1, <1>3 DEF AsCommitted, SameList, StartVisit
  <2> QED BY <1>0, <2>1 DEF Visit
<1>4. "fork" \in CallKinds
  BY DEF CallKinds
<1> QED BY <1>1, <1>2, <1>3, <1>4, CallBegins

LEMMA DestroyBegins ==
  ASSUME ProgramsOnly, LockInv, VisitInv, NEW c \in CPUs, NEW s \in Slots,
         HandleDestroy(c, s)
  PROVE  VisitInv'
<1>1. /\ Handle(c, "destroy", "return")
      /\ s # curenv[c] /\ MayControl(envs, curenv[c], s)
      /\ envs[s].status # "DYING"
      /\ UNCHANGED <<curenv, cr3, ticks, eoi_pending>>
  BY DEF HandleDestroy
<1>0. /\ AsCommitted
      /\ \A d \in CPUs : committed.cpu_mode[d] # "monitor"
  BY <1>1, Arrived DEF Handle, Goto
<1>t. Table /\ envs[s].type # "THREAD"
  BY DEF VisitInv, Table
<1>k. "destroy" \in CallKinds
  BY DEF CallKinds
<1>2. CASE /\ envs[s].status = "RUNNING"
           /\ envs' = [envs EXCEPT ![s].status = "DYING"]
           /\ UNCHANGED <<env_free_list, pp_ref>>
  <2>1. envs' \in [Slots -> Env] /\ \A x \in Slots : envs'[x].type = "USER"
    BY <1>2, <1>t DEF Table, Env, Statuses
  <2>2. ASSUME Caller(committed, c), "destroy" \in Calls, NEW n,
               n.env_free_list = env_free_list', n.pp_ref = pp_ref',
               SameClock(committed, n), SameEoi(committed, n),
               Returned(committed, c, n, envs')
        PROVE  Visit(committed, c, n)
    <3>1. DestroyVisit(committed, c, s, n)
      BY <1>0, <1>1, <1>2, <1>t, <2>2 DEF AsCommitted, SameList, DestroyVisit
    <3> QED BY <1>0, <3>1 DEF Visit
  <2> QED BY <1>1, <1>k, <2>1, <2>2, CallBegins
<1>3. CASE /\ envs[s].status # "RUNNING"
           /\ EnvFree(s) /\ envs' = AfterFree(envs, s)
  <2>1. envs' \in [Slots -> Env] /\ \A x \in Slots : envs'[x].type = "USER"
    BY <1>3, <1>t, FreedTypes
  <2>2. ASSUME Caller(committed, c), "destroy" \in Calls, NEW n,
               n.env_free_list = env_free_list', n.pp_ref = pp_ref',
               SameClock(committed, n), SameEoi(committed, n),
               Returned(committed, c, n, envs')
        PROVE  Visit(committed, c, n)
    <3>1. FreeDone(committed, n, s)
      BY <1>0, <1>3, <2>2, FreeEnds
    <3>2. DestroyVisit(committed, c, s, n)
      BY <1>0, <1>1, <1>3, <1>t, <2>2, <3>1 DEF AsCommitted, DestroyVisit
    <3> QED BY <1>0, <3>2 DEF Visit
  <2> QED BY <1>1, <1>k, <2>1, <2>2, CallBegins
<1> QED BY <1>2, <1>3 DEF HandleDestroy

LEMMA NothingBegins ==
  ASSUME ProgramsOnly, LockInv, VisitInv, NEW c \in CPUs, HandleNothing(c)
  PROVE  VisitInv'
<1>1. PICK no \in Calls : Handle(c, no, "return")
  BY DEF HandleNothing
<1>2. UNCHANGED <<envs, env_free_list, curenv, cr3, pp_ref, ticks, eoi_pending>>
  BY DEF HandleNothing, memory
<1>0. /\ AsCommitted /\ CommittedFacts
      /\ \A d \in CPUs : committed.cpu_mode[d] # "monitor"
  BY <1>1, Arrived DEF Handle, Goto
<1>3. envs' \in [Slots -> Env] /\ \A s \in Slots : envs'[s].type = "USER"
  BY <1>2 DEF VisitInv, Table
<1>4. ASSUME Caller(committed, c), NEW n,
             n.env_free_list = env_free_list', n.pp_ref = pp_ref',
             SameClock(committed, n), SameEoi(committed, n),
             Returned(committed, c, n, envs')
      PROVE  Visit(committed, c, n)
  <2>1. /\ committed.envs[Cur(c)].status = "RUNNING" /\ UserOf(c)
        /\ committed.cr3[c] = committed.envs[Cur(c)].pgdir
    BY <1>0, <1>4 DEF CommittedFacts, Caller, Cur, UserOf
  <2>2. Left(committed, c, n, committed.envs, committed.curenv[c], committed.cr3[c], "user")
    BY <1>0, <1>2, <1>4, <2>1 DEF AsCommitted, Returned, Cur
  <2>3. NullVisit(committed, n)
    BY <1>0, <1>2, <1>4, <2>1, <2>2
       DEF AsCommitted, CommittedFacts, CommittedTypes, Left, NullVisit, SameList, UserOf
  <2> QED BY <1>0, <2>3 DEF Visit
<1>5. no \in CallKinds
  BY KernelAssumption
<1> QED BY <1>1, <1>2, <1>3, <1>4, <1>5, CallBegins

-----------------------------------------------------------------------------
(***************************************************************************)
(* The whole.                                                              *)
(***************************************************************************)
LEMMA VisitInit ==
  ASSUME ProgramsOnly, LockInit
  PROVE  VisitInv /\ Atomic!Init
<1>1. /\ Init /\ committed = Snapshot
      /\ pc = [c \in CPUs |-> IF c = BSP THEN "i386_init" ELSE "off"]
      /\ env_cpunum = [s \in Slots |-> NULL]
  BY DEF LockInit
<1>2. /\ committed.envs = envs /\ committed.env_free_list = env_free_list
      /\ committed.curenv = curenv /\ committed.cpu_mode = cpu_mode
      /\ committed.cr3 = cr3 /\ committed.pp_ref = pp_ref
      /\ committed.ticks = ticks /\ committed.eoi_pending = eoi_pending
  BY <1>1 DEF Snapshot
<1>3. Committed!Init
  <2>1. Committed!ZeroedEnv = ZeroedEnv /\ Committed!BootPgdir = BootPgdir
    BY CommittedTables DEF Committed!ZeroedEnv, ZeroedEnv, Committed!BootPgdir, BootPgdir
  <2> QED BY <1>1, <1>2, <2>1, CommittedTables DEF Init, Committed!Init
<1>4. Atomic!Init
  <2>1. Atomic!ZeroedEnv = ZeroedEnv /\ Atomic!BootPgdir = BootPgdir
    BY AtomicTables DEF Atomic!ZeroedEnv, ZeroedEnv, Atomic!BootPgdir, BootPgdir
  <2> QED BY <1>1, <1>2, <2>1, AtomicTables DEF Init, Atomic!Init
<1>5. CommittedInv
  BY <1>3, CommittedInductive
<1>6. \A c \in CPUs : pc[c] \in {"i386_init", "off"} /\ cpu_mode[c] = "boot"
  BY <1>1 DEF Init
<1>7. Table
  <2>1. envs \in [Slots -> Env] /\ eoi_pending \in [CPUs -> BOOLEAN]
    BY <1>1, InitType DEF TypeInv, TypeOK
  <2>2. \A s \in Slots : envs[s].type = "USER"
    BY <1>1 DEF Init, NewEnv, ZeroedEnv
  <2> QED BY <1>1, <2>1, <2>2 DEF Table
<1>8. ModeInv
  BY <1>2, <1>6 DEF ModeInv
<1>9. BootOrder
  BY <1>1, <1>6 DEF BootOrder
<1>10. AtRest
  BY <1>2 DEF AtRest, AsCommitted
<1>11. CpunumRight
  BY <1>6 DEF CpunumRight
<1>12. ASSUME NEW c \in CPUs PROVE Underway(c) /\ EoiInv(c)
  BY <1>2, <1>6, <1>7 DEF Underway, EoiInv, InTrap, Visiting, Locking, Table
<1> QED BY <1>4, <1>5, <1>7, <1>8, <1>9, <1>10, <1>11, <1>12 DEF VisitInv

LEMMA VisitStep ==
  ASSUME ProgramsOnly, LockInv, VisitInv, [LockNext]_allvars
  PROVE  VisitInv' /\ [Atomic!Next]_(Atomic!vars)
<1>s. ASSUME UNCHANGED committed PROVE [Atomic!Next]_(Atomic!vars)
  BY <1>s DEF Atomic!vars
<1>1. CASE UNCHANGED allvars
  <2>1. /\ UNCHANGED <<envs, env_free_list, curenv, cr3, pp_ref, ticks, eoi_pending>>
        /\ UNCHANGED <<pc, cpu_mode, trapno, next_env, env_cpunum, committed>>
    BY <1>1 DEF allvars, memory, control
  <2>2. Table' /\ BootOrder' /\ CpunumRight'
    BY <2>1 DEF VisitInv, Table, BootOrder, CpunumRight
  <2> QED BY <1>s, <2>1, <2>2, QuietStep
<1>2. ASSUME NEW c \in CPUs, NEW no \in Calls \cup {"timer"}, Trap(c, no)
      PROVE  VisitInv' /\ UNCHANGED committed
  BY <1>2, TrapVisit DEF Trap
<1>3. ASSUME NEW c \in CPUs, KernelStep(c)
      PROVE  VisitInv' /\ [Atomic!Next]_(Atomic!vars)
  <2> USE DEF OnlyPc, SameControl, Handle
  <2>1. CASE ReadLocked(c) \/ ReadLockCpu(c) \/ Xchg(c) \/ I386Init(c) \/ WaitAp(c)
               \/ MpEntry(c) \/ MpMain(c)
    <3>1. UNCHANGED committed
      BY <2>1 DEF ReadLocked, ReadLockCpu, Xchg, I386Init, WaitAp, MpEntry, MpMain
    <3> QED BY <1>s, <2>1, <3>1, BeforeLock
  <2>2. CASE Own(c)
    BY <1>s, <2>2, OwnVisit DEF Own
  <2>3. CASE ApsStarted(c)
    BY <1>s, <2>3, ApsStartedVisit DEF ApsStarted
  <2>4. CASE \E ap \in CPUs : StartAp(c, ap)
    BY <1>s, <2>4, StartApVisit DEF StartAp
  <2>5. CASE HandleZombie(c)
    BY <1>s, <2>5, ZombieBegins DEF HandleZombie
  <2>6. CASE HandleTimer(c)
    BY <1>s, <2>6, TimerBegins DEF HandleTimer
  <2>7. CASE HandleExit(c)
    BY <1>s, <2>7, ExitBegins DEF HandleExit
  <2>8. CASE HandleNothing(c)
    BY <1>s, <2>8, NothingBegins DEF HandleNothing
  <2>9. CASE \E p \in Pages : HandleExofork(c, p)
    BY <1>s, <2>9, ExoforkBegins DEF HandleExofork
  <2>10. CASE \E s \in Slots : HandleSetStatus(c, s)
    BY <1>s, <2>10, SetStatusBegins DEF HandleSetStatus
  <2>11. CASE \E s \in Slots : HandleDestroy(c, s)
    BY <1>s, <2>11, DestroyBegins DEF HandleDestroy
  <2>12. CASE Return(c)
    BY <1>s, <2>12, ReturnVisit DEF Return
  <2>13. CASE Sched(c)
    BY <1>s, <2>13, SchedVisit DEF Sched
  <2>14. CASE Halt(c)
    BY <1>s, <2>14, HaltVisit DEF Halt
  <2>15. CASE Deschedule(c)
    BY <1>s, <2>15, DescheduleVisit DEF Deschedule
  <2>16. CASE Switch(c)
    BY <1>s, <2>16, SwitchVisit DEF Switch
  <2>17. CASE Unlock(c)
    BY <1>s, <2>17, UnlockVisit DEF Unlock
  <2>18. CASE WriteCpunum(c)
    BY <1>s, <2>18, WriteCpunumVisit DEF WriteCpunum
  <2>19. CASE Release(c)
    BY <2>19, ReleaseVisit
  <2>20. CASE EnterMonitor(c)
    BY <2>20, EnterMonitorVisit
  <2> QED BY <1>3, <2>1, <2>2, <2>3, <2>4, <2>5, <2>6, <2>7, <2>8, <2>9, <2>10,
             <2>11, <2>12, <2>13, <2>14, <2>15, <2>16, <2>17, <2>18, <2>19, <2>20
          DEF KernelStep
<1> QED BY <1>s, <1>1, <1>2, <1>3 DEF LockNext

LEMMA VisitInvariant == ProgramsOnly => (LockSpec => [](LockInv /\ VisitInv))
<1> SUFFICES ASSUME ProgramsOnly PROVE LockSpec => [](LockInv /\ VisitInv)
  OBVIOUS
<1>1. LockInit => LockInv /\ VisitInv
  BY LockInvInit, VisitInit
<1>2. LockInv /\ VisitInv /\ [LockNext]_allvars => (LockInv /\ VisitInv)'
  BY LockInvStep, VisitStep
<1> QED BY <1>1, <1>2, PTL DEF LockSpec

(* Visits to the kernel are atomic: whatever the CPUs do between two       *)
(* instructions of a handler, of sched_yield() or of env_run(), and        *)
(* although env_run() goes on after it has released the lock, the kernel   *)
(* goes through the states of Kernel, where a visit is one step.           *)
THEOREM VisitsAreAtomic == ProgramsOnly => (LockSpec => ImplementsKernel)
<1> SUFFICES ASSUME ProgramsOnly PROVE LockSpec => ImplementsKernel
  OBVIOUS
<1>1. LockInit => Atomic!Init
  BY VisitInit
<1>2. LockInv /\ VisitInv /\ [LockNext]_allvars => [Atomic!Next]_(Atomic!vars)
  BY VisitStep
<1>3. LockSpec => [](LockInv /\ VisitInv)
  BY VisitInvariant
<1> QED BY <1>1, <1>2, <1>3, PTL DEF LockSpec, ImplementsKernel, Atomic!Spec

(* env_cpunum, which env_run() writes after it has released the lock, is   *)
(* the right one by the time the environment runs: no other CPU can have   *)
(* picked the environment in between.                                      *)
THEOREM CpunumIsRight == ProgramsOnly => (LockSpec => []CpunumRight)
<1> SUFFICES ASSUME ProgramsOnly PROVE LockSpec => []CpunumRight
  OBVIOUS
<1>1. LockInv /\ VisitInv => CpunumRight
  BY DEF VisitInv
<1>2. LockSpec => [](LockInv /\ VisitInv)
  BY VisitInvariant
<1> QED BY <1>1, <1>2, PTL

(* A CPU that enters the monitor, and keeps the lock for good, leaves no   *)
(* other CPU with an environment to run.                                   *)
THEOREM MonitorIsAlone == ProgramsOnly => (LockSpec => []MonitorAlone)
<1> SUFFICES ASSUME ProgramsOnly PROVE LockSpec => []MonitorAlone
  OBVIOUS
<1>1. ASSUME LockInv, VisitInv PROVE MonitorAlone
  <2> SUFFICES ASSUME NEW c \in CPUs, NEW d \in CPUs, pc[c] = "monitor", d # c
               PROVE  curenv[d] = NULL
    BY DEF MonitorAlone
  <2>1. pc[d] \notin Visiting /\ pc[d] # "monitor"
    BY <1>1, OneVisitor DEF Critical
  <2>2. curenv[d] = Cur(d)
    BY <1>1, <2>1, CurenvSettled
  <2>3. CommittedFacts /\ ~Pending(committed.envs)
    BY <1>1, CommittedKnown DEF VisitInv, ModeInv
  <2>4. committed.cpu_mode[d] \in {"boot", "user", "halted"}
    BY <1>1, <2>1, <2>3 DEF VisitInv, ModeInv, CommittedFacts, CommittedTypes, Modes
  <2>5. ~UserOf(d)
    BY <2>3 DEF CommittedFacts, CommittedTypes, Pending
  <2> QED BY <2>2, <2>3, <2>4, <2>5 DEF CommittedFacts, UserOf
<1>2. LockSpec => [](LockInv /\ VisitInv)
  BY VisitInvariant
<1> QED BY <1>1, <1>2, PTL
=============================================================================
