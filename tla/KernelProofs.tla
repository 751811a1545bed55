---------------------------- MODULE KernelProofs ----------------------------
(***************************************************************************)
(* Proofs about Kernel, for any number of CPUs, slots, pages, generations  *)
(* and ticks and for both scheduling policies.                             *)
(***************************************************************************)
EXTENDS Kernel, FiniteSetTheorems, TLAPS

(***************************************************************************)
(* Type correctness.  It needs to know, besides the types, that a CPU in   *)
(* user mode has a curenv.                                                 *)
(***************************************************************************)
HasCurenv == \A c \in CPUs : cpu_mode[c] = "user" => curenv[c] \in Slots

TypeInv == TypeOK /\ HasCurenv

LEMMA WaitCapType == WaitCap \in Nat
  BY PolicyAssumption, SMT DEF WaitCap

(* What the scheduler does to a table of environments stays a table.       *)
LEMMA RunType ==
  ASSUME NEW es \in [Slots -> Env], NEW cur, NEW r \in Slots
  PROVE  EnvRun(Aged(es, r), cur, r) \in [Slots -> Env]
<1> DEFINE aged == Aged(es, r)
<1>1. aged \in [Slots -> Env]
  BY WaitCapType DEF Aged, Env
<1>2. EnvRun(aged, cur, r) \in [Slots -> Env]
  <2> HIDE DEF aged
  <2> QED BY <1>1 DEF EnvRun, Env, Statuses
<1> QED BY <1>2

(* sched_yield() from a well-typed table, whatever curenv is.              *)
LEMMA SchedYieldType ==
  ASSUME TypeInv, NEW c \in CPUs, NEW cur \in Slots \cup {NULL},
         NEW es \in [Slots -> Env], SchedYield(c, cur, es)
  PROVE  /\ envs' \in [Slots -> Env]
         /\ curenv' \in [CPUs -> Slots \cup {NULL}]
         /\ cpu_mode' \in [CPUs -> Modes]
         /\ cr3' \in [CPUs -> Pages \cup {KernPgdir, NULL}]
         /\ HasCurenv'
<1>1. CASE SchedRun(c, cur, es)
  <2>1. PICK r \in Slots :
          /\ envs' = EnvRun(Aged(es, r), cur, r)
          /\ curenv' = [curenv EXCEPT ![c] = r]
          /\ cr3' = [cr3 EXCEPT ![c] = es[r].pgdir]
          /\ cpu_mode' = [cpu_mode EXCEPT ![c] = "user"]
    BY <1>1 DEF SchedRun
  <2>2. es[r].pgdir \in Pages \cup {NULL}
    BY DEF Env
  <2> QED BY <2>1, <2>2, RunType DEF TypeInv, TypeOK, HasCurenv, Modes
<1>2. CASE SchedHlt(c, cur, es)
  BY <1>2 DEF SchedHlt, TypeInv, TypeOK, HasCurenv, Modes
<1>3. CASE SchedMonitor(c, cur, es)
  BY <1>3 DEF SchedMonitor, TypeInv, TypeOK, HasCurenv, Modes
<1> QED BY <1>1, <1>2, <1>3 DEF SchedYield

LEMMA TrapReturnType ==
  ASSUME TypeInv, NEW c \in CPUs, curenv[c] \in Slots,
         NEW es \in [Slots -> Env], TrapReturn(c, es)
  PROVE  /\ envs' \in [Slots -> Env]
         /\ curenv' \in [CPUs -> Slots \cup {NULL}]
         /\ cpu_mode' \in [CPUs -> Modes]
         /\ cr3' \in [CPUs -> Pages \cup {KernPgdir, NULL}]
         /\ HasCurenv'
<1>1. CASE /\ envs' = es
           /\ cr3' = [cr3 EXCEPT ![c] = es[curenv[c]].pgdir]
           /\ UNCHANGED <<curenv, cpu_mode>>
  <2>1. es[curenv[c]].pgdir \in Pages \cup {NULL}
    BY DEF Env
  <2> QED BY <1>1, <2>1 DEF TypeInv, TypeOK, HasCurenv
<1>2. CASE SchedYield(c, curenv[c], es)
  BY <1>2, SchedYieldType
<1> QED BY <1>1, <1>2 DEF TrapReturn

(* The fields the handlers write, one environment at a time.               *)
LEMMA EnvFieldTypes ==
  ASSUME NEW r \in Env
  PROVE  /\ \A st \in Statuses : [r EXCEPT !.status = st] \in Env
         /\ \A st \in Statuses :
              [r EXCEPT !.status = st, !.pgdir = NULL] \in Env
         /\ \A b \in BOOLEAN : [r EXCEPT !.recving = b] \in Env
         /\ \A b \in BOOLEAN, st \in Statuses :
              [r EXCEPT !.recving = b, !.status = st] \in Env
         /\ \A t \in 0 .. TickMod - 1, st \in Statuses :
              [r EXCEPT !.sleep_until = t, !.status = st] \in Env
         /\ \A p \in Priorities : [r EXCEPT !.priority = p] \in Env
BY DEF Env

LEMMA AfterFreeType ==
  ASSUME NEW es \in [Slots -> Env], NEW e \in Slots
  PROVE  AfterFree(es, e) \in [Slots -> Env]
<1>1. "FREE" \in Statuses /\ "DYING" \in Statuses
  BY DEF Statuses
<1> QED BY <1>1, EnvFieldTypes DEF AfterFree

(* env_free() of any environment keeps the types.                          *)
LEMMA EnvFreeType ==
  ASSUME TypeInv, NEW e \in Slots, EnvFree(e)
  PROVE  /\ AfterFree(envs, e) \in [Slots -> Env]
         /\ env_free_list' \in Seq(Slots)
         /\ pp_ref' \in [Pages -> Int]
<1>1. AfterFree(envs, e) \in [Slots -> Env]
  BY AfterFreeType DEF TypeInv, TypeOK
<1>2. env_free_list' \in Seq(Slots)
  <2>1. PICK q \in Descending(Freed(envs, e) \ {e}) :
          env_free_list' = <<e>> \o q \o env_free_list
    BY DEF EnvFree, FreeListAfterFree
  <2>2. Freed(envs, e) \subseteq Slots
    BY DEF Freed, ThreadsOf
  <2>3. q \in Seq(Slots)
    <3>1. PICK n \in 0 .. NENV : q \in [1 .. n -> Freed(envs, e) \ {e}]
      BY <2>1 DEF Descending
    <3> QED BY <3>1, <2>2, PolicyAssumption
  <2> QED BY <2>1, <2>3 DEF TypeInv, TypeOK
<1>3. pp_ref' \in [Pages -> Int]
  <2>1. \A p \in Pages :
          Cardinality({s \in Freed(envs, e) : envs[s].pgdir = p}) \in Nat
    <3> TAKE p \in Pages
    <3>1. IsFiniteSet(Slots)
      BY FS_Interval, PolicyAssumption DEF Slots
    <3>2. {s \in Freed(envs, e) : envs[s].pgdir = p} \subseteq Slots
      BY DEF Freed, ThreadsOf
    <3> QED BY <3>1, <3>2, FS_Subset, FS_CardinalityType
  <2> QED BY <2>1 DEF EnvFree, RefsAfterFree, TypeInv, TypeOK
<1> QED BY <1>1, <1>2, <1>3

LEMMA NewEnvType ==
  ASSUME NEW e \in Env, NEW parent \in (Slots \cup {NULL}) \X Nat,
         NEW p \in Pages \cup {NULL}
  PROVE  NewEnv(e, parent, p) \in Env
<1>1. NextGen(e.gen) \in Nat
  BY KernelAssumption DEF NextGen, Env
<1>2. 0 \in 0 .. TickMod - 1 /\ 0 \in 0 .. WaitCap
  BY KernelAssumption, WaitCapType
<1> QED BY <1>1, <1>2, KernelAssumption DEF NewEnv, Env, Statuses

LEMMA WokenType ==
  ASSUME NEW es \in [Slots -> Env], NEW now
  PROVE  Woken(es, now) \in [Slots -> Env]
<1>1. 0 \in 0 .. TickMod - 1 /\ "RUNNABLE" \in Statuses
  BY KernelAssumption DEF Statuses
<1> QED BY <1>1, EnvFieldTypes DEF Woken

LEMMA TickSumType ==
  ASSUME NEW t \in 0 .. TickMod - 1, NEW n \in 0 .. TickMod - 1
  PROVE  TickSum(t, n) \in 0 .. TickMod - 1
BY KernelAssumption DEF TickSum

LEMMA InitType == Init => TypeInv
<1> SUFFICES ASSUME Init PROVE TypeInv
  OBVIOUS
<1>1. ZeroedEnv \in Env
  <2>1. 0 \in 0 .. TickMod - 1 /\ 0 \in 0 .. WaitCap /\ 0 \in Priorities
    BY KernelAssumption, WaitCapType, PolicyAssumption DEF Priorities
  <2> QED BY <2>1 DEF ZeroedEnv, Env, Statuses, KernelId
<1>2. BootPgdir \in [0 .. NBoot - 1 -> Pages]
  BY KernelAssumption DEF BootPgdir
<1>3. envs \in [Slots -> Env]
  <2>1. KernelId \in (Slots \cup {NULL}) \X Nat
    BY DEF KernelId
  <2>2. \A s \in Slots : s < NBoot => BootPgdir[s] \in Pages \cup {NULL}
    BY <1>2, KernelAssumption, PolicyAssumption DEF Slots
  <2>3. \A s \in Slots :
          s < NBoot => NewEnv(ZeroedEnv, KernelId, BootPgdir[s]) \in Env
    BY <1>1, <2>1, <2>2, NewEnvType
  <2> QED BY <1>1, <2>3 DEF Init
<1>4. env_free_list \in Seq(Slots)
  <2>1. NENV - NBoot \in Nat
    BY KernelAssumption, PolicyAssumption
  <2>2. \A i \in 1 .. NENV - NBoot : NBoot + i - 1 \in Slots
    BY KernelAssumption, PolicyAssumption DEF Slots
  <2> QED BY <2>1, <2>2 DEF Init
<1>5. ticks \in 0 .. TickMod - 1
  BY KernelAssumption DEF Init
<1> QED BY <1>3, <1>4, <1>5 DEF Init, TypeInv, TypeOK, HasCurenv, Modes

LEMMA NextType == TypeInv /\ [Next]_vars => TypeInv'
<1> SUFFICES ASSUME TypeInv, [Next]_vars PROVE TypeInv'
  OBVIOUS
<1> USE DEF Syscall, Trapped
<1>s. \A st \in {"FREE", "DYING", "RUNNABLE", "RUNNING", "NOT_RUNNABLE"} :
        st \in Statuses
  BY DEF Statuses
<1>t. envs \in [Slots -> Env]
  BY DEF TypeInv, TypeOK
<1>u. \A c \in CPUs : cpu_mode[c] = "user" => curenv[c] \in Slots
  BY DEF TypeInv, HasCurenv
<1>n. NULL \in Slots \cup {NULL}
  OBVIOUS
<1>1. ASSUME NEW c \in CPUs, Boot(c) PROVE TypeInv'
  BY <1>1, <1>t, <1>n, SchedYieldType DEF Boot, TypeInv, TypeOK
<1>2. ASSUME NEW c \in CPUs, Timer(c) PROVE TypeInv'
  <2>1. ticks' \in 0 .. TickMod - 1
    <3>1. ticks \in 0 .. TickMod - 1
      BY DEF TypeInv, TypeOK
    <3>2. TickMod = 1 => TickSum(ticks, 1) = 0
      BY <3>1 DEF TickSum
    <3>3. TickMod # 1 => TickSum(ticks, 1) \in 0 .. TickMod - 1
      <4> SUFFICES ASSUME TickMod # 1
                   PROVE  TickSum(ticks, 1) \in 0 .. TickMod - 1
        OBVIOUS
      <4>1. 1 \in 0 .. TickMod - 1
        BY KernelAssumption
      <4> QED BY <3>1, <4>1, TickSumType
    <3> QED BY <1>2, <3>1, <3>2, <3>3 DEF Timer
  <2>2. curenv[c] \in Slots \cup {NULL}
    BY DEF TypeInv, TypeOK
  <2>3. SchedYield(c, curenv[c], Woken(envs, ticks'))
    BY <1>2 DEF Timer
  <2>4. Woken(envs, ticks') \in [Slots -> Env]
    BY <1>t, WokenType
  <2> QED BY <1>2, <2>1, <2>2, <2>3, <2>4, SchedYieldType
          DEF Timer, TypeInv, TypeOK
<1>3. ASSUME NEW c \in CPUs, NEW byTimer \in BOOLEAN, Reap(c, byTimer)
      PROVE  TypeInv'
  <2>1. curenv[c] \in Slots
    BY <1>3, <1>u DEF Reap
  <2>2. /\ AfterFree(envs, curenv[c]) \in [Slots -> Env]
        /\ env_free_list' \in Seq(Slots)
        /\ pp_ref' \in [Pages -> Int]
    BY <1>3, <2>1, EnvFreeType DEF Reap
  <2> QED BY <1>3, <1>n, <2>2, SchedYieldType DEF Reap, TypeInv, TypeOK
<1>4. ASSUME NEW c \in CPUs, SysYield(c) PROVE TypeInv'
  BY <1>4, <1>t, <1>u, SchedYieldType DEF SysYield, TypeInv, TypeOK
<1>5. ASSUME NEW c \in CPUs, NEW n \in SleepArgs, SysSleep(c, n)
      PROVE  TypeInv'
  <2> DEFINE es == [envs EXCEPT ![curenv[c]].sleep_until = TickSum(ticks, n),
                                ![curenv[c]].status = "NOT_RUNNABLE"]
  <2>1. curenv[c] \in Slots
    BY <1>5, <1>u DEF SysSleep
  <2>2. TickSum(ticks, n) \in 0 .. TickMod - 1
    BY KernelAssumption, TickSumType DEF TypeInv, TypeOK
  <2>3. es \in [Slots -> Env]
    BY <1>s, <1>t, <2>1, <2>2, EnvFieldTypes
  <2>4. SchedYield(c, curenv[c], es)
    BY <1>5 DEF SysSleep
  <2> HIDE DEF es
  <2> QED BY <1>5, <2>1, <2>3, <2>4, SchedYieldType
          DEF SysSleep, TypeInv, TypeOK
<1>6. ASSUME NEW c \in CPUs, SysIpcRecv(c) PROVE TypeInv'
  <2> DEFINE es == [envs EXCEPT ![curenv[c]].recving = TRUE,
                                ![curenv[c]].status = "NOT_RUNNABLE"]
  <2>1. curenv[c] \in Slots
    BY <1>6, <1>u DEF SysIpcRecv
  <2>2. es \in [Slots -> Env]
    BY <1>s, <1>t, <2>1, EnvFieldTypes
  <2>3. SchedYield(c, curenv[c], es)
    BY <1>6 DEF SysIpcRecv
  <2> HIDE DEF es
  <2> QED BY <1>6, <2>1, <2>2, <2>3, SchedYieldType
          DEF SysIpcRecv, TypeInv, TypeOK
<1>7. ASSUME NEW c \in CPUs, SysIpcRecvInvalid(c) PROVE TypeInv'
  <2> DEFINE es == [envs EXCEPT ![curenv[c]].recving = TRUE]
  <2>1. curenv[c] \in Slots
    BY <1>7, <1>u DEF SysIpcRecvInvalid
  <2>2. es \in [Slots -> Env]
    BY <1>t, <2>1, EnvFieldTypes
  <2>3. TrapReturn(c, es)
    BY <1>7 DEF SysIpcRecvInvalid
  <2> HIDE DEF es
  <2> QED BY <1>7, <2>1, <2>2, <2>3, TrapReturnType
          DEF SysIpcRecvInvalid, TypeInv, TypeOK
<1>8. ASSUME NEW c \in CPUs, NEW s \in Slots, SysIpcTrySend(c, s)
      PROVE  TypeInv'
  <2>1. curenv[c] \in Slots
    BY <1>8, <1>u DEF SysIpcTrySend
  <2>2. Received(envs, s) \in [Slots -> Env]
    BY <1>s, <1>t, EnvFieldTypes DEF Received
  <2> QED BY <1>8, <2>1, <2>2, TrapReturnType
          DEF SysIpcTrySend, TypeInv, TypeOK
<1>9. ASSUME NEW c \in CPUs, SysExofork(c) PROVE TypeInv'
  <2> DEFINE new == Head(env_free_list)
             es(p) == [envs EXCEPT ![new] =
                         [NewEnv(envs[new], EnvId(envs, curenv[c]), p) EXCEPT
                            !.status = "NOT_RUNNABLE",
                            !.priority = envs[curenv[c]].priority]]
  <2>1. curenv[c] \in Slots
    BY <1>9, <1>u DEF SysExofork
  <2>2. PICK p \in Pages :
          /\ CanAlloc(p)
          /\ TrapReturn(c, es(p))
          /\ env_free_list' = Tail(env_free_list)
          /\ pp_ref' = [pp_ref EXCEPT ![p] = @ + 1]
          /\ UNCHANGED <<ticks, eoi_pending>>
    BY <1>9 DEF SysExofork
  <2>3. new \in Slots /\ Tail(env_free_list) \in Seq(Slots)
    BY <2>2 DEF CanAlloc, TypeInv, TypeOK
  <2>4. es(p) \in [Slots -> Env]
    <3>1. EnvId(envs, curenv[c]) \in (Slots \cup {NULL}) \X Nat
      BY <1>t, <2>1 DEF EnvId, Env
    <3>2. NewEnv(envs[new], EnvId(envs, curenv[c]), p) \in Env
      BY <1>t, <2>3, <3>1, NewEnvType
    <3>3. envs[curenv[c]].priority \in Priorities
      BY <1>t, <2>1 DEF Env
    <3>4. [NewEnv(envs[new], EnvId(envs, curenv[c]), p) EXCEPT
             !.status = "NOT_RUNNABLE",
             !.priority = envs[curenv[c]].priority] \in Env
      BY <1>s, <3>2, <3>3 DEF Env
    <3> QED BY <1>t, <2>3, <3>4
  <2> HIDE DEF es, new
  <2> QED BY <2>1, <2>2, <2>3, <2>4, TrapReturnType DEF TypeInv, TypeOK
<1>10. ASSUME NEW c \in CPUs, SysThreadCreate(c) PROVE TypeInv'
  <2> DEFINE new == Head(env_free_list)
             cur == curenv[c]
             es  == [envs EXCEPT ![new] =
                       [NewEnv(envs[new], ThreadOwner(envs, cur),
                               envs[cur].pgdir) EXCEPT
                          !.type = "THREAD",
                          !.priority = envs[cur].priority]]
  <2>1. cur \in Slots
    BY <1>10, <1>u DEF SysThreadCreate
  <2>2. PICK p \in Pages :
          /\ CanAlloc(p)
          /\ TrapReturn(c, es)
          /\ env_free_list' = Tail(env_free_list)
          /\ pp_ref' = RefsWithThread(envs[cur].pgdir)
          /\ UNCHANGED <<ticks, eoi_pending>>
    BY <1>10 DEF SysThreadCreate
  <2>3. new \in Slots /\ Tail(env_free_list) \in Seq(Slots)
    BY <2>2 DEF CanAlloc, TypeInv, TypeOK
  <2>4. es \in [Slots -> Env]
    <3>1. ThreadOwner(envs, cur) \in (Slots \cup {NULL}) \X Nat
      BY <1>t, <2>1 DEF ThreadOwner, EnvId, Env
    <3>2. envs[cur].pgdir \in Pages \cup {NULL}
      BY <1>t, <2>1 DEF Env
    <3>3. NewEnv(envs[new], ThreadOwner(envs, cur), envs[cur].pgdir) \in Env
      BY <1>t, <2>3, <3>1, <3>2, NewEnvType
    <3>4. envs[cur].priority \in Priorities
      BY <1>t, <2>1 DEF Env
    <3>5. [NewEnv(envs[new], ThreadOwner(envs, cur), envs[cur].pgdir) EXCEPT
             !.type = "THREAD", !.priority = envs[cur].priority] \in Env
      BY <3>3, <3>4 DEF Env
    <3> QED BY <1>t, <2>3, <3>5
  <2>5. pp_ref' \in [Pages -> Int]
    <3>1. pp_ref \in [Pages -> Int]
      BY DEF TypeInv, TypeOK
    <3>2. \A dir \in Pages : pp_ref[dir] + 1 \in Int
      BY <3>1
    <3>3. \A dir : [pp_ref EXCEPT ![dir] = pp_ref[dir] + 1] \in [Pages -> Int]
      BY <3>1, <3>2
    <3> QED BY <2>2, <3>3 DEF RefsWithThread
  <2> HIDE DEF es, new
  <2> QED BY <2>1, <2>2, <2>3, <2>4, <2>5, TrapReturnType DEF TypeInv, TypeOK
<1>11. ASSUME NEW c \in CPUs, DestroySelf(c) PROVE TypeInv'
  <2>1. curenv[c] \in Slots
    BY <1>11, <1>u DEF DestroySelf
  <2>2. /\ AfterFree(envs, curenv[c]) \in [Slots -> Env]
        /\ env_free_list' \in Seq(Slots)
        /\ pp_ref' \in [Pages -> Int]
    BY <1>11, <2>1, EnvFreeType DEF DestroySelf
  <2> QED BY <1>11, <1>n, <2>2, SchedYieldType
          DEF DestroySelf, TypeInv, TypeOK
<1>12. ASSUME NEW c \in CPUs, NEW s \in Slots,
              NEW status \in {"RUNNABLE", "NOT_RUNNABLE"},
              SysEnvSetStatus(c, s, status)
       PROVE  TypeInv'
  <2>1. curenv[c] \in Slots
    BY <1>12, <1>u DEF SysEnvSetStatus
  <2>2. [envs EXCEPT ![s].status = status] \in [Slots -> Env]
    BY <1>s, <1>t, EnvFieldTypes
  <2> QED BY <1>12, <2>1, <2>2, TrapReturnType
          DEF SysEnvSetStatus, TypeInv, TypeOK
<1>13. ASSUME NEW c \in CPUs, NEW s \in Slots,
              NEW priority \in 0 .. ENV_PRIORITY_MAX + 1,
              SysSetPriority(c, s, priority)
       PROVE  TypeInv'
  <2>1. curenv[c] \in Slots
    BY <1>13, <1>u DEF SysSetPriority
  <2>2. priority \in Priorities
    BY <1>13, PolicyAssumption DEF SysSetPriority, Priorities
  <2>3. [envs EXCEPT ![s].priority = priority] \in [Slots -> Env]
    BY <1>t, <2>2, EnvFieldTypes
  <2> QED BY <1>13, <2>1, <2>3, TrapReturnType
          DEF SysSetPriority, TypeInv, TypeOK
<1>14. ASSUME NEW c \in CPUs, NEW s \in Slots, SysEnvDestroy(c, s)
       PROVE  TypeInv'
  <2>1. curenv[c] \in Slots
    BY <1>14, <1>u DEF SysEnvDestroy
  <2>2. CASE /\ TrapReturn(c, [envs EXCEPT ![s].status = "DYING"])
             /\ UNCHANGED <<env_free_list, pp_ref>>
    <3>1. [envs EXCEPT ![s].status = "DYING"] \in [Slots -> Env]
      BY <1>s, <1>t, EnvFieldTypes
    <3> QED BY <1>14, <2>1, <2>2, <3>1, TrapReturnType
            DEF SysEnvDestroy, TypeInv, TypeOK
  <2>3. CASE EnvFree(s) /\ TrapReturn(c, AfterFree(envs, s))
    <3>1. /\ AfterFree(envs, s) \in [Slots -> Env]
          /\ env_free_list' \in Seq(Slots)
          /\ pp_ref' \in [Pages -> Int]
      BY <2>3, EnvFreeType
    <3> QED BY <1>14, <2>1, <2>3, <3>1, TrapReturnType
            DEF SysEnvDestroy, TypeInv, TypeOK
  <2> QED BY <1>14, <2>2, <2>3 DEF SysEnvDestroy, Destroy
<1>15. CASE UNCHANGED vars
  BY <1>15 DEF vars, TypeInv, TypeOK, HasCurenv
<1> QED BY <1>1, <1>2, <1>3, <1>4, <1>5, <1>6, <1>7, <1>8, <1>9, <1>10,
           <1>11, <1>12, <1>13, <1>14, <1>15 DEF Next, Monitor

(* Every state of the kernel is well typed: for every configuration, with  *)
(* all the system calls the kernel accepts, no handler writes a value that *)
(* its field of struct Env or struct CpuInfo cannot hold, and a priority   *)
(* or a wait counter never leaves its range.                               *)
THEOREM TypeCorrect == Spec => []TypeOK
<1>1. TypeInv => TypeOK
  BY DEF TypeInv
<1> QED BY InitType, NextType, <1>1, PTL DEF Spec

-----------------------------------------------------------------------------
(***************************************************************************)
(* The safety invariants of Kernel, for any number of CPUs, slots and      *)
(* pages and for both policies, as long as programs keep to the calls that *)
(* lib/ and user/ make and no env_id generation wraps around.              *)
(***************************************************************************)

(* No call outside the programs' repertoire, and no generation recycled. *)
ProgramsOnly == RawCalls = {} /\ LastGen \in 1 .. MaxGen

Busy == {"RUNNING", "DYING"}

(* A CPU that is not in user mode has no curenv, except in the monitor. *)
CpuState ==
  \A c \in CPUs : cpu_mode[c] \in {"boot", "halted"} => curenv[c] = NULL

(* No slot has been used beyond the last generation. *)
GenBound(es) == \A s \in Slots : es[s].gen <= LastGen

(* What every handler keeps of the table and of the free list. *)
TableInv(es, list) ==
  /\ ExactFor(es, list)
  /\ \A s \in Slots : OneReason(es, s)
  /\ GenBound(es)
  /\ Ancestry(es)
  /\ Orphaned(es)
  /\ ThreadsOwned(es)

SafetyInv ==
  /\ TypeInv
  /\ CpuState
  /\ RunsOnOneCpu
  /\ TableInv(envs, env_free_list)

-----------------------------------------------------------------------------
(***************************************************************************)
(* The CPUs.  A handler on CPU c that leaves the busy environments of the  *)
(* other CPUs busy, and makes no other one busy, can end in the scheduler. *)
(***************************************************************************)
KeepsBusy(c, es) ==
  \A s \in Slots :
    s # curenv[c] => (es[s].status \in Busy <=> envs[s].status \in Busy)

(* cur, NULL or the curenv of c, is all that c may have on its CPU. *)
EndsVisit(c, cur, es) ==
  /\ KeepsBusy(c, es)
  /\ cur \in Slots \cup {NULL}
  /\ cur # NULL => cur = curenv[c] /\ es[cur].status # "DYING"
  /\ \A s \in Slots : s = curenv[c] /\ s # cur => es[s].status \notin Busy
  /\ cpu_mode[c] # "user" => curenv[c] = NULL

LEMMA NullIsNoSlot == NULL \notin Slots
  BY DEF NULL, Slots

(* Who is on a CPU other than c, as seen from the table es. *)
LEMMA OthersBusy ==
  ASSUME RunsOnOneCpu, NEW c \in CPUs, NEW cur, NEW es, EndsVisit(c, cur, es)
  PROVE  /\ \A d \in CPUs \ {c}, s \in Slots :
              OnCpu(d, s) => es[s].status \in Busy /\ s # cur
         /\ \A s \in Slots :
              es[s].status \in Busy /\ s # cur =>
                \E d \in CPUs \ {c} : OnCpu(d, s)
<1>1. ASSUME NEW d \in CPUs \ {c}, NEW s \in Slots, OnCpu(d, s)
      PROVE  es[s].status \in Busy /\ s # cur
  <2>1. envs[s].status \in Busy
    BY <1>1 DEF RunsOnOneCpu, Busy
  <2>2. s # curenv[c]
    <3> SUFFICES ASSUME s = curenv[c] PROVE FALSE
      OBVIOUS
    <3>1. cpu_mode[c] = "user"
      BY NullIsNoSlot DEF EndsVisit
    <3> QED BY <1>1, <3>1 DEF RunsOnOneCpu, OnCpu
  <2> QED BY <2>1, <2>2, NullIsNoSlot DEF EndsVisit, KeepsBusy
<1>2. ASSUME NEW s \in Slots, es[s].status \in Busy, s # cur
      PROVE  \E d \in CPUs \ {c} : OnCpu(d, s)
  <2>1. s # curenv[c]
    BY <1>2 DEF EndsVisit
  <2>2. envs[s].status \in Busy
    BY <1>2, <2>1 DEF EndsVisit, KeepsBusy
  <2>3. PICK d \in CPUs : OnCpu(d, s)
    BY <2>2 DEF RunsOnOneCpu, Busy
  <2> QED BY <2>1, <2>3 DEF OnCpu
<1> QED BY <1>1, <1>2

LEMMA YieldOneCpu ==
  ASSUME TypeInv, CpuState, RunsOnOneCpu,
         NEW c \in CPUs, NEW cur, NEW es \in [Slots -> Env],
         EndsVisit(c, cur, es), SchedYield(c, cur, es)
  PROVE  RunsOnOneCpu' /\ CpuState'
<1> USE DEF Busy
<1>t. curenv \in [CPUs -> Slots \cup {NULL}] /\ cpu_mode \in [CPUs -> Modes]
  BY DEF TypeInv, TypeOK
<1>o. \A d, d2 \in CPUs \ {c}, s \in Slots :
        OnCpu(d, s) /\ OnCpu(d2, s) => d = d2
  BY DEF RunsOnOneCpu
<1>1. CASE SchedRun(c, cur, es)
  <2>1. PICK r \in Slots :
          /\ Picks(es, cur, r)
          /\ envs' = EnvRun(Aged(es, r), cur, r)
          /\ curenv' = [curenv EXCEPT ![c] = r]
          /\ cpu_mode' = [cpu_mode EXCEPT ![c] = "user"]
    BY <1>1 DEF SchedRun
  <2>2. es[r].status = "RUNNABLE" \/ r = cur
    BY <2>1 DEF Picks, RoundRobinPicks, PrioritiesPick, Ready
  <2>3. \A s \in Slots :
          envs'[s].status = IF s = r THEN "RUNNING"
                            ELSE IF s = cur /\ es[s].status = "RUNNING"
                                 THEN "RUNNABLE" ELSE es[s].status
    BY <2>1 DEF Aged, EnvRun, Env
  <2>4. \A d \in CPUs, s \in Slots :
          OnCpu(d, s)' <=> IF d = c THEN s = r ELSE OnCpu(d, s)
    BY <2>1, <1>t DEF OnCpu
  <2>5. \A d \in CPUs \ {c} : ~OnCpu(d, r)
    BY <2>2, OthersBusy
  <2>6. \A s \in Slots :
          envs'[s].status \in Busy <=> \E d \in CPUs : OnCpu(d, s)'
    <3> TAKE s \in Slots
    <3>1. CASE s = r
      BY <3>1, <2>3, <2>4
    <3>2. CASE s # r /\ s = cur
      <4>1. es[s].status # "DYING"
        BY <3>2, NullIsNoSlot DEF EndsVisit
      <4> QED BY <3>2, <4>1, <2>3, <2>4, OthersBusy
    <3>3. CASE s # r /\ s # cur
      BY <3>3, <2>3, <2>4, OthersBusy
    <3> QED BY <3>1, <3>2, <3>3
  <2>7. RunsOnOneCpu'
    BY <1>o, <2>4, <2>5, <2>6 DEF RunsOnOneCpu
  <2> QED BY <2>1, <2>7, <1>t DEF CpuState
<1>2. CASE SchedHlt(c, cur, es) \/ SchedMonitor(c, cur, es)
  <2>1. /\ envs' = es
        /\ cpu_mode' = [cpu_mode EXCEPT ![c] = cpu_mode'[c]]
        /\ cpu_mode'[c] \in {"halted", "monitor"}
        /\ \A d \in CPUs \ {c} : curenv'[d] = curenv[d]
        /\ cpu_mode'[c] = "halted" => curenv'[c] = NULL
    BY <1>2, <1>t DEF SchedHlt, SchedMonitor
  <2>2. \A d \in CPUs, s \in Slots :
          OnCpu(d, s)' <=> d # c /\ OnCpu(d, s)
    BY <2>1, <1>t DEF OnCpu
  <2>3. cur \in Slots => es[cur].status \notin Busy
    BY <1>2, NullIsNoSlot
       DEF SchedHlt, SchedMonitor, CanPick, CanKeepCpu, EndsVisit
  <2>4. \A s \in Slots :
          envs'[s].status \in Busy <=> \E d \in CPUs : OnCpu(d, s)'
    BY <2>1, <2>2, <2>3, OthersBusy
  <2> QED BY <1>o, <1>t, <2>1, <2>2, <2>4 DEF RunsOnOneCpu, CpuState
<1> QED BY <1>1, <1>2 DEF SchedYield

LEMMA ReturnOneCpu ==
  ASSUME TypeInv, CpuState, RunsOnOneCpu,
         NEW c \in CPUs, NEW es \in [Slots -> Env],
         EndsVisit(c, curenv[c], es), curenv[c] \in Slots, TrapReturn(c, es)
  PROVE  RunsOnOneCpu' /\ CpuState'
<1>1. CASE /\ es[curenv[c]].status = "RUNNING"
           /\ envs' = es
           /\ UNCHANGED <<curenv, cpu_mode>>
  <2>1. OnCpu(c, curenv[c])
    BY NullIsNoSlot DEF EndsVisit, OnCpu
  <2>2. \A s \in Slots :
          envs'[s].status \in Busy <=> \E d \in CPUs : OnCpu(d, s)'
    BY <1>1, <2>1, OthersBusy DEF Busy, OnCpu
  <2> QED BY <1>1, <2>2 DEF RunsOnOneCpu, CpuState, OnCpu, Busy
<1>2. CASE SchedYield(c, curenv[c], es)
  BY <1>2, YieldOneCpu
<1> QED BY <1>1, <1>2 DEF TrapReturn

-----------------------------------------------------------------------------
(***************************************************************************)
(* The table.  Most handlers change neither who exists nor who is whose    *)
(* parent: only what somebody waits for has to be looked at.               *)
(***************************************************************************)
SameFamily(es, es2) ==
  \A s \in Slots :
    /\ es2[s].gen = es[s].gen
    /\ es2[s].type = es[s].type
    /\ es2[s].parent = es[s].parent
    /\ es2[s].pgdir = es[s].pgdir
    /\ es2[s].status = "FREE" <=> es[s].status = "FREE"
    /\ es2[s].status = "DYING" <=> es[s].status = "DYING"

LEMMA SameFamilyInv ==
  ASSUME NEW es, NEW es2, NEW list, TableInv(es, list), SameFamily(es, es2),
         \A s \in Slots : OneReason(es2, s)
  PROVE  TableInv(es2, list)
<1>1. ExactFor(es2, list)
  <2>1. {s \in Slots : ~Live(es2, s)} = {s \in Slots : ~Live(es, s)}
    BY DEF SameFamily, Live
  <2> QED BY <2>1 DEF TableInv, ExactFor
<1>2. GenBound(es2)
  BY DEF TableInv, SameFamily, GenBound
<1>3. \A s \in Slots : EnvId(es2, s) = EnvId(es, s) /\ (Live(es2, s) <=> Live(es, s))
  BY DEF SameFamily, EnvId, Live
<1>4. Ancestry(es2)
  BY <1>3 DEF TableInv, SameFamily, Ancestry
<1>5. Orphaned(es2)
  BY <1>3 DEF TableInv, SameFamily, Orphaned
<1>6. ThreadsOwned(es2)
  BY <1>3 DEF TableInv, SameFamily, ThreadsOwned, Owns
<1> QED BY <1>1, <1>2, <1>4, <1>5, <1>6 DEF TableInv

(* Scheduling changes statuses between ENV_RUNNABLE and ENV_RUNNING only.  *)
SameButRunning(es, es2) ==
  \A s \in Slots :
    /\ es2[s].gen = es[s].gen
    /\ es2[s].type = es[s].type
    /\ es2[s].parent = es[s].parent
    /\ es2[s].pgdir = es[s].pgdir
    /\ es2[s].sleep_until = es[s].sleep_until
    /\ es2[s].recving = es[s].recving
    /\ \/ es2[s].status = es[s].status
       \/ /\ es2[s].status \in {"RUNNABLE", "RUNNING"}
          /\ es[s].status \in {"RUNNABLE", "RUNNING"}

LEMMA YieldFields ==
  ASSUME NEW c \in CPUs, NEW cur, NEW es \in [Slots -> Env],
         SchedYield(c, cur, es)
  PROVE  SameButRunning(es, envs')
<1>1. CASE SchedRun(c, cur, es)
  <2>1. PICK r \in Slots :
          Picks(es, cur, r) /\ envs' = EnvRun(Aged(es, r), cur, r)
    BY <1>1 DEF SchedRun
  <2>2. es[r].status \in {"RUNNABLE", "RUNNING"}
    BY <2>1 DEF Picks, RoundRobinPicks, PrioritiesPick, Ready, CanKeepCpu
  <2> QED BY <2>1, <2>2 DEF Aged, EnvRun, Env, SameButRunning
<1>2. CASE envs' = es
  BY <1>2 DEF SameButRunning
<1> QED BY <1>1, <1>2 DEF SchedYield, SchedHlt, SchedMonitor

LEMMA YieldTable ==
  ASSUME NEW c \in CPUs, NEW cur, NEW es \in [Slots -> Env], NEW list,
         TableInv(es, list), SchedYield(c, cur, es)
  PROVE  TableInv(envs', list)
<1>1. SameButRunning(es, envs')
  BY YieldFields
<1>2. SameFamily(es, envs')
  BY <1>1 DEF SameButRunning, SameFamily
<1>3. \A s \in Slots : OneReason(envs', s)
  BY <1>1 DEF SameButRunning, TableInv, OneReason, Live
<1> QED BY <1>2, <1>3, SameFamilyInv

LEMMA ReturnTable ==
  ASSUME NEW c \in CPUs, NEW es \in [Slots -> Env], NEW list,
         TableInv(es, list), TrapReturn(c, es)
  PROVE  TableInv(envs', list)
BY YieldTable DEF TrapReturn

(* env_free() of a live environment e.                                     *)
LEMMA FreedTable ==
  ASSUME NEW es \in [Slots -> Env], NEW list, NEW e \in Slots,
         TableInv(es, list), Live(es, e)
  PROVE  /\ \A s \in Slots : OneReason(AfterFree(es, e), s)
         /\ GenBound(AfterFree(es, e))
         /\ Ancestry(AfterFree(es, e))
         /\ Orphaned(AfterFree(es, e))
         /\ ThreadsOwned(AfterFree(es, e))
<1> DEFINE es2 == AfterFree(es, e)
<1>1. \A s \in Slots :
        /\ es2[s].gen = es[s].gen
        /\ es2[s].type = es[s].type
        /\ es2[s].parent = es[s].parent
        /\ es2[s].sleep_until = es[s].sleep_until
        /\ es2[s].recving = es[s].recving
        /\ s \in Freed(es, e) => es2[s].status = "FREE"
        /\ s \in Zombies(es, e) => /\ es2[s].status = "DYING"
                                   /\ es[s].status = "RUNNING"
                                   /\ es2[s].pgdir = es[s].pgdir
        /\ s \notin Freed(es, e) \cup Zombies(es, e) => es2[s] = es[s]
  <2> TAKE s \in Slots
  <2>1. es[s] \in Env
    OBVIOUS
  <2>2. CASE s \in Freed(es, e)
    <3>1. es2[s] = [es[s] EXCEPT !.status = "FREE", !.pgdir = NULL]
      BY <2>2 DEF AfterFree
    <3>2. s \notin Zombies(es, e)
      BY <2>2 DEF Freed, Zombies, ThreadsOf
    <3> QED BY <2>1, <2>2, <3>1, <3>2 DEF Env
  <2>3. CASE s \in Zombies(es, e)
    <3>1. es2[s] = [es[s] EXCEPT !.status = "DYING"]
      BY <2>3 DEF AfterFree, Freed, Zombies, ThreadsOf
    <3>2. s \notin Freed(es, e) /\ es[s].status = "RUNNING"
      BY <2>3 DEF Freed, Zombies, ThreadsOf
    <3> QED BY <2>1, <2>3, <3>1, <3>2 DEF Env
  <2>4. CASE s \notin Freed(es, e) \cup Zombies(es, e)
    BY <2>4 DEF AfterFree
  <2> QED BY <2>2, <2>3, <2>4
<1> HIDE DEF es2
<1>2. \A s \in Slots : OneReason(es2, s)
  BY <1>1 DEF TableInv, OneReason, Live
<1>3. GenBound(es2)
  BY <1>1 DEF TableInv, GenBound
<1>4. \A s \in Slots : EnvId(es2, s) = EnvId(es, s)
  BY <1>1 DEF EnvId
<1>5. Ancestry(es2)
  BY <1>1, <1>4 DEF TableInv, Ancestry
<1>6. \A s \in Slots : Live(es2, s) => Live(es, s)
  BY <1>1 DEF Live, Zombies, ThreadsOf
<1>7. Orphaned(es2)
  <2> SUFFICES ASSUME NEW t \in Slots, NEW p \in Slots,
                      es2[t].type = "THREAD", es2[t].status = "DYING",
                      es2[t].parent = EnvId(es2, p)
               PROVE  ~Live(es2, p)
    BY DEF Orphaned
  <2>1. CASE t \in Zombies(es, e)
    <3>1. es[t].parent = EnvId(es, e)
      BY <2>1 DEF Zombies, ThreadsOf
    <3>2. p = e
      BY <1>1, <1>4, <3>1 DEF EnvId
    <3> QED BY <1>1, <3>2 DEF Freed, Live
  <2>2. CASE t \notin Zombies(es, e)
    <3>1. es2[t] = es[t]
      BY <1>1, <2>2
    <3> QED BY <3>1, <1>4, <1>6 DEF TableInv, Orphaned
  <2> QED BY <2>1, <2>2
<1>8. ThreadsOwned(es2)
  <2> SUFFICES ASSUME NEW t \in Slots, es2[t].type = "THREAD",
                      es2[t].status \notin {"FREE", "DYING"}
               PROVE  \E p \in Slots : Owns(es2, p, t)
    BY DEF ThreadsOwned
  <2>1. es2[t] = es[t] /\ t \notin Freed(es, e) \cup Zombies(es, e)
    BY <1>1
  <2>2. PICK p \in Slots : Owns(es, p, t)
    BY <2>1 DEF TableInv, ThreadsOwned
  <2>3. p # e
    <3> SUFFICES ASSUME p = e PROVE FALSE
      OBVIOUS
    <3>1. t # e
      BY <2>1 DEF Freed
    <3>2. t \in ThreadsOf(es, e)
      BY <2>1, <2>2, <3>1 DEF ThreadsOf, Owns, Live
    <3> QED BY <2>1, <3>2 DEF Freed
  <2>4. p \notin Freed(es, e) \cup Zombies(es, e)
    BY <2>2, <2>3 DEF Freed, Zombies, ThreadsOf, Owns
  <2>5. es2[p] = es[p]
    BY <1>1, <2>4
  <2> QED BY <2>1, <2>2, <2>5 DEF Owns, Live, EnvId
<1> QED BY <1>2, <1>3, <1>5, <1>7, <1>8 DEF es2

(***************************************************************************)
(* The free list.                                                          *)
(***************************************************************************)
Elements(list) == {list[i] : i \in DOMAIN list}
Distinct(list) == \A i, j \in DOMAIN list : list[i] = list[j] => i = j

LEMMA ConcatElements ==
  ASSUME NEW S, NEW a \in Seq(S), NEW b \in Seq(S)
  PROVE  /\ Elements(a \o b) = Elements(a) \cup Elements(b)
         /\ /\ Distinct(a)
            /\ Distinct(b)
            /\ Elements(a) \cap Elements(b) = {}
            => Distinct(a \o b)
<1>1. /\ a \o b \in Seq(S)
      /\ Len(a) \in Nat /\ Len(b) \in Nat
      /\ DOMAIN a = 1 .. Len(a)
      /\ DOMAIN b = 1 .. Len(b)
      /\ DOMAIN (a \o b) = 1 .. Len(a) + Len(b)
  OBVIOUS
<1>2. \A i \in DOMAIN (a \o b) :
        \/ i \in DOMAIN a /\ (a \o b)[i] = a[i]
        \/ i - Len(a) \in DOMAIN b /\ (a \o b)[i] = b[i - Len(a)] /\ i > Len(a)
  BY <1>1
<1>3. \A i \in DOMAIN a : i \in DOMAIN (a \o b) /\ (a \o b)[i] = a[i]
  BY <1>1
<1>4. \A i \in DOMAIN b :
        i + Len(a) \in DOMAIN (a \o b) /\ (a \o b)[i + Len(a)] = b[i]
  BY <1>1
<1>5. Elements(a \o b) = Elements(a) \cup Elements(b)
  <2>1. Elements(a \o b) \subseteq Elements(a) \cup Elements(b)
    BY <1>2 DEF Elements
  <2>2. Elements(a) \subseteq Elements(a \o b)
    BY <1>3 DEF Elements
  <2>3. Elements(b) \subseteq Elements(a \o b)
    BY <1>4 DEF Elements
  <2> QED BY <2>1, <2>2, <2>3
<1>6. ASSUME Distinct(a), Distinct(b), Elements(a) \cap Elements(b) = {}
      PROVE  Distinct(a \o b)
  <2> SUFFICES ASSUME NEW i \in DOMAIN (a \o b), NEW j \in DOMAIN (a \o b),
                      (a \o b)[i] = (a \o b)[j]
               PROVE  i = j
    BY DEF Distinct
  <2>1. CASE i \in DOMAIN a /\ j \in DOMAIN a
    BY <2>1, <1>3, <1>6 DEF Distinct
  <2>2. CASE i > Len(a) /\ j > Len(a)
    <3>1. i - Len(a) = j - Len(a)
      BY <2>2, <1>1, <1>2, <1>6 DEF Distinct
    <3> QED BY <3>1, <1>1
  <2>3. \A x \in DOMAIN a, y \in DOMAIN b : a[x] # b[y]
    BY <1>6 DEF Elements
  <2> QED BY <1>1, <1>2, <2>1, <2>2, <2>3
<1> QED BY <1>5, <1>6

(* env_free() pushes exactly the slots it frees.                           *)
LEMMA FreedListExact ==
  ASSUME TypeInv, NEW e \in Slots, Live(envs, e), EnvFree(e),
         ExactFor(envs, env_free_list)
  PROVE  ExactFor(AfterFree(envs, e), env_free_list')
<1>1. PICK q \in Descending(Freed(envs, e) \ {e}) :
        env_free_list' = (<<e>> \o q) \o env_free_list
  BY DEF EnvFree, FreeListAfterFree
<1>2. Freed(envs, e) \subseteq {s \in Slots : Live(envs, s)}
  BY DEF Freed, ThreadsOf
<1>3. PICK n \in 0 .. NENV : q \in [1 .. n -> Freed(envs, e) \ {e}]
  BY <1>1 DEF Descending
<1>4. q \in Seq(Slots) /\ DOMAIN q = 1 .. n
  BY <1>2, <1>3, PolicyAssumption
<1>5. Elements(q) = Freed(envs, e) \ {e}
  BY <1>1, <1>3 DEF Descending, Elements
<1>6. Distinct(q)
  <2>1. \A i, j \in DOMAIN q : i < j => q[i] > q[j]
    BY <1>1 DEF Descending
  <2>2. \A i \in DOMAIN q : q[i] \in Int /\ i \in Int
    <3> TAKE i \in DOMAIN q
    <3>1. q[i] \in Slots
      BY <1>2, <1>3
    <3> QED BY <1>3, <3>1 DEF Slots
  <2> QED BY <2>1, <2>2 DEF Distinct
<1>7. <<e>> \in Seq(Slots) /\ Elements(<<e>>) = {e} /\ Distinct(<<e>>)
  BY DEF Elements, Distinct
<1>8. env_free_list \in Seq(Slots)
  BY DEF TypeInv, TypeOK
<1>9. /\ Elements(env_free_list) = {s \in Slots : ~Live(envs, s)}
      /\ Distinct(env_free_list)
  BY DEF ExactFor, Elements, Distinct
<1>10. <<e>> \o q \in Seq(Slots)
  BY <1>4, <1>7
<1>11. Elements(<<e>> \o q) = Freed(envs, e) /\ Distinct(<<e>> \o q)
  <2>1. e \in Freed(envs, e)
    BY DEF Freed
  <2>2. Elements(<<e>>) \cap Elements(q) = {}
    BY <1>5, <1>7
  <2>3. Elements(<<e>> \o q) = Elements(<<e>>) \cup Elements(q)
    <3>1. \A a, b \in Seq(Slots) :
            Elements(a \o b) = Elements(a) \cup Elements(b)
      BY ConcatElements
    <3>2. \A a \in Seq(Slots) : Elements(a \o q) = Elements(a) \cup Elements(q)
      BY <1>4, <3>1
    <3> QED BY <1>7, <3>2, Zenon
  <2>4. Distinct(<<e>> \o q)
    BY <1>4, <1>6, <1>7, <2>2, ConcatElements
  <2> QED BY <1>5, <1>7, <2>1, <2>3, <2>4
<1>12. Freed(envs, e) \cap Elements(env_free_list) = {}
  BY <1>2, <1>9
<1>13. /\ Elements(env_free_list') = Freed(envs, e) \cup Elements(env_free_list)
       /\ Distinct(env_free_list')
  <2>1. Elements(<<e>> \o q) \cap Elements(env_free_list) = {}
    BY <1>11, <1>12
  <2>2. /\ Elements((<<e>> \o q) \o env_free_list)
             = Elements(<<e>> \o q) \cup Elements(env_free_list)
        /\ Distinct((<<e>> \o q) \o env_free_list)
    <3> DEFINE freed == <<e>> \o q
    <3>1. freed \in Seq(Slots) /\ Distinct(freed)
      BY <1>10, <1>11
    <3>2. env_free_list \in Seq(Slots) /\ Distinct(env_free_list)
      BY <1>8, <1>9
    <3>3. Elements(freed) \cap Elements(env_free_list) = {}
      BY <2>1
    <3> HIDE DEF freed
    <3>4. /\ Elements(freed \o env_free_list)
               = Elements(freed) \cup Elements(env_free_list)
          /\ Distinct(freed \o env_free_list)
      BY <3>1, <3>2, <3>3, ConcatElements
    <3> QED BY <3>4 DEF freed
  <2> QED BY <1>1, <1>11, <2>2
<1>14. \A s \in Slots :
         ~Live(AfterFree(envs, e), s) <=> s \in Freed(envs, e) \/ ~Live(envs, s)
  <2> TAKE s \in Slots
  <2>1. envs[s] \in Env
    BY DEF TypeInv, TypeOK
  <2>2. CASE s \in Freed(envs, e)
    BY <2>1, <2>2 DEF AfterFree, Live, Env
  <2>3. CASE s \in Zombies(envs, e)
    BY <2>1, <2>3 DEF AfterFree, Live, Env, Zombies, Freed, ThreadsOf
  <2>4. CASE s \notin Freed(envs, e) \cup Zombies(envs, e)
    BY <2>4 DEF AfterFree, Live
  <2> QED BY <2>2, <2>3, <2>4
<1>15. {s \in Slots : ~Live(AfterFree(envs, e), s)}
         = Freed(envs, e) \cup Elements(env_free_list)
  BY <1>2, <1>9, <1>14
<1> QED BY <1>13, <1>15 DEF ExactFor, Elements, Distinct

(* env_alloc() takes the first free slot off the list.                     *)
LEMMA HeadTail ==
  ASSUME NEW S, NEW list \in Seq(S), list # <<>>, Distinct(list)
  PROVE  /\ Tail(list) \in Seq(S)
         /\ Head(list) \in Elements(list)
         /\ Elements(Tail(list)) = Elements(list) \ {Head(list)}
         /\ Distinct(Tail(list))
<1>1. /\ Len(list) \in Nat \ {0}
      /\ DOMAIN list = 1 .. Len(list)
      /\ Head(list) = list[1]
      /\ Tail(list) \in Seq(S)
      /\ DOMAIN Tail(list) = 1 .. Len(list) - 1
      /\ \A i \in 1 .. Len(list) - 1 : Tail(list)[i] = list[i + 1]
  OBVIOUS
<1>2. Distinct(Tail(list))
  BY <1>1 DEF Distinct
<1>3. Head(list) \in Elements(list)
  BY <1>1 DEF Elements
<1>4. Elements(Tail(list)) \subseteq Elements(list) \ {Head(list)}
  BY <1>1 DEF Elements, Distinct
<1>5. ASSUME NEW x \in Elements(list) \ {Head(list)}
      PROVE  x \in Elements(Tail(list))
  <2>1. PICK i \in 1 .. Len(list) : x = list[i]
    BY <1>1 DEF Elements
  <2>2. i - 1 \in 1 .. Len(list) - 1 /\ Tail(list)[i - 1] = x
    BY <1>1, <1>5, <2>1
  <2> QED BY <1>1, <2>2 DEF Elements
<1> QED BY <1>1, <1>2, <1>3, <1>4, <1>5

(* env_alloc() of an environment r, for a parent that is alive.            *)
LEMMA AllocTable ==
  ASSUME ProgramsOnly, NEW es \in [Slots -> Env], NEW list \in Seq(Slots),
         TableInv(es, list), list # <<>>, es[Head(list)].gen # LastGen,
         NEW owner \in Slots, Live(es, owner), NEW r \in Env,
         r.gen = NextGen(es[Head(list)].gen),
         r.status \in {"RUNNABLE", "NOT_RUNNABLE"},
         r.sleep_until = 0, ~r.recving, r.parent = EnvId(es, owner),
         r.type = "THREAD" => /\ es[owner].type = "USER"
                              /\ r.pgdir = es[owner].pgdir
  PROVE  TableInv([es EXCEPT ![Head(list)] = r], Tail(list))
<1> DEFINE new == Head(list)
           es2 == [es EXCEPT ![new] = r]
<1>1. Elements(list) = {s \in Slots : ~Live(es, s)} /\ Distinct(list)
  BY DEF TableInv, ExactFor, Elements, Distinct
<1>2. /\ new \in Slots /\ ~Live(es, new)
      /\ Elements(Tail(list)) = Elements(list) \ {new}
      /\ Distinct(Tail(list))
  BY <1>1, HeadTail
<1> HIDE DEF new
<1>3. es2[new] = r /\ \A s \in Slots \ {new} : es2[s] = es[s]
  BY <1>2
<1>4. r.gen = es[new].gen + 1 /\ r.gen \in Nat /\ r.gen <= LastGen
  <2>1. es[new].gen \in Nat /\ es[new].gen <= LastGen /\ es[new].gen # LastGen
    BY <1>2 DEF TableInv, GenBound, Env, new
  <2>2. LastGen \in Nat /\ MaxGen \in Nat /\ LastGen <= MaxGen
    BY KernelAssumption DEF ProgramsOnly
  <2>3. r.gen = NextGen(es[new].gen)
    BY DEF new
  <2> QED BY <2>1, <2>2, <2>3 DEF NextGen
<1> HIDE DEF es2
<1>5. owner # new
  BY <1>2
<1>6. Live(es2, new) /\ \A s \in Slots \ {new} : Live(es2, s) <=> Live(es, s)
  BY <1>3 DEF Live
<1>7. ExactFor(es2, Tail(list))
  <2>1. {s \in Slots : ~Live(es2, s)} = Elements(list) \ {new}
    BY <1>1, <1>2, <1>6
  <2> QED BY <1>2, <2>1 DEF ExactFor, Elements, Distinct
<1>8. \A s \in Slots : OneReason(es2, s)
  <2> TAKE s \in Slots
  <2>1. CASE s = new
    BY <1>3, <2>1 DEF OneReason
  <2>2. CASE s # new
    BY <1>3, <2>2 DEF TableInv, OneReason, Live
  <2> QED BY <2>1, <2>2
<1>9. GenBound(es2)
  BY <1>3, <1>4 DEF TableInv, GenBound
<1>10. \A s \in Slots \ {new} : EnvId(es2, s) = EnvId(es, s)
  BY <1>3 DEF EnvId
<1>11. \A s \in Slots : es[s].parent # EnvId(es2, new)
  <2> SUFFICES ASSUME NEW s \in Slots, es[s].parent = <<new, r.gen>>
               PROVE  FALSE
    BY <1>3 DEF EnvId
  <2>1. es[s].parent[1] = new /\ es[s].parent[2] = r.gen
    OBVIOUS
  <2>2. es[s].parent[2] <= es[new].gen
    BY <1>2, <2>1 DEF TableInv, Ancestry
  <2>3. es[new].gen \in Nat
    BY <1>2 DEF Env
  <2> QED BY <1>4, <2>1, <2>2, <2>3
<1>12. Ancestry(es2)
  <2> SUFFICES ASSUME NEW s \in Slots, NEW p \in Slots
               PROVE  /\ es2[s].parent[1] = p => es2[s].parent[2] <= es2[p].gen
                      /\ es2[s].parent = EnvId(es2, p) =>
                           es2[p].parent # EnvId(es2, s)
    BY DEF Ancestry
  <2>0. /\ es[s].parent[1] = p => es[s].parent[2] <= es[p].gen
        /\ es[s].parent = EnvId(es, p) => es[p].parent # EnvId(es, s)
    BY DEF TableInv, Ancestry
  <2>t. /\ es[p].gen \in Nat
        /\ es[s].parent[2] \in Nat
    BY DEF Env
  <2>1. CASE s = new
    <3>1. es2[s].parent = <<owner, es[owner].gen>> /\ es2[owner] = es[owner]
      BY <1>3, <1>5, <2>1 DEF EnvId
    <3>2. /\ es2[s].parent[1] = owner
          /\ es2[s].parent[2] = es2[owner].gen
          /\ es2[owner].gen \in Nat
      BY <3>1 DEF Env
    <3>3. es2[s].parent = EnvId(es2, p) => p = owner
      BY <3>1 DEF EnvId
    <3>4. es2[owner].parent # EnvId(es2, s)
      BY <1>11, <2>1, <3>1
    <3> QED BY <3>2, <3>3, <3>4
  <2>2. CASE s # new /\ p = new
    <3>1. es2[s].parent # EnvId(es2, p)
      BY <1>3, <1>11, <2>2
    <3>2. es2[s] = es[s] /\ es2[p].gen = es[p].gen + 1
      BY <1>3, <1>4, <2>2
    <3> QED BY <2>0, <2>t, <3>1, <3>2
  <2>3. CASE s # new /\ p # new
    BY <1>3, <1>10, <2>0, <2>3
  <2> QED BY <2>1, <2>2, <2>3
<1>13. Orphaned(es2)
  <2> SUFFICES ASSUME NEW t \in Slots, NEW p \in Slots,
                      es2[t].type = "THREAD", es2[t].status = "DYING",
                      es2[t].parent = EnvId(es2, p)
               PROVE  ~Live(es2, p)
    BY DEF Orphaned
  <2>1. t # new
    BY <1>3
  <2>2. p # new
    BY <1>3, <1>11, <2>1
  <2> QED BY <1>3, <1>6, <1>10, <2>1, <2>2 DEF TableInv, Orphaned
<1>14. ThreadsOwned(es2)
  <2> SUFFICES ASSUME NEW t \in Slots, es2[t].type = "THREAD",
                      es2[t].status \notin {"FREE", "DYING"}
               PROVE  \E p \in Slots : Owns(es2, p, t)
    BY DEF ThreadsOwned
  <2>1. CASE t = new
    <3>1. Owns(es2, owner, t)
      BY <1>3, <1>5, <1>6, <1>10, <2>1 DEF Owns
    <3> QED BY <3>1
  <2>2. CASE t # new
    <3>1. PICK p \in Slots : Owns(es, p, t)
      BY <1>3, <2>2 DEF TableInv, ThreadsOwned
    <3>2. p # new
      BY <1>2, <3>1 DEF Owns
    <3>3. Owns(es2, p, t)
      BY <1>3, <1>6, <1>10, <2>2, <3>1, <3>2 DEF Owns
    <3> QED BY <3>3
  <2> QED BY <2>1, <2>2
<1>15. TableInv(es2, Tail(list))
  BY <1>7, <1>8, <1>9, <1>12, <1>13, <1>14 DEF TableInv
<1> QED BY <1>15 DEF es2, new

-----------------------------------------------------------------------------
(***************************************************************************)
(* The ways a handler ends.                                                *)
(***************************************************************************)
Safe == CpuState /\ RunsOnOneCpu /\ TableInv(envs, env_free_list)

(* Trapped: this CPU has a curenv, which is ENV_RUNNING.                   *)
LEMMA TrappedRunning ==
  ASSUME SafetyInv, NEW c \in CPUs, cpu_mode[c] = "user"
  PROVE  /\ curenv[c] \in Slots
         /\ envs[curenv[c]].status \in Busy
         /\ Live(envs, curenv[c])
         /\ Trapped(c) => envs[curenv[c]].status = "RUNNING"
<1>1. curenv[c] \in Slots
  BY DEF SafetyInv, TypeInv, HasCurenv
<1>2. OnCpu(c, curenv[c])
  BY DEF OnCpu
<1>3. envs[curenv[c]].status \in Busy
  BY <1>1, <1>2 DEF SafetyInv, RunsOnOneCpu, Busy
<1> QED BY <1>1, <1>3 DEF Busy, Live, Trapped

LEMMA YieldSafe ==
  ASSUME SafetyInv, NEW c \in CPUs, Trapped(c), NEW es \in [Slots -> Env],
         KeepsBusy(c, es), es[curenv[c]].status # "DYING",
         TableInv(es, env_free_list'), SchedYield(c, curenv[c], es)
  PROVE  Safe'
<1>1. curenv[c] \in Slots
  BY TrappedRunning DEF Trapped
<1>2. EndsVisit(c, curenv[c], es)
  BY <1>1 DEF EndsVisit, Trapped
<1>3. RunsOnOneCpu' /\ CpuState'
  BY <1>2, YieldOneCpu DEF SafetyInv
<1>4. TableInv(envs', env_free_list')
  BY YieldTable
<1> QED BY <1>3, <1>4 DEF Safe

LEMMA ReturnSafe ==
  ASSUME SafetyInv, NEW c \in CPUs, Trapped(c), NEW es \in [Slots -> Env],
         KeepsBusy(c, es), es[curenv[c]].status # "DYING",
         TableInv(es, env_free_list'), TrapReturn(c, es)
  PROVE  Safe'
<1>1. curenv[c] \in Slots
  BY TrappedRunning DEF Trapped
<1>2. EndsVisit(c, curenv[c], es)
  BY <1>1 DEF EndsVisit, Trapped
<1>3. RunsOnOneCpu' /\ CpuState'
  BY <1>1, <1>2, ReturnOneCpu DEF SafetyInv
<1>4. TableInv(envs', env_free_list')
  BY ReturnTable
<1> QED BY <1>3, <1>4 DEF Safe

(* env_free(e) takes nobody off another CPU, unless e itself is on one.    *)
LEMMA FreeKeepsBusy ==
  ASSUME SafetyInv, NEW e \in Slots, Live(envs, e), NEW s \in Slots,
         s = e => envs[e].status \notin Busy
  PROVE  AfterFree(envs, e)[s].status \in Busy <=> envs[s].status \in Busy
<1>t. envs[s] \in Env
  BY DEF SafetyInv, TypeInv, TypeOK
<1>1. CASE s \in Freed(envs, e)
  <2>1. AfterFree(envs, e)[s].status = "FREE"
    BY <1>t, <1>1 DEF AfterFree, Env
  <2>2. envs[s].status \notin Busy
    <3>1. CASE s = e
      BY <3>1
    <3>2. CASE s # e
      <4>1. s \in ThreadsOf(envs, e) /\ envs[s].status # "RUNNING"
        BY <1>1, <3>2 DEF Freed, Zombies
      <4>2. envs[s].status # "DYING"
        BY <4>1 DEF SafetyInv, TableInv, Orphaned, ThreadsOf
      <4> QED BY <4>1, <4>2 DEF Busy
    <3> QED BY <3>1, <3>2
  <2> QED BY <2>1, <2>2 DEF Busy
<1>2. CASE s \in Zombies(envs, e)
  <2>1. AfterFree(envs, e)[s].status = "DYING" /\ envs[s].status = "RUNNING"
    BY <1>t, <1>2 DEF AfterFree, Env, Zombies, Freed, ThreadsOf
  <2> QED BY <2>1 DEF Busy
<1>3. CASE s \notin Freed(envs, e) \cup Zombies(envs, e)
  BY <1>3 DEF AfterFree
<1> QED BY <1>1, <1>2, <1>3

LEMMA FreeTable ==
  ASSUME SafetyInv, NEW e \in Slots, Live(envs, e), EnvFree(e)
  PROVE  /\ AfterFree(envs, e) \in [Slots -> Env]
         /\ TableInv(AfterFree(envs, e), env_free_list')
<1>1. AfterFree(envs, e) \in [Slots -> Env]
  BY EnvFreeType DEF SafetyInv
<1>2. ExactFor(AfterFree(envs, e), env_free_list')
  BY FreedListExact DEF SafetyInv, TableInv
<1>3. envs \in [Slots -> Env] /\ TableInv(envs, env_free_list)
  BY DEF SafetyInv, TypeInv, TypeOK
<1>4. /\ \A s \in Slots : OneReason(AfterFree(envs, e), s)
      /\ GenBound(AfterFree(envs, e))
      /\ Ancestry(AfterFree(envs, e))
      /\ Orphaned(AfterFree(envs, e))
      /\ ThreadsOwned(AfterFree(envs, e))
  BY <1>3, FreedTable
<1> QED BY <1>1, <1>2, <1>4 DEF TableInv

(* Freeing one's own environment: exit(), or a trap that finds a zombie.   *)
LEMMA FreeSelfSafe ==
  ASSUME SafetyInv, NEW c \in CPUs, cpu_mode[c] = "user",
         EnvFree(curenv[c]), SchedYield(c, NULL, AfterFree(envs, curenv[c]))
  PROVE  Safe'
<1> DEFINE e  == curenv[c]
           es == AfterFree(envs, e)
<1>1. e \in Slots /\ Live(envs, e)
  BY TrappedRunning
<1>2. es \in [Slots -> Env] /\ TableInv(es, env_free_list')
  BY <1>1, FreeTable
<1>3. KeepsBusy(c, es)
  BY <1>1, FreeKeepsBusy DEF KeepsBusy
<1>4. es[e].status = "FREE"
  <2>1. envs[e] \in Env
    BY <1>1 DEF SafetyInv, TypeInv, TypeOK
  <2> QED BY <1>1, <2>1 DEF AfterFree, Freed, Env
<1> HIDE DEF es
<1>5. EndsVisit(c, NULL, es)
  BY <1>3, <1>4 DEF EndsVisit, Busy
<1>6. SchedYield(c, NULL, es)
  BY DEF es
<1>7. RunsOnOneCpu' /\ CpuState'
  BY <1>2, <1>5, <1>6, YieldOneCpu DEF SafetyInv
<1>8. TableInv(envs', env_free_list')
  BY <1>2, <1>6, YieldTable
<1> QED BY <1>7, <1>8 DEF Safe

(* Nobody is a thread of a process that it controls.                       *)
LEMMA NotThreadOfChild ==
  ASSUME SafetyInv
  PROVE  NoReentrantFree
<1> SUFFICES ASSUME NEW c \in CPUs, NEW e \in Slots,
                    cpu_mode[c] = "user", MayControl(envs, curenv[c], e),
                    curenv[c] \in ThreadsOf(envs, e)
             PROVE  FALSE
  BY DEF NoReentrantFree
<1>1. curenv[c] \in Slots
  BY TrappedRunning
<1>2. envs[e].parent = EnvId(envs, curenv[c])
  BY DEF MayControl, ThreadsOf
<1>3. envs[curenv[c]].parent = EnvId(envs, e)
  BY DEF ThreadsOf
<1> QED BY <1>1, <1>2, <1>3 DEF SafetyInv, TableInv, Ancestry

-----------------------------------------------------------------------------
(***************************************************************************)
(* The invariant is inductive.                                             *)
(***************************************************************************)
LEMMA InitSafe ==
  ASSUME ProgramsOnly, Init
  PROVE  SafetyInv
<1>0. TypeInv
  BY InitType
<1>1. NBoot \in Nat /\ NENV \in Nat /\ NBoot <= NENV /\ NENV - NBoot \in Nat
  BY KernelAssumption, PolicyAssumption
<1>2. NextGen(0) = 1 /\ LastGen \in Nat /\ LastGen >= 1
  BY KernelAssumption DEF NextGen, ProgramsOnly
<1>3. \A s \in Slots :
        /\ envs[s].status = IF s < NBoot THEN "RUNNABLE" ELSE "FREE"
        /\ envs[s].gen = IF s < NBoot THEN 1 ELSE 0
        /\ envs[s].type = "USER"
        /\ envs[s].parent = <<NULL, 0>>
        /\ envs[s].sleep_until = 0
        /\ ~envs[s].recving
  <2> TAKE s \in Slots
  <2>1. CASE s < NBoot
    <3>1. envs[s] = NewEnv(ZeroedEnv, KernelId, BootPgdir[s])
      BY <2>1 DEF Init
    <3> QED BY <1>2, <2>1, <3>1 DEF NewEnv, ZeroedEnv, KernelId
  <2>2. CASE ~(s < NBoot)
    <3>1. envs[s] = ZeroedEnv
      BY <2>2 DEF Init
    <3> QED BY <2>2, <3>1 DEF ZeroedEnv, KernelId
  <2> QED BY <2>1, <2>2
<1>4. ExactFor(envs, env_free_list)
  <2>1. /\ DOMAIN env_free_list = 1 .. NENV - NBoot
        /\ \A i \in 1 .. NENV - NBoot : env_free_list[i] = NBoot + i - 1
    BY DEF Init
  <2>2. \A s \in Slots : ~Live(envs, s) <=> s >= NBoot
    BY <1>1, <1>3 DEF Live, Slots
  <2>3. \A i \in DOMAIN env_free_list :
          env_free_list[i] \in {s \in Slots : ~Live(envs, s)}
    BY <1>1, <2>1, <2>2 DEF Slots
  <2>4. \A s \in Slots : ~Live(envs, s) =>
          /\ s - NBoot + 1 \in DOMAIN env_free_list
          /\ env_free_list[s - NBoot + 1] = s
    BY <1>1, <2>1, <2>2 DEF Slots
  <2>5. {env_free_list[i] : i \in DOMAIN env_free_list}
          = {s \in Slots : ~Live(envs, s)}
    BY <2>3, <2>4
  <2>6. \A i, j \in DOMAIN env_free_list :
          env_free_list[i] = env_free_list[j] => i = j
    BY <1>1, <2>1
  <2> QED BY <2>5, <2>6 DEF ExactFor
<1>5. \A s \in Slots : OneReason(envs, s)
  BY <1>3 DEF OneReason
<1>6. GenBound(envs)
  BY <1>2, <1>3 DEF GenBound
<1>7. Ancestry(envs)
  BY <1>3, NullIsNoSlot DEF Ancestry, EnvId
<1>8. Orphaned(envs) /\ ThreadsOwned(envs)
  BY <1>3 DEF Orphaned, ThreadsOwned
<1>9. \A c \in CPUs : cpu_mode[c] = "boot" /\ curenv[c] = NULL
  BY DEF Init
<1>10. RunsOnOneCpu /\ CpuState
  BY <1>3, <1>9 DEF RunsOnOneCpu, CpuState, OnCpu
<1> QED BY <1>0, <1>4, <1>5, <1>6, <1>7, <1>8, <1>10 DEF SafetyInv, TableInv

(* The handlers that write only what one environment waits for.            *)
LEMMA OneSlotTable ==
  ASSUME SafetyInv, NEW s \in Slots, NEW es \in [Slots -> Env],
         \A t \in Slots \ {s} : es[t] = envs[t],
         es[s].gen = envs[s].gen, es[s].type = envs[s].type,
         es[s].parent = envs[s].parent, es[s].pgdir = envs[s].pgdir,
         es[s].status = "FREE" <=> envs[s].status = "FREE",
         es[s].status = "DYING" <=> envs[s].status = "DYING",
         OneReason(es, s)
  PROVE  TableInv(es, env_free_list)
<1>1. SameFamily(envs, es)
  BY DEF SameFamily
<1>2. \A t \in Slots : OneReason(es, t)
  BY DEF SafetyInv, TableInv, OneReason, Live
<1> QED BY <1>1, <1>2, SameFamilyInv DEF SafetyInv

LEMMA TimerSafe ==
  ASSUME SafetyInv, NEW c \in CPUs, Timer(c)
  PROVE  Safe'
<1> DEFINE es == Woken(envs, ticks')
<1>t. envs \in [Slots -> Env]
  BY DEF SafetyInv, TypeInv, TypeOK
<1>1. es \in [Slots -> Env]
  BY <1>t, WokenType
<1>2. \A s \in Slots :
        \/ es[s] = envs[s]
        \/ /\ envs[s].status = "NOT_RUNNABLE"
           /\ envs[s].sleep_until # 0
           /\ es[s] = [envs[s] EXCEPT !.sleep_until = 0, !.status = "RUNNABLE"]
  BY DEF Woken
<1>3. SchedYield(c, curenv[c], es)
  BY DEF Timer
<1> HIDE DEF es
<1>4. \A s \in Slots :
        \/ es[s] = envs[s]
        \/ /\ envs[s].status = "NOT_RUNNABLE" /\ es[s].status = "RUNNABLE"
           /\ envs[s].sleep_until # 0 /\ es[s].sleep_until = 0
           /\ es[s].recving = envs[s].recving
           /\ es[s].gen = envs[s].gen
           /\ es[s].type = envs[s].type
           /\ es[s].parent = envs[s].parent
           /\ es[s].pgdir = envs[s].pgdir
  <2> TAKE s \in Slots
  <2>1. envs[s] \in Env
    BY <1>t
  <2>2. CASE es[s] = envs[s]
    BY <2>2
  <2>3. CASE /\ envs[s].status = "NOT_RUNNABLE"
             /\ envs[s].sleep_until # 0
             /\ es[s] = [envs[s] EXCEPT !.sleep_until = 0,
                                        !.status = "RUNNABLE"]
    BY <2>1, <2>3 DEF Env
  <2> QED BY <1>2, <2>2, <2>3
<1>5. SameFamily(envs, es)
  BY <1>4 DEF SameFamily
<1>6. \A s \in Slots : OneReason(es, s)
  BY <1>4 DEF SafetyInv, TableInv, OneReason, Live
<1>7. TableInv(es, env_free_list')
  <2>1. TableInv(es, env_free_list)
    BY <1>5, <1>6, SameFamilyInv DEF SafetyInv
  <2> QED BY <2>1 DEF Timer
<1>8. KeepsBusy(c, es)
  BY <1>4 DEF KeepsBusy, Busy
<1>9. EndsVisit(c, curenv[c], es)
  <2>1. CASE Trapped(c)
    <3>1. curenv[c] \in Slots /\ envs[curenv[c]].status = "RUNNING"
      BY <2>1, TrappedRunning DEF Trapped
    <3>2. es[curenv[c]].status # "DYING"
      BY <1>4, <3>1
    <3> QED BY <1>8, <2>1, <3>1, <3>2 DEF EndsVisit, Trapped
  <2>2. CASE cpu_mode[c] = "halted"
    <3>1. curenv[c] = NULL
      BY <2>2 DEF SafetyInv, CpuState
    <3> QED BY <1>8, <3>1 DEF EndsVisit
  <2> QED BY <2>1, <2>2 DEF Timer
<1>10. RunsOnOneCpu' /\ CpuState'
  BY <1>1, <1>3, <1>9, YieldOneCpu DEF SafetyInv
<1>11. TableInv(envs', env_free_list')
  BY <1>1, <1>3, <1>7, YieldTable
<1> QED BY <1>10, <1>11 DEF Safe

LEMMA BootSafe ==
  ASSUME SafetyInv, NEW c \in CPUs, Boot(c)
  PROVE  Safe'
<1>1. curenv[c] = NULL
  BY DEF Boot, SafetyInv, CpuState
<1>2. EndsVisit(c, NULL, envs)
  BY <1>1, NullIsNoSlot DEF EndsVisit, KeepsBusy
<1>3. envs \in [Slots -> Env] /\ SchedYield(c, NULL, envs)
  BY DEF SafetyInv, TypeInv, TypeOK, Boot
<1>4. RunsOnOneCpu' /\ CpuState'
  BY <1>2, <1>3, YieldOneCpu DEF SafetyInv
<1>5. TableInv(envs', env_free_list)
  BY <1>3, YieldTable DEF SafetyInv
<1> QED BY <1>4, <1>5 DEF Safe, Boot

(* sys_sleep() and sys_ipc_recv(): curenv blocks, for one reason.          *)
LEMMA BlockSafe ==
  ASSUME SafetyInv, NEW c \in CPUs, Trapped(c), UNCHANGED env_free_list,
         NEW r \in Env, r.status = "NOT_RUNNABLE",
         r.gen = envs[curenv[c]].gen, r.type = envs[curenv[c]].type,
         r.parent = envs[curenv[c]].parent, r.pgdir = envs[curenv[c]].pgdir,
         r.sleep_until # 0 => ~r.recving,
         SchedYield(c, curenv[c], [envs EXCEPT ![curenv[c]] = r])
  PROVE  Safe'
<1> DEFINE es == [envs EXCEPT ![curenv[c]] = r]
<1>1. curenv[c] \in Slots /\ envs[curenv[c]].status = "RUNNING"
  BY TrappedRunning DEF Trapped
<1>2. envs \in [Slots -> Env]
  BY DEF SafetyInv, TypeInv, TypeOK
<1>3. /\ es \in [Slots -> Env]
      /\ es[curenv[c]] = r
      /\ \A t \in Slots \ {curenv[c]} : es[t] = envs[t]
  BY <1>1, <1>2
<1>4. SchedYield(c, curenv[c], es)
  OBVIOUS
<1> HIDE DEF es
<1>5. OneReason(es, curenv[c])
  BY <1>3 DEF OneReason
<1>6. TableInv(es, env_free_list)
  BY <1>1, <1>3, <1>5, OneSlotTable
<1>7. KeepsBusy(c, es)
  BY <1>3 DEF KeepsBusy
<1> QED BY <1>3, <1>4, <1>6, <1>7, YieldSafe

(* System calls that write one environment, busy or not as before.         *)
LEMMA WriteSafe ==
  ASSUME SafetyInv, NEW c \in CPUs, Trapped(c), UNCHANGED env_free_list,
         NEW s \in Slots, NEW r \in Env,
         r.gen = envs[s].gen, r.type = envs[s].type,
         r.parent = envs[s].parent, r.pgdir = envs[s].pgdir,
         \/ r.status = envs[s].status
         \/ envs[s].status = "NOT_RUNNABLE" /\ r.status = "RUNNABLE",
         OneReason([envs EXCEPT ![s] = r], s),
         TrapReturn(c, [envs EXCEPT ![s] = r])
  PROVE  Safe'
<1> DEFINE es == [envs EXCEPT ![s] = r]
<1>1. curenv[c] \in Slots /\ envs[curenv[c]].status = "RUNNING"
  BY TrappedRunning DEF Trapped
<1>2. envs \in [Slots -> Env]
  BY DEF SafetyInv, TypeInv, TypeOK
<1>3. /\ es \in [Slots -> Env]
      /\ es[s] = r
      /\ \A t \in Slots \ {s} : es[t] = envs[t]
  BY <1>2
<1>4. TrapReturn(c, es) /\ OneReason(es, s)
  OBVIOUS
<1> HIDE DEF es
<1>5. TableInv(es, env_free_list)
  BY <1>3, <1>4, OneSlotTable
<1>6. KeepsBusy(c, es)
  BY <1>3 DEF KeepsBusy, Busy
<1>7. es[curenv[c]].status # "DYING"
  BY <1>1, <1>3
<1> QED BY <1>3, <1>4, <1>5, <1>6, <1>7, ReturnSafe

(* sys_exofork() and sys_thread_create().                                  *)
LEMMA CreateSafe ==
  ASSUME SafetyInv, ProgramsOnly, NEW c \in CPUs, Trapped(c),
         NEW p, CanAlloc(p), env_free_list' = Tail(env_free_list),
         NEW owner \in Slots, Live(envs, owner), NEW r \in Env,
         r.gen = NextGen(envs[Head(env_free_list)].gen),
         r.status \in {"RUNNABLE", "NOT_RUNNABLE"},
         r.sleep_until = 0, ~r.recving, r.parent = EnvId(envs, owner),
         r.type = "THREAD" => /\ envs[owner].type = "USER"
                              /\ r.pgdir = envs[owner].pgdir,
         TrapReturn(c, [envs EXCEPT ![Head(env_free_list)] = r])
  PROVE  Safe'
<1> DEFINE new == Head(env_free_list)
           es  == [envs EXCEPT ![new] = r]
<1>1. curenv[c] \in Slots /\ envs[curenv[c]].status = "RUNNING"
  BY TrappedRunning DEF Trapped
<1>2. envs \in [Slots -> Env] /\ env_free_list \in Seq(Slots)
  BY DEF SafetyInv, TypeInv, TypeOK
<1>3. env_free_list # <<>> /\ envs[new].gen # LastGen
  BY DEF CanAlloc
<1>4. TableInv(es, env_free_list')
  BY <1>2, <1>3, AllocTable DEF SafetyInv
<1>5. new \in Slots /\ envs[new].status = "FREE"
  <2>1. /\ Elements(env_free_list) = {s \in Slots : ~Live(envs, s)}
        /\ Distinct(env_free_list)
    BY DEF SafetyInv, TableInv, ExactFor, Elements, Distinct
  <2>2. new \in Elements(env_free_list)
    BY <1>2, <1>3, <2>1, HeadTail
  <2> QED BY <2>1, <2>2 DEF Live
<1>6. TrapReturn(c, es)
  OBVIOUS
<1> HIDE DEF new
<1>7. /\ es \in [Slots -> Env]
      /\ es[new] = r
      /\ \A t \in Slots \ {new} : es[t] = envs[t]
  BY <1>2, <1>5
<1> HIDE DEF es
<1>8. KeepsBusy(c, es)
  BY <1>5, <1>7 DEF KeepsBusy, Busy
<1>9. es[curenv[c]].status # "DYING"
  BY <1>1, <1>5, <1>7
<1> QED BY <1>4, <1>6, <1>7, <1>8, <1>9, ReturnSafe

(* sys_env_destroy() of a child, which is no thread and no zombie.         *)
LEMMA DestroySafe ==
  ASSUME SafetyInv, ProgramsOnly, NEW c \in CPUs, NEW s \in Slots,
         SysEnvDestroy(c, s)
  PROVE  Safe'
<1>1. Trapped(c) /\ s # curenv[c] /\ MayControl(envs, curenv[c], s)
  BY DEF SysEnvDestroy, Syscall
<1>2. envs[s].status # "DYING" /\ envs[s].type # "THREAD"
  BY DEF SysEnvDestroy, ProgramsOnly
<1>3. curenv[c] \in Slots /\ envs[curenv[c]].status = "RUNNING"
  BY <1>1, TrappedRunning DEF Trapped
<1>4. envs \in [Slots -> Env] /\ Live(envs, s)
  BY <1>1 DEF SafetyInv, TypeInv, TypeOK, MayControl
<1>5. CASE /\ envs[s].status = "RUNNING"
           /\ TrapReturn(c, [envs EXCEPT ![s].status = "DYING"])
           /\ UNCHANGED <<env_free_list, pp_ref>>
  <2> DEFINE r  == [envs[s] EXCEPT !.status = "DYING"]
             es == [envs EXCEPT ![s] = r]
  <2>1. /\ r \in Env /\ r.status = "DYING"
        /\ r.gen = envs[s].gen /\ r.type = envs[s].type
        /\ r.parent = envs[s].parent /\ r.pgdir = envs[s].pgdir
        /\ r.sleep_until = envs[s].sleep_until
        /\ r.recving = envs[s].recving
    <3>1. envs[s] \in Env
      BY <1>4
    <3> QED BY <3>1 DEF Env, Statuses
  <2> HIDE DEF r
  <2>2. /\ es \in [Slots -> Env]
        /\ es[s] = r
        /\ \A t \in Slots \ {s} : es[t] = envs[t]
    BY <1>4, <2>1
  <2>3. TrapReturn(c, es)
    BY <1>5 DEF r
  <2> HIDE DEF es
  <2>4. KeepsBusy(c, es)
    BY <1>5, <2>1, <2>2 DEF KeepsBusy, Busy
  <2>5. es[curenv[c]].status # "DYING"
    BY <1>1, <1>3, <2>2
  <2>6. TableInv(es, env_free_list)
    <3>0. \A t \in Slots : /\ EnvId(es, t) = EnvId(envs, t)
                           /\ Live(es, t) <=> Live(envs, t)
                           /\ es[t].parent = envs[t].parent
                           /\ es[t].type = envs[t].type
                           /\ es[t].pgdir = envs[t].pgdir
                           /\ es[t].gen = envs[t].gen
      BY <1>4, <2>1, <2>2 DEF EnvId, Live
    <3>1. ExactFor(es, env_free_list)
      <4>1. {t \in Slots : ~Live(es, t)} = {t \in Slots : ~Live(envs, t)}
        BY <3>0
      <4> QED BY <4>1 DEF SafetyInv, TableInv, ExactFor
    <3>2. \A t \in Slots : OneReason(es, t)
      BY <1>5, <2>1, <2>2 DEF SafetyInv, TableInv, OneReason, Live
    <3>3. GenBound(es) /\ Ancestry(es)
      BY <3>0 DEF SafetyInv, TableInv, GenBound, Ancestry
    <3>4. Orphaned(es)
      BY <1>2, <2>1, <2>2, <3>0 DEF SafetyInv, TableInv, Orphaned
    <3>5. ThreadsOwned(es)
      BY <1>2, <2>2, <3>0 DEF SafetyInv, TableInv, ThreadsOwned, Owns
    <3> QED BY <3>1, <3>2, <3>3, <3>4, <3>5 DEF TableInv
  <2> QED BY <1>1, <1>5, <2>2, <2>3, <2>4, <2>5, <2>6, ReturnSafe
<1>6. CASE /\ envs[s].status # "RUNNING"
           /\ EnvFree(s)
           /\ TrapReturn(c, AfterFree(envs, s))
  <2> DEFINE es == AfterFree(envs, s)
  <2>1. es \in [Slots -> Env] /\ TableInv(es, env_free_list')
    BY <1>4, <1>6, FreeTable
  <2>2. KeepsBusy(c, es)
    BY <1>2, <1>4, <1>6, FreeKeepsBusy DEF KeepsBusy, Busy
  <2>3. es[curenv[c]].status # "DYING"
    <3>1. curenv[c] \notin ThreadsOf(envs, s)
      BY <1>1, NotThreadOfChild DEF NoReentrantFree, Trapped
    <3> QED BY <1>1, <1>3, <3>1 DEF AfterFree, Freed, Zombies
  <2>4. TrapReturn(c, es)
    BY <1>6
  <2> HIDE DEF es
  <2> QED BY <1>1, <2>1, <2>2, <2>3, <2>4, ReturnSafe
<1> QED BY <1>5, <1>6 DEF SysEnvDestroy, Destroy

LEMMA NextSafe ==
  ASSUME ProgramsOnly, SafetyInv, [Next]_vars
  PROVE  SafetyInv'
<1>t. TypeInv'
  BY NextType DEF SafetyInv
<1>e. envs \in [Slots -> Env]
  BY DEF SafetyInv, TypeInv, TypeOK
<1> SUFFICES Safe'
  BY <1>t DEF SafetyInv, Safe
<1> USE DEF Syscall
<1>1. ASSUME NEW c \in CPUs, Boot(c) PROVE Safe'
  BY <1>1, BootSafe
<1>2. ASSUME NEW c \in CPUs, Timer(c) PROVE Safe'
  BY <1>2, TimerSafe
<1>3. ASSUME NEW c \in CPUs, NEW byTimer \in BOOLEAN, Reap(c, byTimer)
      PROVE  Safe'
  BY <1>3, FreeSelfSafe DEF Reap
<1>4. ASSUME NEW c \in CPUs, SysYield(c) PROVE Safe'
  <2>1. Trapped(c) /\ SchedYield(c, curenv[c], envs)
    BY <1>4 DEF SysYield
  <2>2. envs[curenv[c]].status # "DYING"
    BY <2>1 DEF Trapped
  <2>3. KeepsBusy(c, envs)
    BY DEF KeepsBusy
  <2>4. TableInv(envs, env_free_list')
    BY <1>4 DEF SysYield, SafetyInv
  <2> QED BY <1>e, <2>1, <2>2, <2>3, <2>4, YieldSafe
<1>5. ASSUME NEW c \in CPUs, NEW n \in SleepArgs, SysSleep(c, n)
      PROVE  Safe'
  <2> DEFINE r == [envs[curenv[c]] EXCEPT !.sleep_until = TickSum(ticks, n),
                                          !.status = "NOT_RUNNABLE"]
  <2>1. Trapped(c) /\ UNCHANGED env_free_list
    BY <1>5 DEF SysSleep
  <2>2. curenv[c] \in Slots /\ envs[curenv[c]].status = "RUNNING"
    BY <2>1, TrappedRunning DEF Trapped
  <2>3. TickSum(ticks, n) \in 0 .. TickMod - 1
    BY KernelAssumption, TickSumType DEF SafetyInv, TypeInv, TypeOK
  <2>4. envs[curenv[c]] \in Env /\ OneReason(envs, curenv[c])
    BY <1>e, <2>2 DEF SafetyInv, TableInv
  <2>5. ~envs[curenv[c]].recving
    BY <2>2, <2>4 DEF OneReason, Live
  <2>6. /\ r \in Env
        /\ r.status = "NOT_RUNNABLE"
        /\ r.gen = envs[curenv[c]].gen
        /\ r.type = envs[curenv[c]].type
        /\ r.parent = envs[curenv[c]].parent
        /\ r.pgdir = envs[curenv[c]].pgdir
        /\ r.recving = envs[curenv[c]].recving
    BY <2>3, <2>4 DEF Env, Statuses
  <2>7. SchedYield(c, curenv[c], [envs EXCEPT ![curenv[c]] = r])
    BY <1>5 DEF SysSleep
  <2> HIDE DEF r
  <2> QED BY <2>1, <2>5, <2>6, <2>7, BlockSafe
<1>6. ASSUME NEW c \in CPUs, SysIpcRecv(c) PROVE Safe'
  <2> DEFINE r == [envs[curenv[c]] EXCEPT !.recving = TRUE,
                                          !.status = "NOT_RUNNABLE"]
  <2>1. Trapped(c) /\ UNCHANGED env_free_list
    BY <1>6 DEF SysIpcRecv
  <2>2. curenv[c] \in Slots /\ envs[curenv[c]].status = "RUNNING"
    BY <2>1, TrappedRunning DEF Trapped
  <2>3. envs[curenv[c]] \in Env /\ OneReason(envs, curenv[c])
    BY <1>e, <2>2 DEF SafetyInv, TableInv
  <2>4. envs[curenv[c]].sleep_until = 0
    BY <2>2, <2>3 DEF OneReason, Live
  <2>5. /\ r \in Env
        /\ r.status = "NOT_RUNNABLE"
        /\ r.gen = envs[curenv[c]].gen
        /\ r.type = envs[curenv[c]].type
        /\ r.parent = envs[curenv[c]].parent
        /\ r.pgdir = envs[curenv[c]].pgdir
        /\ r.sleep_until = envs[curenv[c]].sleep_until
    BY <2>3 DEF Env, Statuses
  <2>6. SchedYield(c, curenv[c], [envs EXCEPT ![curenv[c]] = r])
    BY <1>6 DEF SysIpcRecv
  <2> HIDE DEF r
  <2> QED BY <2>1, <2>4, <2>5, <2>6, BlockSafe
<1>7. ASSUME NEW c \in CPUs, SysIpcRecvInvalid(c) PROVE Safe'
  BY <1>7 DEF SysIpcRecvInvalid, ProgramsOnly
<1>8. ASSUME NEW c \in CPUs, NEW s \in Slots, SysIpcTrySend(c, s)
      PROVE  Safe'
  <2> DEFINE r == [envs[s] EXCEPT !.recving = FALSE, !.status = "RUNNABLE"]
  <2>1. /\ Trapped(c) /\ UNCHANGED env_free_list
        /\ Live(envs, s) /\ envs[s].recving
    BY <1>8 DEF SysIpcTrySend
  <2>2. envs[s] \in Env /\ OneReason(envs, s)
    BY <1>e DEF SafetyInv, TableInv
  <2>3. envs[s].status = "NOT_RUNNABLE" /\ envs[s].sleep_until = 0
    BY <2>1, <2>2 DEF OneReason
  <2>4. /\ r \in Env
        /\ r.status = "RUNNABLE"
        /\ ~r.recving
        /\ r.gen = envs[s].gen
        /\ r.type = envs[s].type
        /\ r.parent = envs[s].parent
        /\ r.pgdir = envs[s].pgdir
        /\ r.sleep_until = envs[s].sleep_until
    BY <2>2 DEF Env, Statuses
  <2>5. TrapReturn(c, [envs EXCEPT ![s] = r])
    BY <1>8 DEF SysIpcTrySend, Received
  <2> HIDE DEF r
  <2>6. OneReason([envs EXCEPT ![s] = r], s)
    BY <1>e, <2>3, <2>4 DEF OneReason
  <2> QED BY <2>1, <2>3, <2>4, <2>5, <2>6, WriteSafe
<1>9. ASSUME NEW c \in CPUs, SysExofork(c) PROVE Safe'
  <2> DEFINE new == Head(env_free_list)
             r(p) == [NewEnv(envs[new], EnvId(envs, curenv[c]), p) EXCEPT
                        !.status = "NOT_RUNNABLE",
                        !.priority = envs[curenv[c]].priority]
  <2>1. PICK p \in Pages :
          /\ Trapped(c)
          /\ CanAlloc(p)
          /\ TrapReturn(c, [envs EXCEPT ![new] = r(p)])
          /\ env_free_list' = Tail(env_free_list)
    BY <1>9 DEF SysExofork
  <2>2. curenv[c] \in Slots /\ Live(envs, curenv[c])
    BY <2>1, TrappedRunning DEF Trapped
  <2>3. new \in Slots
    BY <2>1 DEF CanAlloc, SafetyInv, TypeInv, TypeOK
  <2> HIDE DEF new
  <2>4. NewEnv(envs[new], EnvId(envs, curenv[c]), p) \in Env
    <3>1. EnvId(envs, curenv[c]) \in (Slots \cup {NULL}) \X Nat
      BY <1>e, <2>2 DEF EnvId, Env
    <3> QED BY <1>e, <2>3, <3>1, NewEnvType
  <2>5. /\ r(p) \in Env
        /\ r(p).gen = NextGen(envs[new].gen)
        /\ r(p).status = "NOT_RUNNABLE"
        /\ r(p).sleep_until = 0
        /\ ~r(p).recving
        /\ r(p).parent = EnvId(envs, curenv[c])
        /\ r(p).type = "USER"
    <3>1. envs[curenv[c]].priority \in Priorities
      BY <1>e, <2>2 DEF Env
    <3>2. r(p) \in Env
      BY <2>4, <3>1 DEF Env, Statuses
    <3> QED BY <3>2 DEF NewEnv
  <2> HIDE DEF r
  <2> QED BY <2>1, <2>2, <2>5, CreateSafe DEF new
<1>10. ASSUME NEW c \in CPUs, SysThreadCreate(c) PROVE Safe'
  <2> DEFINE new == Head(env_free_list)
             cur == curenv[c]
             r == [NewEnv(envs[new], ThreadOwner(envs, cur), envs[cur].pgdir)
                     EXCEPT !.type = "THREAD",
                            !.priority = envs[cur].priority]
  <2>1. PICK p \in Pages :
          /\ Trapped(c)
          /\ CanAlloc(p)
          /\ TrapReturn(c, [envs EXCEPT ![new] = r])
          /\ env_free_list' = Tail(env_free_list)
    BY <1>10 DEF SysThreadCreate
  <2>2. cur \in Slots /\ envs[cur].status = "RUNNING" /\ Live(envs, cur)
    BY <2>1, TrappedRunning DEF Trapped
  <2>3. new \in Slots
    BY <2>1 DEF CanAlloc, SafetyInv, TypeInv, TypeOK
  <2> HIDE DEF new
  <2>4. PICK owner \in Slots :
          /\ Live(envs, owner)
          /\ ThreadOwner(envs, cur) = EnvId(envs, owner)
          /\ envs[owner].type = "USER"
          /\ envs[cur].pgdir = envs[owner].pgdir
    <3>1. CASE envs[cur].type = "THREAD"
      <4>1. PICK owner \in Slots : Owns(envs, owner, cur)
        BY <2>2, <3>1 DEF SafetyInv, TableInv, ThreadsOwned
      <4> QED BY <3>1, <4>1 DEF Owns, ThreadOwner
    <3>2. CASE envs[cur].type # "THREAD"
      <4>1. envs[cur].type = "USER"
        BY <1>e, <2>2, <3>2 DEF Env
      <4> QED BY <2>2, <3>2, <4>1 DEF ThreadOwner
    <3> QED BY <3>1, <3>2
  <2>5. NewEnv(envs[new], ThreadOwner(envs, cur), envs[cur].pgdir) \in Env
    <3>1. EnvId(envs, owner) \in (Slots \cup {NULL}) \X Nat
      BY <1>e DEF EnvId, Env
    <3>2. envs[cur].pgdir \in Pages \cup {NULL}
      BY <1>e, <2>2 DEF Env
    <3> QED BY <1>e, <2>3, <2>4, <3>1, <3>2, NewEnvType
  <2>6. /\ r \in Env
        /\ r.gen = NextGen(envs[new].gen)
        /\ r.status = "RUNNABLE"
        /\ r.sleep_until = 0
        /\ ~r.recving
        /\ r.parent = EnvId(envs, owner)
        /\ r.type = "THREAD"
        /\ r.pgdir = envs[owner].pgdir
    <3>1. envs[cur].priority \in Priorities
      BY <1>e, <2>2 DEF Env
    <3>2. r \in Env
      BY <2>5, <3>1 DEF Env
    <3> QED BY <2>4, <3>2 DEF NewEnv
  <2> HIDE DEF r, cur
  <2> QED BY <2>1, <2>4, <2>6, CreateSafe DEF new
<1>11. ASSUME NEW c \in CPUs, DestroySelf(c) PROVE Safe'
  BY <1>11, FreeSelfSafe DEF DestroySelf, Trapped
<1>12. ASSUME NEW c \in CPUs, NEW s \in Slots,
              NEW status \in {"RUNNABLE", "NOT_RUNNABLE"},
              SysEnvSetStatus(c, s, status)
       PROVE  Safe'
  <2> DEFINE r == [envs[s] EXCEPT !.status = status]
  <2>1. /\ Trapped(c) /\ UNCHANGED env_free_list
        /\ status = "RUNNABLE" /\ Embryo(envs[s])
        /\ TrapReturn(c, [envs EXCEPT ![s] = r])
    BY <1>12 DEF SysEnvSetStatus, ProgramsOnly
  <2>2. envs[s] \in Env
    BY <1>e
  <2>3. /\ r \in Env
        /\ r.status = "RUNNABLE"
        /\ r.gen = envs[s].gen
        /\ r.type = envs[s].type
        /\ r.parent = envs[s].parent
        /\ r.pgdir = envs[s].pgdir
        /\ r.sleep_until = 0
        /\ ~r.recving
    BY <2>1, <2>2 DEF Env, Statuses, Embryo
  <2> HIDE DEF r
  <2>4. OneReason([envs EXCEPT ![s] = r], s)
    BY <1>e, <2>3 DEF OneReason
  <2>5. envs[s].status = "NOT_RUNNABLE"
    BY <2>1 DEF Embryo
  <2> QED BY <2>1, <2>3, <2>4, <2>5, WriteSafe
<1>13. ASSUME NEW c \in CPUs, NEW s \in Slots,
              NEW priority \in 0 .. ENV_PRIORITY_MAX + 1,
              SysSetPriority(c, s, priority)
       PROVE  Safe'
  <2> DEFINE r == [envs[s] EXCEPT !.priority = priority]
  <2>1. /\ Trapped(c) /\ UNCHANGED env_free_list
        /\ TrapReturn(c, [envs EXCEPT ![s] = r])
    BY <1>13 DEF SysSetPriority
  <2>2. envs[s] \in Env /\ OneReason(envs, s)
    BY <1>e DEF SafetyInv, TableInv
  <2>3. priority \in Priorities
    BY <1>13, PolicyAssumption DEF SysSetPriority, Priorities
  <2>4. /\ r \in Env
        /\ r.status = envs[s].status
        /\ r.gen = envs[s].gen
        /\ r.type = envs[s].type
        /\ r.parent = envs[s].parent
        /\ r.pgdir = envs[s].pgdir
        /\ r.sleep_until = envs[s].sleep_until
        /\ r.recving = envs[s].recving
    BY <2>2, <2>3 DEF Env
  <2> HIDE DEF r
  <2>5. OneReason([envs EXCEPT ![s] = r], s)
    BY <1>e, <2>2, <2>4 DEF OneReason, Live
  <2> QED BY <2>1, <2>4, <2>5, WriteSafe
<1>14. ASSUME NEW c \in CPUs, NEW s \in Slots, SysEnvDestroy(c, s)
       PROVE  Safe'
  BY <1>14, DestroySafe
<1>15. CASE UNCHANGED vars
  <2>1. Safe
    BY DEF SafetyInv, Safe
  <2> QED BY <1>15, <2>1 DEF vars, Safe, CpuState, RunsOnOneCpu, OnCpu
<1> QED BY <1>1, <1>2, <1>3, <1>4, <1>5, <1>6, <1>7, <1>8, <1>9, <1>10,
           <1>11, <1>12, <1>13, <1>14, <1>15 DEF Next, Monitor

(* The inductive invariant holds in every reachable state.                 *)
THEOREM Safety == ProgramsOnly => (Spec => []SafetyInv)
<1> SUFFICES ASSUME ProgramsOnly PROVE Spec => []SafetyInv
  OBVIOUS
<1>1. Init => SafetyInv
  BY InitSafe
<1>2. SafetyInv /\ [Next]_vars => SafetyInv'
  BY NextSafe
<1> QED BY <1>1, <1>2, PTL DEF Spec

(* No environment is ever on two CPUs, and exactly the ENV_RUNNING and     *)
(* ENV_DYING ones are on one: sched_yield() may run whatever is            *)
(* ENV_RUNNABLE, and env_destroy() may free whatever is not ENV_RUNNING.   *)
THEOREM OneCpuEach == ProgramsOnly => (Spec => []RunsOnOneCpu)
<1>1. SafetyInv => RunsOnOneCpu
  BY DEF SafetyInv
<1> QED BY <1>1, Safety, PTL

(* env_free_list is exactly the ENV_FREE slots, each of them once.         *)
THEOREM FreeListCorrect == ProgramsOnly => (Spec => []FreeListExact)
<1>1. SafetyInv => FreeListExact
  BY DEF SafetyInv, TableInv, FreeListExact
<1> QED BY <1>1, Safety, PTL

(* Whoever is blocked is blocked in one system call only, and whoever is   *)
(* not blocked has nothing left over that could wake it up.                *)
THEOREM OneReasonToBlock == ProgramsOnly => (Spec => []BlockedForOneReason)
<1>1. SafetyInv => BlockedForOneReason
  BY DEF SafetyInv, TableInv, BlockedForOneReason
<1> QED BY <1>1, Safety, PTL

(* Every thread that nobody is killing has a live process that owns its    *)
(* address space, and every zombie thread has none.                        *)
THEOREM ThreadsAndProcesses ==
  ProgramsOnly => (Spec => [](ThreadsHaveOwner /\ ZombiesStayOrphans))
<1>1. SafetyInv => ThreadsHaveOwner /\ ZombiesStayOrphans
  BY DEF SafetyInv, TableInv, ThreadsHaveOwner, ZombiesStayOrphans
<1> QED BY <1>1, Safety, PTL

(* env_free() never meets the caller's own curenv among the threads of the *)
(* process it frees, where env_destroy() would not return.                 *)
THEOREM FreeReturns ==
  ProgramsOnly => (Spec => [](NobodyControlsParent /\ NoReentrantFree))
<1>1. SafetyInv => NobodyControlsParent /\ NoReentrantFree
  BY NotThreadOfChild DEF SafetyInv, TableInv, NobodyControlsParent
<1> QED BY <1>1, Safety, PTL

-----------------------------------------------------------------------------
(***************************************************************************)
(* What the environments of Kernel hold on to: page directories, counted   *)
(* in pp_ref and loaded in cr3, and wakeup times.  Both build on the       *)
(* inductive invariant SafetyInv.                                          *)
(***************************************************************************)

-----------------------------------------------------------------------------
(***************************************************************************)
(* Page directories.                                                       *)
(***************************************************************************)
Users(es, p) == {s \in Slots : es[s].pgdir = p}

RefsFor(es, refs) == \A p \in Pages : refs[p] = Cardinality(Users(es, p))

(* Exactly the live environments have a page directory. *)
HaveDirs(es) ==
  \A s \in Slots : es[s].pgdir = NULL <=> ~Live(es, s)

(* A CPU runs in the address space of its curenv, and halts in the         *)
(* kernel's own.  In the monitor it may be in either.                      *)
Loaded ==
  \A c \in CPUs :
    \/ cpu_mode[c] # "user" /\ cr3[c] = KernPgdir
    \/ /\ cpu_mode[c] \in {"user", "monitor"}
       /\ curenv[c] \in Slots
       /\ Live(envs, curenv[c])
       /\ cr3[c] = envs[curenv[c]].pgdir

RefsInv == RefsFor(envs, pp_ref) /\ HaveDirs(envs) /\ Loaded

LEMMA UsersFinite ==
  ASSUME NEW es, NEW p
  PROVE  IsFiniteSet(Users(es, p))
<1>1. IsFiniteSet(Slots)
  BY FS_Interval, PolicyAssumption DEF Slots
<1>2. Users(es, p) \subseteq Slots
  BY DEF Users
<1> QED BY <1>1, <1>2, FS_Subset

(* A handler that neither creates nor frees. *)
LEMMA SameRefs ==
  ASSUME NEW es, NEW es2, NEW refs, RefsFor(es, refs), HaveDirs(es),
         \A s \in Slots : /\ es2[s].pgdir = es[s].pgdir
                          /\ Live(es2, s) <=> Live(es, s)
  PROVE  RefsFor(es2, refs) /\ HaveDirs(es2)
<1>1. \A p : Users(es2, p) = Users(es, p)
  BY DEF Users
<1> QED BY <1>1 DEF RefsFor, HaveDirs

(* env_alloc() of a slot that was free, with page directory p.             *)
LEMMA AllocRefs ==
  ASSUME NEW es \in [Slots -> Env], NEW refs \in [Pages -> Int],
         RefsFor(es, refs), HaveDirs(es), NEW new \in Slots, ~Live(es, new),
         NEW r \in Env, r.pgdir \in Pages, r.status # "FREE"
  PROVE  /\ RefsFor([es EXCEPT ![new] = r],
                    [refs EXCEPT ![r.pgdir] = @ + 1])
         /\ HaveDirs([es EXCEPT ![new] = r])
<1> DEFINE es2   == [es EXCEPT ![new] = r]
           refs2 == [refs EXCEPT ![r.pgdir] = @ + 1]
<1>1. es2[new] = r /\ \A s \in Slots \ {new} : es2[s] = es[s]
  OBVIOUS
<1>2. NULL \notin Pages
  BY KernelAssumption
<1>3. es[new].pgdir = NULL
  BY DEF HaveDirs
<1> HIDE DEF es2
<1>4. HaveDirs(es2)
  BY <1>1, <1>2 DEF HaveDirs, Live
<1>5. RefsFor(es2, refs2)
  <2> SUFFICES ASSUME NEW p \in Pages
               PROVE  refs2[p] = Cardinality(Users(es2, p))
    BY DEF RefsFor
  <2>1. refs[p] = Cardinality(Users(es, p)) /\ IsFiniteSet(Users(es, p))
    BY UsersFinite DEF RefsFor
  <2>2. CASE p = r.pgdir
    <3>1. Users(es2, p) = Users(es, p) \cup {new}
      BY <1>1, <2>2 DEF Users
    <3>2. new \notin Users(es, p)
      BY <1>2, <1>3 DEF Users
    <3>3. Cardinality(Users(es2, p)) = Cardinality(Users(es, p)) + 1
      BY <2>1, <3>1, <3>2, FS_AddElement
    <3> QED BY <2>1, <2>2, <3>3
  <2>3. CASE p # r.pgdir
    <3>1. Users(es2, p) = Users(es, p)
      BY <1>1, <1>2, <1>3, <2>3 DEF Users
    <3> QED BY <2>1, <2>3, <3>1
  <2> QED BY <2>2, <2>3
<1> QED BY <1>4, <1>5 DEF es2

(* env_free() gives back one reference for each environment it frees.      *)
LEMMA FreeRefs ==
  ASSUME envs \in [Slots -> Env], NEW e \in Slots,
         RefsFor(envs, pp_ref), HaveDirs(envs), EnvFree(e)
  PROVE  RefsFor(AfterFree(envs, e), pp_ref') /\ HaveDirs(AfterFree(envs, e))
<1> DEFINE es == AfterFree(envs, e)
<1>1. \A s \in Slots :
        IF s \in Freed(envs, e)
        THEN es[s].pgdir = NULL /\ es[s].status = "FREE"
        ELSE es[s].pgdir = envs[s].pgdir /\ (Live(es, s) <=> Live(envs, s))
  <2> TAKE s \in Slots
  <2>1. envs[s] \in Env
    OBVIOUS
  <2>2. CASE s \in Freed(envs, e)
    BY <2>1, <2>2 DEF AfterFree, Env
  <2>3. CASE s \notin Freed(envs, e) /\ s \in Zombies(envs, e)
    BY <2>1, <2>3 DEF AfterFree, Env, Live, Zombies, ThreadsOf
  <2>4. CASE s \notin Freed(envs, e) /\ s \notin Zombies(envs, e)
    BY <2>4 DEF AfterFree, Live
  <2> QED BY <2>2, <2>3, <2>4
<1>2. Freed(envs, e) \subseteq Slots
  BY DEF Freed, ThreadsOf
<1> HIDE DEF es
<1>3. HaveDirs(es)
  BY <1>1 DEF HaveDirs, Live
<1>4. RefsFor(es, pp_ref')
  <2> SUFFICES ASSUME NEW p \in Pages
               PROVE  pp_ref'[p] = Cardinality(Users(es, p))
    BY DEF RefsFor
  <2> DEFINE gone == {s \in Freed(envs, e) : envs[s].pgdir = p}
  <2>1. p # NULL
    BY KernelAssumption
  <2>2. Users(es, p) = Users(envs, p) \ gone
    BY <1>1, <2>1 DEF Users
  <2>3. Users(envs, p) \cap gone = gone
    BY <1>2 DEF Users
  <2>4. Cardinality(Users(es, p)) = Cardinality(Users(envs, p)) - Cardinality(gone)
    <3> HIDE DEF gone
    <3> QED BY <2>2, <2>3, UsersFinite, FS_Difference
  <2>5. pp_ref'[p] = pp_ref[p] - Cardinality(gone)
    BY DEF EnvFree, RefsAfterFree
  <2> QED BY <2>4, <2>5 DEF RefsFor
<1> QED BY <1>3, <1>4 DEF es

(***************************************************************************)
(* How a handler ends: with a table es whose page directories are counted  *)
(* in pp_ref', and in which cur, if any, is alive.                         *)
(***************************************************************************)
EndsCounted(c, cur, es) ==
  /\ LockAvailable
  /\ cur # NULL => cur = curenv[c] /\ cpu_mode[c] = "user" /\ Live(es, cur)
  /\ RefsFor(es, pp_ref')
  /\ HaveDirs(es)
  /\ \A s \in Slots :
       Live(envs, s) /\ Live(es, s) => es[s].pgdir = envs[s].pgdir

LEMMA YieldRefs ==
  ASSUME SafetyInv, SafetyInv', RefsInv, NEW c \in CPUs,
         NEW cur \in Slots \cup {NULL},
         NEW es \in [Slots -> Env], EndsCounted(c, cur, es),
         SchedYield(c, cur, es)
  PROVE  RefsInv'
<1>1. SameButRunning(es, envs')
  BY YieldFields
<1>2. \A s \in Slots : /\ envs'[s].pgdir = es[s].pgdir
                       /\ Live(envs', s) <=> Live(es, s)
  BY <1>1 DEF SameButRunning, Live
<1>3. RefsFor(envs', pp_ref') /\ HaveDirs(envs')
  BY <1>2, SameRefs DEF EndsCounted
<1>4. cr3 \in [CPUs -> Pages \cup {KernPgdir, NULL}]
      /\ cpu_mode \in [CPUs -> Modes]
      /\ curenv \in [CPUs -> Slots \cup {NULL}]
  BY DEF SafetyInv, TypeInv, TypeOK
<1>5. ASSUME NEW d \in CPUs, d # c
      PROVE  \/ cpu_mode'[d] # "user" /\ cr3'[d] = KernPgdir
             \/ /\ cpu_mode'[d] \in {"user", "monitor"}
                /\ curenv'[d] \in Slots
                /\ Live(envs', curenv'[d])
                /\ cr3'[d] = envs'[curenv'[d]].pgdir
  <2>1. /\ cpu_mode'[d] = cpu_mode[d]
        /\ curenv'[d] = curenv[d]
        /\ cr3'[d] = cr3[d]
    BY <1>4, <1>5 DEF SchedYield, SchedRun, SchedHlt, SchedMonitor
  <2>2. cpu_mode[d] # "monitor"
    BY DEF EndsCounted, LockAvailable
  <2>3. CASE cpu_mode[d] # "user"
    BY <2>1, <2>2, <2>3 DEF RefsInv, Loaded
  <2>4. CASE cpu_mode[d] = "user"
    <3>1. /\ curenv[d] \in Slots
          /\ Live(envs, curenv[d])
          /\ cr3[d] = envs[curenv[d]].pgdir
      BY <2>4 DEF RefsInv, Loaded
    <3>2. envs'[curenv[d]].status \in {"RUNNING", "DYING"}
      BY <2>1, <2>4, <3>1 DEF SafetyInv, RunsOnOneCpu, OnCpu
    <3>3. Live(envs', curenv[d])
      BY <3>2 DEF Live
    <3>4. envs'[curenv[d]].pgdir = envs[curenv[d]].pgdir
      BY <1>2, <3>1, <3>3 DEF EndsCounted
    <3> QED BY <2>1, <2>4, <3>1, <3>3, <3>4
  <2> QED BY <2>3, <2>4
<1>6. \/ cpu_mode'[c] # "user" /\ cr3'[c] = KernPgdir
      \/ /\ cpu_mode'[c] \in {"user", "monitor"}
         /\ curenv'[c] \in Slots
         /\ Live(envs', curenv'[c])
         /\ cr3'[c] = envs'[curenv'[c]].pgdir
  <2>1. CASE SchedRun(c, cur, es)
    <3>1. PICK r \in Slots :
            /\ Picks(es, cur, r)
            /\ curenv' = [curenv EXCEPT ![c] = r]
            /\ cr3' = [cr3 EXCEPT ![c] = es[r].pgdir]
            /\ cpu_mode' = [cpu_mode EXCEPT ![c] = "user"]
      BY <2>1 DEF SchedRun
    <3>2. Live(es, r)
      BY <3>1
         DEF Picks, RoundRobinPicks, PrioritiesPick, Ready, CanKeepCpu, Live
    <3> QED BY <1>2, <1>4, <3>1, <3>2
  <2>2. CASE SchedHlt(c, cur, es)
    BY <1>4, <2>2 DEF SchedHlt
  <2>3. CASE SchedMonitor(c, cur, es)
    <3>1. /\ cpu_mode'[c] = "monitor"
          /\ curenv'[c] = cur
          /\ cr3'[c] = IF cur = NULL THEN KernPgdir ELSE cr3[c]
      BY <1>4, <2>3 DEF SchedMonitor
    <3>2. CASE cur = NULL
      BY <3>1, <3>2
    <3>3. CASE cur # NULL
      <4>1. /\ cur \in Slots /\ Live(envs, cur)
            /\ cr3[c] = envs[cur].pgdir
        BY <3>3 DEF EndsCounted, RefsInv, Loaded
      <4> QED BY <1>2, <3>1, <3>3, <4>1 DEF EndsCounted
    <3> QED BY <3>2, <3>3
  <2> QED BY <2>1, <2>2, <2>3 DEF SchedYield
<1>7. Loaded'
  BY <1>5, <1>6 DEF Loaded
<1> QED BY <1>3, <1>7 DEF RefsInv

LEMMA ReturnRefs ==
  ASSUME SafetyInv, SafetyInv', RefsInv, NEW c \in CPUs,
         NEW es \in [Slots -> Env], EndsCounted(c, curenv[c], es),
         curenv[c] \in Slots, TrapReturn(c, es)
  PROVE  RefsInv'
<1>1. CASE /\ es[curenv[c]].status = "RUNNING"
           /\ envs' = es
           /\ cr3' = [cr3 EXCEPT ![c] = es[curenv[c]].pgdir]
           /\ UNCHANGED <<curenv, cpu_mode>>
  <2>1. cr3 \in [CPUs -> Pages \cup {KernPgdir, NULL}]
    BY DEF SafetyInv, TypeInv, TypeOK
  <2>2. cpu_mode[c] = "user" /\ Live(envs', curenv[c])
    BY <1>1, NullIsNoSlot DEF EndsCounted, Live
  <2>3. ASSUME NEW d \in CPUs, d # c, cpu_mode[d] = "user"
        PROVE  /\ curenv[d] \in Slots
               /\ Live(envs', curenv[d])
               /\ cr3[d] = envs'[curenv[d]].pgdir
    <3>1. /\ curenv[d] \in Slots
          /\ Live(envs, curenv[d])
          /\ cr3[d] = envs[curenv[d]].pgdir
      BY <2>3 DEF RefsInv, Loaded
    <3>2. envs'[curenv[d]].status \in {"RUNNING", "DYING"}
      BY <1>1, <2>3, <3>1 DEF SafetyInv, RunsOnOneCpu, OnCpu
    <3> QED BY <1>1, <3>1, <3>2 DEF EndsCounted, Live
  <2>4. \A d \in CPUs : cpu_mode[d] # "monitor"
    BY DEF EndsCounted, LockAvailable
  <2>5. Loaded'
    BY <1>1, <2>1, <2>2, <2>3, <2>4 DEF Loaded, RefsInv
  <2> QED BY <1>1, <2>5 DEF RefsInv, EndsCounted
<1>2. CASE SchedYield(c, curenv[c], es)
  BY <1>2, YieldRefs
<1> QED BY <1>1, <1>2 DEF TrapReturn

(* A system call that writes one environment, whose page directory stays.  *)
LEMMA WriteRefs ==
  ASSUME SafetyInv, SafetyInv', RefsInv, NEW c \in CPUs, Trapped(c),
         UNCHANGED pp_ref, NEW s \in Slots, Live(envs, s), NEW r \in Env,
         r.pgdir = envs[s].pgdir, r.status # "FREE",
         \/ SchedYield(c, curenv[c], [envs EXCEPT ![s] = r])
         \/ TrapReturn(c, [envs EXCEPT ![s] = r])
  PROVE  RefsInv'
<1> DEFINE es == [envs EXCEPT ![s] = r]
<1>1. curenv[c] \in Slots /\ Live(envs, curenv[c])
  BY TrappedRunning DEF Trapped
<1>2. envs \in [Slots -> Env]
  BY DEF SafetyInv, TypeInv, TypeOK
<1>3. es \in [Slots -> Env] /\ es[s] = r /\ \A t \in Slots \ {s} : es[t] = envs[t]
  BY <1>2
<1>4. SchedYield(c, curenv[c], es) \/ TrapReturn(c, es)
  OBVIOUS
<1> HIDE DEF es
<1>5. \A t \in Slots : /\ es[t].pgdir = envs[t].pgdir
                       /\ Live(es, t) <=> Live(envs, t)
  BY <1>3 DEF Live
<1>6. RefsFor(es, pp_ref') /\ HaveDirs(es)
  BY <1>5, SameRefs DEF RefsInv
<1>7. EndsCounted(c, curenv[c], es)
  BY <1>1, <1>5, <1>6 DEF EndsCounted, Trapped
<1> QED BY <1>1, <1>3, <1>4, <1>7, YieldRefs, ReturnRefs

(* A system call that creates an environment.                              *)
LEMMA CreateRefs ==
  ASSUME SafetyInv, SafetyInv', RefsInv, NEW c \in CPUs, Trapped(c),
         NEW p, CanAlloc(p), NEW r \in Env, r.pgdir \in Pages,
         r.status # "FREE", pp_ref' = [pp_ref EXCEPT ![r.pgdir] = @ + 1],
         TrapReturn(c, [envs EXCEPT ![Head(env_free_list)] = r])
  PROVE  RefsInv'
<1> DEFINE new == Head(env_free_list)
           es  == [envs EXCEPT ![new] = r]
<1>1. curenv[c] \in Slots /\ Live(envs, curenv[c])
  BY TrappedRunning DEF Trapped
<1>2. envs \in [Slots -> Env] /\ env_free_list \in Seq(Slots)
      /\ pp_ref \in [Pages -> Int]
  BY DEF SafetyInv, TypeInv, TypeOK
<1>3. /\ Elements(env_free_list) = {s \in Slots : ~Live(envs, s)}
      /\ Distinct(env_free_list)
  BY DEF SafetyInv, TableInv, ExactFor, Elements, Distinct
<1>4. new \in Slots /\ ~Live(envs, new)
  BY <1>2, <1>3, HeadTail DEF CanAlloc
<1>5. TrapReturn(c, es)
  OBVIOUS
<1> HIDE DEF new
<1>6. /\ es \in [Slots -> Env] /\ es[new] = r
      /\ \A t \in Slots \ {new} : es[t] = envs[t]
  BY <1>2, <1>4
<1>7. RefsFor(es, pp_ref') /\ HaveDirs(es)
  BY <1>2, <1>4, AllocRefs DEF RefsInv
<1> HIDE DEF es
<1>8. EndsCounted(c, curenv[c], es)
  BY <1>1, <1>4, <1>6, <1>7 DEF EndsCounted, Trapped, Live
<1> QED BY <1>1, <1>5, <1>6, <1>8, ReturnRefs

LEMMA FreedDirs ==
  ASSUME SafetyInv, RefsInv, NEW c \in CPUs, LockAvailable,
         NEW cur \in Slots \cup {NULL}, NEW e \in Slots, Live(envs, e),
         EnvFree(e),
         cur # NULL => /\ cur = curenv[c] /\ cpu_mode[c] = "user"
                       /\ Live(AfterFree(envs, e), cur)
  PROVE  /\ AfterFree(envs, e) \in [Slots -> Env]
         /\ EndsCounted(c, cur, AfterFree(envs, e))
<1> DEFINE es == AfterFree(envs, e)
<1>1. envs \in [Slots -> Env]
  BY DEF SafetyInv, TypeInv, TypeOK
<1>2. es \in [Slots -> Env]
  BY FreeTable
<1>3. RefsFor(es, pp_ref') /\ HaveDirs(es)
  BY <1>1, FreeRefs DEF RefsInv
<1>4. \A s \in Slots : Live(es, s) => es[s].pgdir = envs[s].pgdir
  <2> TAKE s \in Slots
  <2>1. envs[s] \in Env
    BY <1>1
  <2>2. CASE s \in Freed(envs, e)
    BY <2>1, <2>2 DEF AfterFree, Env, Live
  <2>3. CASE s \notin Freed(envs, e)
    BY <2>1, <2>3 DEF AfterFree, Env
  <2> QED BY <2>2, <2>3
<1> QED BY <1>2, <1>3, <1>4 DEF EndsCounted

LEMMA InitRefs == Init => RefsInv
<1> SUFFICES ASSUME Init PROVE RefsInv
  OBVIOUS
<1>1. /\ NBoot \in Nat /\ NENV \in Nat /\ NBoot <= NENV
      /\ NULL \notin Pages
  BY KernelAssumption, PolicyAssumption
<1>2. /\ BootPgdir \in [0 .. NBoot - 1 -> Pages]
      /\ \A i, j \in 0 .. NBoot - 1 : BootPgdir[i] = BootPgdir[j] => i = j
  BY KernelAssumption DEF BootPgdir
<1>3. \A s \in Slots :
        IF s \in 0 .. NBoot - 1
        THEN envs[s].pgdir = BootPgdir[s] /\ envs[s].status = "RUNNABLE"
        ELSE envs[s].pgdir = NULL /\ envs[s].status = "FREE"
  BY <1>1 DEF Init, NewEnv, ZeroedEnv, Slots
<1>4. 0 .. NBoot - 1 \subseteq Slots
  BY <1>1 DEF Slots
<1>5. HaveDirs(envs)
  BY <1>1, <1>2, <1>3 DEF HaveDirs, Live
<1>6. RefsFor(envs, pp_ref)
  <2> SUFFICES ASSUME NEW p \in Pages
               PROVE  pp_ref[p] = Cardinality(Users(envs, p))
    BY DEF RefsFor
  <2>1. CASE \E i \in 0 .. NBoot - 1 : BootPgdir[i] = p
    <3>1. PICK i \in 0 .. NBoot - 1 : BootPgdir[i] = p
      BY <2>1
    <3>2. Users(envs, p) = {i}
      BY <1>1, <1>2, <1>3, <1>4, <3>1 DEF Users
    <3>3. pp_ref[p] = 1
      BY <2>1 DEF Init
    <3> QED BY <3>2, <3>3, FS_Singleton
  <2>2. CASE ~\E i \in 0 .. NBoot - 1 : BootPgdir[i] = p
    <3>1. Users(envs, p) = {}
      BY <1>1, <1>3, <2>2 DEF Users
    <3>2. pp_ref[p] = 0
      BY <2>2 DEF Init
    <3> QED BY <3>1, <3>2, FS_EmptySet
  <2> QED BY <2>1, <2>2
<1>7. Loaded
  BY DEF Init, Loaded
<1> QED BY <1>5, <1>6, <1>7 DEF RefsInv

LEMMA NextRefs ==
  ASSUME ProgramsOnly, SafetyInv, SafetyInv', RefsInv, [Next]_vars
  PROVE  RefsInv'
<1>e. envs \in [Slots -> Env]
  BY DEF SafetyInv, TypeInv, TypeOK
<1>n. NULL \in Slots \cup {NULL}
  OBVIOUS
<1> USE DEF Syscall
<1>1. ASSUME NEW c \in CPUs, Boot(c) PROVE RefsInv'
  <2>1. EndsCounted(c, NULL, envs)
    BY <1>1 DEF Boot, EndsCounted, RefsInv
  <2> QED BY <1>1, <1>e, <1>n, <2>1, YieldRefs DEF Boot
<1>2. ASSUME NEW c \in CPUs, Timer(c) PROVE RefsInv'
  <2> DEFINE es == Woken(envs, ticks')
  <2>1. es \in [Slots -> Env] /\ SchedYield(c, curenv[c], es)
    BY <1>2, <1>e, WokenType DEF Timer
  <2>2. \A s \in Slots : /\ es[s].pgdir = envs[s].pgdir
                         /\ Live(es, s) <=> Live(envs, s)
    <3> TAKE s \in Slots
    <3>1. envs[s] \in Env
      BY <1>e
    <3> QED BY <3>1 DEF Woken, Live, Env
  <2> HIDE DEF es
  <2>3. RefsFor(es, pp_ref') /\ HaveDirs(es)
    BY <1>2, <2>2, SameRefs DEF RefsInv, Timer
  <2>4. /\ LockAvailable
        /\ curenv[c] \in Slots \cup {NULL}
        /\ curenv[c] # NULL =>
             cpu_mode[c] = "user" /\ Live(envs, curenv[c])
    <3>1. curenv[c] \in Slots \cup {NULL}
      BY DEF SafetyInv, TypeInv, TypeOK
    <3>2. CASE cpu_mode[c] = "user"
      BY <1>2, <3>1, <3>2, TrappedRunning DEF Timer, Trapped
    <3>3. CASE cpu_mode[c] = "halted"
      BY <1>2, <3>1, <3>3 DEF SafetyInv, CpuState, Timer, Trapped
    <3> QED BY <1>2, <3>2, <3>3 DEF Timer, Trapped
  <2>5. EndsCounted(c, curenv[c], es)
    BY <2>2, <2>3, <2>4 DEF EndsCounted
  <2> QED BY <2>1, <2>4, <2>5, YieldRefs
<1>3. ASSUME NEW c \in CPUs, LockAvailable, cpu_mode[c] = "user",
             EnvFree(curenv[c]),
             SchedYield(c, NULL, AfterFree(envs, curenv[c]))
      PROVE  RefsInv'
  <2>1. curenv[c] \in Slots /\ Live(envs, curenv[c])
    BY <1>3, TrappedRunning
  <2>2. /\ AfterFree(envs, curenv[c]) \in [Slots -> Env]
        /\ EndsCounted(c, NULL, AfterFree(envs, curenv[c]))
    BY <1>3, <1>n, <2>1, FreedDirs
  <2> QED BY <1>3, <1>n, <2>2, YieldRefs
<1>4. ASSUME NEW c \in CPUs, SysYield(c) PROVE RefsInv'
  <2>1. curenv[c] \in Slots /\ Live(envs, curenv[c])
    BY <1>4, TrappedRunning DEF SysYield, Trapped
  <2>2. EndsCounted(c, curenv[c], envs)
    BY <1>4, <2>1 DEF SysYield, EndsCounted, RefsInv, Trapped
  <2> QED BY <1>4, <1>e, <2>1, <2>2, YieldRefs DEF SysYield
<1>5. ASSUME NEW c \in CPUs, NEW n \in SleepArgs, SysSleep(c, n)
      PROVE  RefsInv'
  <2> DEFINE r == [envs[curenv[c]] EXCEPT !.sleep_until = TickSum(ticks, n),
                                          !.status = "NOT_RUNNABLE"]
  <2>1. /\ Trapped(c) /\ UNCHANGED pp_ref
        /\ SchedYield(c, curenv[c], [envs EXCEPT ![curenv[c]] = r])
    BY <1>5 DEF SysSleep
  <2>2. curenv[c] \in Slots /\ Live(envs, curenv[c])
    BY <2>1, TrappedRunning DEF Trapped
  <2>3. TickSum(ticks, n) \in 0 .. TickMod - 1
    BY KernelAssumption, TickSumType DEF SafetyInv, TypeInv, TypeOK
  <2>4. r \in Env /\ r.status = "NOT_RUNNABLE" /\ r.pgdir = envs[curenv[c]].pgdir
    <3>1. envs[curenv[c]] \in Env
      BY <1>e, <2>2
    <3> QED BY <2>3, <3>1 DEF Env, Statuses
  <2> HIDE DEF r
  <2> QED BY <2>1, <2>2, <2>4, WriteRefs
<1>6. ASSUME NEW c \in CPUs, SysIpcRecv(c) PROVE RefsInv'
  <2> DEFINE r == [envs[curenv[c]] EXCEPT !.recving = TRUE,
                                          !.status = "NOT_RUNNABLE"]
  <2>1. /\ Trapped(c) /\ UNCHANGED pp_ref
        /\ SchedYield(c, curenv[c], [envs EXCEPT ![curenv[c]] = r])
    BY <1>6 DEF SysIpcRecv
  <2>2. curenv[c] \in Slots /\ Live(envs, curenv[c])
    BY <2>1, TrappedRunning DEF Trapped
  <2>3. r \in Env /\ r.status = "NOT_RUNNABLE" /\ r.pgdir = envs[curenv[c]].pgdir
    <3>1. envs[curenv[c]] \in Env
      BY <1>e, <2>2
    <3> QED BY <3>1 DEF Env, Statuses
  <2> HIDE DEF r
  <2> QED BY <2>1, <2>2, <2>3, WriteRefs
<1>7. ASSUME NEW c \in CPUs, NEW s \in Slots, SysIpcTrySend(c, s)
      PROVE  RefsInv'
  <2> DEFINE r == [envs[s] EXCEPT !.recving = FALSE, !.status = "RUNNABLE"]
  <2>1. /\ Trapped(c) /\ UNCHANGED pp_ref /\ Live(envs, s)
        /\ TrapReturn(c, [envs EXCEPT ![s] = r])
    BY <1>7 DEF SysIpcTrySend, Received
  <2>2. r \in Env /\ r.status = "RUNNABLE" /\ r.pgdir = envs[s].pgdir
    <3>1. envs[s] \in Env
      BY <1>e
    <3> QED BY <3>1 DEF Env, Statuses
  <2> HIDE DEF r
  <2> QED BY <2>1, <2>2, WriteRefs
<1>8. ASSUME NEW c \in CPUs, SysExofork(c) PROVE RefsInv'
  <2> DEFINE new == Head(env_free_list)
             r(p) == [NewEnv(envs[new], EnvId(envs, curenv[c]), p) EXCEPT
                        !.status = "NOT_RUNNABLE",
                        !.priority = envs[curenv[c]].priority]
  <2>1. PICK p \in Pages :
          /\ Trapped(c)
          /\ CanAlloc(p)
          /\ TrapReturn(c, [envs EXCEPT ![new] = r(p)])
          /\ pp_ref' = [pp_ref EXCEPT ![p] = @ + 1]
    BY <1>8 DEF SysExofork
  <2>2. curenv[c] \in Slots
    BY <2>1, TrappedRunning DEF Trapped
  <2>3. new \in Slots
    BY <2>1 DEF CanAlloc, SafetyInv, TypeInv, TypeOK
  <2> HIDE DEF new
  <2>4. NewEnv(envs[new], EnvId(envs, curenv[c]), p) \in Env
    <3>1. EnvId(envs, curenv[c]) \in (Slots \cup {NULL}) \X Nat
      BY <1>e, <2>2 DEF EnvId, Env
    <3> QED BY <1>e, <2>3, <3>1, NewEnvType
  <2>5. r(p) \in Env /\ r(p).status = "NOT_RUNNABLE" /\ r(p).pgdir = p
    <3>1. envs[curenv[c]].priority \in Priorities
      BY <1>e, <2>2 DEF Env
    <3>2. r(p) \in Env
      BY <2>4, <3>1 DEF Env, Statuses
    <3> QED BY <3>2 DEF NewEnv
  <2> HIDE DEF r
  <2> QED BY <2>1, <2>5, CreateRefs DEF new
<1>9. ASSUME NEW c \in CPUs, SysThreadCreate(c) PROVE RefsInv'
  <2> DEFINE new == Head(env_free_list)
             cur == curenv[c]
             r == [NewEnv(envs[new], ThreadOwner(envs, cur), envs[cur].pgdir)
                     EXCEPT !.type = "THREAD",
                            !.priority = envs[cur].priority]
  <2>1. PICK p \in Pages :
          /\ Trapped(c)
          /\ CanAlloc(p)
          /\ TrapReturn(c, [envs EXCEPT ![new] = r])
          /\ pp_ref' = [pp_ref EXCEPT ![envs[cur].pgdir] = @ + 1]
    BY <1>9 DEF SysThreadCreate, RefsWithThread
  <2>2. cur \in Slots /\ Live(envs, cur) /\ envs[cur] \in Env
    BY <1>e, <2>1, TrappedRunning DEF Trapped
  <2>3. new \in Slots
    BY <2>1 DEF CanAlloc, SafetyInv, TypeInv, TypeOK
  <2>4. envs[cur].pgdir \in Pages
    BY <2>2 DEF RefsInv, HaveDirs, Env
  <2> HIDE DEF new
  <2>5. NewEnv(envs[new], ThreadOwner(envs, cur), envs[cur].pgdir) \in Env
    <3>1. ThreadOwner(envs, cur) \in (Slots \cup {NULL}) \X Nat
      BY <2>2 DEF ThreadOwner, EnvId, Env
    <3> QED BY <1>e, <2>3, <2>4, <3>1, NewEnvType
  <2>6. r \in Env /\ r.status = "RUNNABLE" /\ r.pgdir = envs[cur].pgdir
    <3>1. envs[cur].priority \in Priorities
      BY <2>2 DEF Env
    <3>2. r \in Env
      BY <2>5, <3>1 DEF Env
    <3> QED BY <3>2 DEF NewEnv
  <2> HIDE DEF r
  <2> QED BY <2>1, <2>4, <2>6, CreateRefs DEF new
<1>10. ASSUME NEW c \in CPUs, NEW s \in Slots,
              NEW status \in {"RUNNABLE", "NOT_RUNNABLE"},
              SysEnvSetStatus(c, s, status)
       PROVE  RefsInv'
  <2> DEFINE r == [envs[s] EXCEPT !.status = status]
  <2>1. /\ Trapped(c) /\ UNCHANGED pp_ref /\ Live(envs, s)
        /\ TrapReturn(c, [envs EXCEPT ![s] = r])
    BY <1>10 DEF SysEnvSetStatus, MayControl
  <2>2. r \in Env /\ r.status # "FREE" /\ r.pgdir = envs[s].pgdir
    <3>1. envs[s] \in Env
      BY <1>e
    <3> QED BY <3>1 DEF Env, Statuses
  <2> HIDE DEF r
  <2> QED BY <2>1, <2>2, WriteRefs
<1>11. ASSUME NEW c \in CPUs, NEW s \in Slots,
              NEW priority \in 0 .. ENV_PRIORITY_MAX + 1,
              SysSetPriority(c, s, priority)
       PROVE  RefsInv'
  <2> DEFINE r == [envs[s] EXCEPT !.priority = priority]
  <2>1. /\ Trapped(c) /\ UNCHANGED pp_ref /\ Live(envs, s)
        /\ TrapReturn(c, [envs EXCEPT ![s] = r])
    BY <1>11 DEF SysSetPriority, MayControl
  <2>2. r \in Env /\ r.status # "FREE" /\ r.pgdir = envs[s].pgdir
    <3>1. envs[s] \in Env /\ envs[s].status # "FREE"
      BY <1>e, <2>1 DEF Live
    <3>2. priority \in Priorities
      BY <1>11, PolicyAssumption DEF SysSetPriority, Priorities
    <3> QED BY <3>1, <3>2 DEF Env
  <2> HIDE DEF r
  <2> QED BY <2>1, <2>2, WriteRefs
<1>12. ASSUME NEW c \in CPUs, NEW s \in Slots, SysEnvDestroy(c, s)
       PROVE  RefsInv'
  <2>1. /\ Trapped(c) /\ s # curenv[c]
        /\ MayControl(envs, curenv[c], s) /\ Live(envs, s)
    BY <1>12 DEF SysEnvDestroy, MayControl
  <2>2. curenv[c] \in Slots /\ Live(envs, curenv[c])
    BY <2>1, TrappedRunning DEF Trapped
  <2>3. CASE /\ TrapReturn(c, [envs EXCEPT ![s].status = "DYING"])
             /\ UNCHANGED <<env_free_list, pp_ref>>
    <3> DEFINE r == [envs[s] EXCEPT !.status = "DYING"]
    <3>1. TrapReturn(c, [envs EXCEPT ![s] = r])
      BY <2>3
    <3>2. r \in Env /\ r.status = "DYING" /\ r.pgdir = envs[s].pgdir
      <4>1. envs[s] \in Env
        BY <1>e
      <4> QED BY <4>1 DEF Env, Statuses
    <3> HIDE DEF r
    <3> QED BY <2>1, <2>3, <3>1, <3>2, WriteRefs
  <2>4. CASE EnvFree(s) /\ TrapReturn(c, AfterFree(envs, s))
    <3>1. curenv[c] \notin ThreadsOf(envs, s)
      BY <2>1, NotThreadOfChild DEF NoReentrantFree, Trapped
    <3>2. Live(AfterFree(envs, s), curenv[c])
      BY <2>1, <2>2, <3>1 DEF AfterFree, Freed, Zombies, Live
    <3>3. /\ AfterFree(envs, s) \in [Slots -> Env]
          /\ EndsCounted(c, curenv[c], AfterFree(envs, s))
      BY <2>1, <2>2, <2>4, <3>2, FreedDirs DEF Trapped
    <3> QED BY <2>2, <2>4, <3>3, ReturnRefs
  <2> QED BY <1>12, <2>3, <2>4 DEF SysEnvDestroy, Destroy
<1>13. CASE UNCHANGED vars
  BY <1>13 DEF vars, RefsInv, Loaded
<1>14. ASSUME NEW c \in CPUs, SysIpcRecvInvalid(c) PROVE RefsInv'
  BY <1>14 DEF SysIpcRecvInvalid, ProgramsOnly
<1>15. ASSUME NEW c \in CPUs, DestroySelf(c) PROVE RefsInv'
  BY <1>3, <1>15 DEF DestroySelf, Trapped
<1>16. ASSUME NEW c \in CPUs, NEW byTimer \in BOOLEAN, Reap(c, byTimer)
       PROVE  RefsInv'
  BY <1>3, <1>16 DEF Reap
<1> QED BY <1>1, <1>2, <1>4, <1>5, <1>6, <1>7, <1>8, <1>9, <1>10, <1>11,
           <1>12, <1>13, <1>14, <1>15, <1>16 DEF Next, Monitor

LEMMA RefsGivePgdirRefs ==
  ASSUME SafetyInv, RefsInv
  PROVE  PgdirRefs
<1>1. \A p \in Pages : pp_ref[p] = Cardinality({s \in Slots : envs[s].pgdir = p})
  BY DEF RefsInv, RefsFor, Users
<1>2. ASSUME NEW c \in CPUs, cr3[c] # KernPgdir
      PROVE  cr3[c] \in Pages /\ pp_ref[cr3[c]] > 0
  <2>1. /\ curenv[c] \in Slots /\ Live(envs, curenv[c])
        /\ cr3[c] = envs[curenv[c]].pgdir
    BY <1>2 DEF RefsInv, Loaded
  <2>2. envs[curenv[c]] \in Env
    BY <2>1 DEF SafetyInv, TypeInv, TypeOK
  <2>3. cr3[c] \in Pages
    BY <2>1, <2>2 DEF RefsInv, HaveDirs, Env
  <2>4. curenv[c] \in Users(envs, cr3[c])
    BY <2>1 DEF Users
  <2>5. /\ Cardinality(Users(envs, cr3[c])) \in Nat
        /\ Cardinality(Users(envs, cr3[c])) # 0
    BY <2>4, UsersFinite, FS_EmptySet, FS_CardinalityType
  <2>6. pp_ref[cr3[c]] = Cardinality(Users(envs, cr3[c]))
    BY <2>3 DEF RefsInv, RefsFor
  <2> QED BY <2>3, <2>5, <2>6
<1> QED BY <1>1, <1>2 DEF PgdirRefs

(* pp_ref of every page directory is the number of environments that run   *)
(* in it, whatever threads are created, killed or left behind as zombies,  *)
(* and no CPU ever has a page directory loaded that page_decref() has      *)
(* given back.                                                             *)
THEOREM PageDirectoriesCounted == ProgramsOnly => (Spec => []PgdirRefs)
<1> SUFFICES ASSUME ProgramsOnly PROVE Spec => []PgdirRefs
  OBVIOUS
<1>1. Init => RefsInv
  BY InitRefs
<1>2. SafetyInv /\ SafetyInv' /\ RefsInv /\ [Next]_vars => RefsInv'
  BY NextRefs
<1>3. SafetyInv /\ RefsInv => PgdirRefs
  BY RefsGivePgdirRefs
<1>4. Spec => []SafetyInv
  BY Safety
<1> QED BY <1>1, <1>2, <1>3, <1>4, PTL DEF Spec

-----------------------------------------------------------------------------
(***************************************************************************)
(* Wakeup times.  `ticks' does not wrap around: it stays within LastTick,  *)
(* and so do the times that sleepers wait for.                             *)
(***************************************************************************)
NoTickWrap == LastTick < TickMod

Awake == {"RUNNABLE", "RUNNING"}

NotOverdue(es, now) == \A s \in Slots : Asleep(es, s) => now < es[s].sleep_until

TimeInv == ticks <= LastTick /\ NotOverdue(envs, ticks)

(* Table es has woken nobody of envs before its time, at time now. *)
NotEarly(es, now) ==
  \A s \in Slots :
    Asleep(envs, s) /\ es[s].status \in Awake =>
      es[s].gen # envs[s].gen \/ now >= envs[s].sleep_until

(* What the scheduler adds to what the handler did: nothing. *)
OnTime(es, now) == NotOverdue(es, now) /\ NotEarly(es, now)

LEMMA YieldOnTime ==
  ASSUME NEW c \in CPUs, NEW cur, NEW es \in [Slots -> Env],
         OnTime(es, ticks'), SchedYield(c, cur, es) \/ TrapReturn(c, es)
  PROVE  OnTime(envs', ticks')
<1>1. SchedYield(c, cur, es) \/ SchedYield(c, curenv[c], es) \/ envs' = es
  BY DEF TrapReturn
<1>2. SameButRunning(es, envs')
  BY <1>1, YieldFields DEF SameButRunning
<1> QED BY <1>2 DEF OnTime, NotOverdue, NotEarly, Asleep, SameButRunning, Awake

(* A handler that changes one environment, which does not sleep too short. *)
LEMMA WriteOnTime ==
  ASSUME SafetyInv, TimeInv, UNCHANGED ticks, NEW s \in Slots, NEW r \in Env,
         r.status = "NOT_RUNNABLE" => ticks < r.sleep_until \/ r.sleep_until = 0,
         Asleep(envs, s) => r.status \notin Awake
  PROVE  /\ [envs EXCEPT ![s] = r] \in [Slots -> Env]
         /\ OnTime([envs EXCEPT ![s] = r], ticks')
<1> DEFINE es == [envs EXCEPT ![s] = r]
<1>1. envs \in [Slots -> Env]
  BY DEF SafetyInv, TypeInv, TypeOK
<1>2. es \in [Slots -> Env] /\ es[s] = r /\ \A t \in Slots \ {s} : es[t] = envs[t]
  BY <1>1
<1> HIDE DEF es
<1>3. NotOverdue(es, ticks')
  BY <1>2 DEF TimeInv, NotOverdue, Asleep
<1>4. NotEarly(es, ticks')
  <2> SUFFICES ASSUME NEW t \in Slots, Asleep(envs, t), es[t].status \in Awake
               PROVE  FALSE
    BY DEF NotEarly
  <2> QED BY <1>2 DEF Asleep, Awake
<1> QED BY <1>2, <1>3, <1>4 DEF OnTime, es

LEMMA FreeOnTime ==
  ASSUME SafetyInv, TimeInv, UNCHANGED ticks, NEW e \in Slots
  PROVE  /\ AfterFree(envs, e) \in [Slots -> Env]
         /\ OnTime(AfterFree(envs, e), ticks')
<1> DEFINE es == AfterFree(envs, e)
<1>1. envs \in [Slots -> Env]
  BY DEF SafetyInv, TypeInv, TypeOK
<1>2. es \in [Slots -> Env]
  BY <1>1, AfterFreeType
<1>3. \A s \in Slots : es[s] = envs[s] \/ es[s].status \in {"FREE", "DYING"}
  <2> TAKE s \in Slots
  <2>1. envs[s] \in Env
    BY <1>1
  <2> QED BY <2>1 DEF AfterFree, Env
<1> HIDE DEF es
<1>4. OnTime(es, ticks')
  BY <1>3 DEF OnTime, TimeInv, NotOverdue, NotEarly, Asleep, Awake
<1> QED BY <1>2, <1>4 DEF es

(* The timer wakes up exactly those whose time has come.                   *)
LEMMA TimerOnTime ==
  ASSUME NoTickWrap, SafetyInv, TimeInv, NEW c \in CPUs, Timer(c)
  PROVE  OnTime(envs', ticks') /\ ticks' <= LastTick
<1> DEFINE es == Woken(envs, ticks')
<1>1. envs \in [Slots -> Env]
  BY DEF SafetyInv, TypeInv, TypeOK
<1>2. es \in [Slots -> Env] /\ SchedYield(c, curenv[c], es)
  BY <1>1, WokenType DEF Timer
<1>3. ticks' \in Int /\ ticks' <= LastTick
  <2>1. /\ ticks \in Int /\ LastTick \in Int /\ TickMod \in Int
        /\ ticks <= LastTick /\ LastTick < TickMod
    BY KernelAssumption DEF SafetyInv, TypeInv, TypeOK, TimeInv, NoTickWrap
  <2>2. ticks' = IF ticks = LastTick THEN ticks ELSE TickSum(ticks, 1)
    BY DEF Timer
  <2> QED BY <2>1, <2>2 DEF TickSum
<1>4. ASSUME NEW s \in Slots
      PROVE  \/ /\ es[s] = envs[s]
                /\ Asleep(envs, s) => ticks' < envs[s].sleep_until
             \/ /\ es[s].status = "RUNNABLE"
                /\ envs[s].sleep_until <= ticks'
  <2>1. envs[s] \in Env /\ envs[s].sleep_until \in Int
    BY <1>1 DEF Env
  <2> QED BY <1>3, <2>1 DEF Woken, Asleep, Env
<1>t. \A s \in Slots : envs[s].sleep_until \in Int
  BY <1>1 DEF Env
<1> HIDE DEF es
<1>5. OnTime(es, ticks')
  BY <1>3, <1>4, <1>t DEF OnTime, NotOverdue, NotEarly, Asleep, Awake
<1>6. OnTime(envs', ticks')
  BY <1>2, <1>5, YieldOnTime
<1> QED BY <1>3, <1>6

LEMMA InitTime == Init => TimeInv
<1> SUFFICES ASSUME Init PROVE TimeInv
  OBVIOUS
<1>1. \A s \in Slots : envs[s].status # "NOT_RUNNABLE"
  BY DEF Init, NewEnv, ZeroedEnv
<1> QED BY <1>1, KernelAssumption DEF Init, TimeInv, NotOverdue, Asleep

LEMMA NextTime ==
  ASSUME ProgramsOnly, NoTickWrap, SafetyInv, TimeInv, Next
  PROVE  OnTime(envs', ticks') /\ ticks' <= LastTick
<1> USE DEF Syscall
<1>e. envs \in [Slots -> Env]
  BY DEF SafetyInv, TypeInv, TypeOK
<1>o. OnTime(envs, ticks)
  <2>1. \A s \in Slots : Asleep(envs, s) => envs[s].status \notin Awake
    BY DEF Asleep, Awake
  <2> QED BY <2>1 DEF TimeInv, OnTime, NotEarly
<1>k. ASSUME UNCHANGED ticks PROVE ticks' <= LastTick
  BY <1>k DEF TimeInv
<1>1. ASSUME NEW c \in CPUs, Boot(c) \/ SysYield(c)
      PROVE  OnTime(envs', ticks') /\ ticks' <= LastTick
  <2>1. /\ UNCHANGED ticks
        /\ SchedYield(c, NULL, envs) \/ SchedYield(c, curenv[c], envs)
    BY <1>1 DEF Boot, SysYield
  <2>2. OnTime(envs, ticks')
    BY <1>o, <2>1
  <2> QED BY <1>e, <1>k, <2>1, <2>2, YieldOnTime
<1>2. ASSUME NEW c \in CPUs, Timer(c)
      PROVE  OnTime(envs', ticks') /\ ticks' <= LastTick
  BY <1>2, TimerOnTime
<1>3. ASSUME NEW c \in CPUs, cpu_mode[c] = "user", UNCHANGED ticks,
             SchedYield(c, NULL, AfterFree(envs, curenv[c]))
      PROVE  OnTime(envs', ticks') /\ ticks' <= LastTick
  <2>1. curenv[c] \in Slots
    BY <1>3, TrappedRunning
  <2>2. /\ AfterFree(envs, curenv[c]) \in [Slots -> Env]
        /\ OnTime(AfterFree(envs, curenv[c]), ticks')
    BY <1>3, <2>1, FreeOnTime
  <2> QED BY <1>3, <1>k, <2>2, YieldOnTime
<1>4. ASSUME NEW c \in CPUs, NEW n \in SleepArgs, SysSleep(c, n)
      PROVE  OnTime(envs', ticks') /\ ticks' <= LastTick
  <2> DEFINE r == [envs[curenv[c]] EXCEPT !.sleep_until = TickSum(ticks, n),
                                          !.status = "NOT_RUNNABLE"]
  <2>1. /\ Trapped(c) /\ UNCHANGED ticks
        /\ SchedYield(c, curenv[c], [envs EXCEPT ![curenv[c]] = r])
    BY <1>4 DEF SysSleep
  <2>2. curenv[c] \in Slots
    BY <2>1, TrappedRunning DEF Trapped
  <2>3. /\ TickSum(ticks, n) \in 0 .. TickMod - 1
        /\ ticks < TickSum(ticks, n)
    <3>1. ticks \in 0 .. TickMod - 1 /\ n \in 0 .. TickMod - 1
      BY KernelAssumption DEF SafetyInv, TypeInv, TypeOK
    <3>2. n # 0 /\ (ticks + n <= LastTick \/ LastTick >= TickMod)
      BY <1>4 DEF SysSleep
    <3>3. LastTick \in Int /\ TickMod \in Int /\ LastTick < TickMod
      BY KernelAssumption DEF NoTickWrap
    <3> QED BY <3>1, <3>2, <3>3 DEF TickSum
  <2>4. /\ r \in Env /\ r.status = "NOT_RUNNABLE"
        /\ ticks < r.sleep_until
    <3>1. envs[curenv[c]] \in Env
      BY <1>e, <2>2
    <3> QED BY <2>3, <3>1 DEF Env, Statuses
  <2> HIDE DEF r
  <2>5. /\ [envs EXCEPT ![curenv[c]] = r] \in [Slots -> Env]
        /\ OnTime([envs EXCEPT ![curenv[c]] = r], ticks')
    BY <2>1, <2>2, <2>4, WriteOnTime DEF Awake
  <2> QED BY <1>k, <2>1, <2>5, YieldOnTime
<1>5. ASSUME NEW c \in CPUs, SysIpcRecv(c)
      PROVE  OnTime(envs', ticks') /\ ticks' <= LastTick
  <2> DEFINE r == [envs[curenv[c]] EXCEPT !.recving = TRUE,
                                          !.status = "NOT_RUNNABLE"]
  <2>1. /\ Trapped(c) /\ UNCHANGED ticks
        /\ SchedYield(c, curenv[c], [envs EXCEPT ![curenv[c]] = r])
    BY <1>5 DEF SysIpcRecv
  <2>2. curenv[c] \in Slots /\ envs[curenv[c]].status = "RUNNING"
    BY <2>1, TrappedRunning DEF Trapped
  <2>3. envs[curenv[c]] \in Env /\ OneReason(envs, curenv[c])
    BY <1>e, <2>2 DEF SafetyInv, TableInv
  <2>4. envs[curenv[c]].sleep_until = 0
    BY <2>2, <2>3 DEF OneReason, Live
  <2>5. r \in Env /\ r.status = "NOT_RUNNABLE" /\ r.sleep_until = 0
    BY <2>3, <2>4 DEF Env, Statuses
  <2> HIDE DEF r
  <2>6. /\ [envs EXCEPT ![curenv[c]] = r] \in [Slots -> Env]
        /\ OnTime([envs EXCEPT ![curenv[c]] = r], ticks')
    BY <2>1, <2>2, <2>5, WriteOnTime DEF Awake
  <2> QED BY <1>k, <2>1, <2>6, YieldOnTime
<1>6. ASSUME NEW c \in CPUs, NEW s \in Slots, SysIpcTrySend(c, s)
      PROVE  OnTime(envs', ticks') /\ ticks' <= LastTick
  <2> DEFINE r == [envs[s] EXCEPT !.recving = FALSE, !.status = "RUNNABLE"]
  <2>1. /\ UNCHANGED ticks /\ Live(envs, s) /\ envs[s].recving
        /\ TrapReturn(c, [envs EXCEPT ![s] = r])
    BY <1>6 DEF SysIpcTrySend, Received
  <2>2. envs[s] \in Env /\ OneReason(envs, s)
    BY <1>e DEF SafetyInv, TableInv
  <2>3. ~Asleep(envs, s)
    BY <2>1, <2>2 DEF OneReason, Asleep
  <2>4. r \in Env /\ r.status = "RUNNABLE"
    BY <2>2 DEF Env, Statuses
  <2> HIDE DEF r
  <2>5. /\ [envs EXCEPT ![s] = r] \in [Slots -> Env]
        /\ OnTime([envs EXCEPT ![s] = r], ticks')
    BY <2>1, <2>3, <2>4, WriteOnTime
  <2> QED BY <1>k, <2>1, <2>5, YieldOnTime
<1>7. ASSUME NEW c \in CPUs, NEW r \in Env, NEW p, CanAlloc(p),
             UNCHANGED ticks, r.sleep_until = 0,
             TrapReturn(c, [envs EXCEPT ![Head(env_free_list)] = r])
      PROVE  OnTime(envs', ticks') /\ ticks' <= LastTick
  <2> DEFINE new == Head(env_free_list)
  <2>1. env_free_list \in Seq(Slots) /\ env_free_list # <<>>
    BY <1>7 DEF CanAlloc, SafetyInv, TypeInv, TypeOK
  <2>2. new \in Slots /\ ~Live(envs, new)
    <3>1. /\ Elements(env_free_list) = {s \in Slots : ~Live(envs, s)}
          /\ Distinct(env_free_list)
      BY DEF SafetyInv, TableInv, ExactFor, Elements, Distinct
    <3> QED BY <2>1, <3>1, HeadTail
  <2> HIDE DEF new
  <2>3. ~Asleep(envs, new)
    BY <2>2 DEF Live, Asleep
  <2>4. /\ [envs EXCEPT ![new] = r] \in [Slots -> Env]
        /\ OnTime([envs EXCEPT ![new] = r], ticks')
    BY <1>7, <2>2, <2>3, WriteOnTime
  <2> QED BY <1>7, <1>k, <2>4, YieldOnTime DEF new
<1>8. ASSUME NEW c \in CPUs, SysExofork(c)
      PROVE  OnTime(envs', ticks') /\ ticks' <= LastTick
  <2> DEFINE new == Head(env_free_list)
             r(p) == [NewEnv(envs[new], EnvId(envs, curenv[c]), p) EXCEPT
                        !.status = "NOT_RUNNABLE",
                        !.priority = envs[curenv[c]].priority]
  <2>1. PICK p \in Pages :
          /\ Trapped(c) /\ UNCHANGED ticks
          /\ CanAlloc(p)
          /\ TrapReturn(c, [envs EXCEPT ![new] = r(p)])
    BY <1>8 DEF SysExofork
  <2>2. curenv[c] \in Slots
    BY <2>1, TrappedRunning DEF Trapped
  <2>3. new \in Slots
    BY <2>1 DEF CanAlloc, SafetyInv, TypeInv, TypeOK
  <2> HIDE DEF new
  <2>4. NewEnv(envs[new], EnvId(envs, curenv[c]), p) \in Env
    <3>1. EnvId(envs, curenv[c]) \in (Slots \cup {NULL}) \X Nat
      BY <1>e, <2>2 DEF EnvId, Env
    <3> QED BY <1>e, <2>3, <3>1, NewEnvType
  <2>5. r(p) \in Env /\ r(p).sleep_until = 0
    <3>1. envs[curenv[c]].priority \in Priorities
      BY <1>e, <2>2 DEF Env
    <3>2. r(p) \in Env
      BY <2>4, <3>1 DEF Env, Statuses
    <3> QED BY <3>2 DEF NewEnv
  <2> HIDE DEF r
  <2> QED BY <1>7, <2>1, <2>5 DEF new
<1>9. ASSUME NEW c \in CPUs, SysThreadCreate(c)
      PROVE  OnTime(envs', ticks') /\ ticks' <= LastTick
  <2> DEFINE new == Head(env_free_list)
             cur == curenv[c]
             r == [NewEnv(envs[new], ThreadOwner(envs, cur), envs[cur].pgdir)
                     EXCEPT !.type = "THREAD",
                            !.priority = envs[cur].priority]
  <2>1. PICK p \in Pages :
          /\ Trapped(c) /\ UNCHANGED ticks
          /\ CanAlloc(p)
          /\ TrapReturn(c, [envs EXCEPT ![new] = r])
    BY <1>9 DEF SysThreadCreate
  <2>2. cur \in Slots /\ envs[cur] \in Env
    BY <1>e, <2>1, TrappedRunning DEF Trapped
  <2>3. new \in Slots
    BY <2>1 DEF CanAlloc, SafetyInv, TypeInv, TypeOK
  <2> HIDE DEF new
  <2>4. NewEnv(envs[new], ThreadOwner(envs, cur), envs[cur].pgdir) \in Env
    <3>1. ThreadOwner(envs, cur) \in (Slots \cup {NULL}) \X Nat
      BY <2>2 DEF ThreadOwner, EnvId, Env
    <3>2. envs[cur].pgdir \in Pages \cup {NULL}
      BY <2>2 DEF Env
    <3> QED BY <1>e, <2>3, <3>1, <3>2, NewEnvType
  <2>5. r \in Env /\ r.sleep_until = 0
    <3>1. envs[cur].priority \in Priorities
      BY <2>2 DEF Env
    <3>2. r \in Env
      BY <2>4, <3>1 DEF Env
    <3> QED BY <3>2 DEF NewEnv
  <2> HIDE DEF r
  <2> QED BY <1>7, <2>1, <2>5 DEF new
<1>10. ASSUME NEW c \in CPUs, NEW s \in Slots,
              NEW status \in {"RUNNABLE", "NOT_RUNNABLE"},
              SysEnvSetStatus(c, s, status)
       PROVE  OnTime(envs', ticks') /\ ticks' <= LastTick
  <2> DEFINE r == [envs[s] EXCEPT !.status = status]
  <2>1. /\ UNCHANGED ticks /\ Embryo(envs[s]) /\ status = "RUNNABLE"
        /\ TrapReturn(c, [envs EXCEPT ![s] = r])
    BY <1>10 DEF SysEnvSetStatus, ProgramsOnly
  <2>2. r \in Env /\ r.status = "RUNNABLE" /\ ~Asleep(envs, s)
    <3>1. envs[s] \in Env
      BY <1>e
    <3> QED BY <2>1, <3>1 DEF Env, Statuses, Asleep, Embryo
  <2> HIDE DEF r
  <2>3. /\ [envs EXCEPT ![s] = r] \in [Slots -> Env]
        /\ OnTime([envs EXCEPT ![s] = r], ticks')
    BY <2>1, <2>2, WriteOnTime
  <2> QED BY <1>k, <2>1, <2>3, YieldOnTime
<1>11. ASSUME NEW c \in CPUs, NEW s \in Slots,
              NEW priority \in 0 .. ENV_PRIORITY_MAX + 1,
              SysSetPriority(c, s, priority)
       PROVE  OnTime(envs', ticks') /\ ticks' <= LastTick
  <2> DEFINE r == [envs[s] EXCEPT !.priority = priority]
  <2>1. /\ UNCHANGED ticks
        /\ TrapReturn(c, [envs EXCEPT ![s] = r])
    BY <1>11 DEF SysSetPriority
  <2>2. /\ r \in Env
        /\ r.status = envs[s].status /\ r.sleep_until = envs[s].sleep_until
    <3>1. envs[s] \in Env
      BY <1>e
    <3>2. priority \in Priorities
      BY <1>11, PolicyAssumption DEF SysSetPriority, Priorities
    <3> QED BY <3>1, <3>2 DEF Env
  <2> HIDE DEF r
  <2>3. r.status = "NOT_RUNNABLE" => ticks < r.sleep_until \/ r.sleep_until = 0
    BY <2>2 DEF TimeInv, NotOverdue, Asleep
  <2>4. Asleep(envs, s) => r.status \notin Awake
    BY <2>2 DEF Asleep, Awake
  <2>5. /\ [envs EXCEPT ![s] = r] \in [Slots -> Env]
        /\ OnTime([envs EXCEPT ![s] = r], ticks')
    BY <2>1, <2>2, <2>3, <2>4, WriteOnTime
  <2> QED BY <1>k, <2>1, <2>5, YieldOnTime
<1>12. ASSUME NEW c \in CPUs, NEW s \in Slots, SysEnvDestroy(c, s)
       PROVE  OnTime(envs', ticks') /\ ticks' <= LastTick
  <2>1. UNCHANGED ticks
    BY <1>12 DEF SysEnvDestroy
  <2>2. CASE TrapReturn(c, [envs EXCEPT ![s].status = "DYING"])
    <3> DEFINE r == [envs[s] EXCEPT !.status = "DYING"]
    <3>1. TrapReturn(c, [envs EXCEPT ![s] = r])
      BY <2>2
    <3>2. r \in Env /\ r.status = "DYING"
      <4>1. envs[s] \in Env
        BY <1>e
      <4> QED BY <4>1 DEF Env, Statuses
    <3> HIDE DEF r
    <3>3. /\ [envs EXCEPT ![s] = r] \in [Slots -> Env]
          /\ OnTime([envs EXCEPT ![s] = r], ticks')
      BY <2>1, <3>2, WriteOnTime DEF Awake
    <3> QED BY <1>k, <2>1, <3>1, <3>3, YieldOnTime
  <2>3. CASE TrapReturn(c, AfterFree(envs, s))
    <3>1. /\ AfterFree(envs, s) \in [Slots -> Env]
          /\ OnTime(AfterFree(envs, s), ticks')
      BY <2>1, FreeOnTime
    <3> QED BY <1>k, <2>1, <2>3, <3>1, YieldOnTime
  <2> QED BY <1>12, <2>2, <2>3 DEF SysEnvDestroy, Destroy
<1>13. CASE Monitor
  BY <1>13, <1>k, <1>o DEF Monitor, vars
<1>14. ASSUME NEW c \in CPUs, SysIpcRecvInvalid(c) PROVE FALSE
  BY <1>14 DEF SysIpcRecvInvalid, ProgramsOnly
<1>15. ASSUME NEW c \in CPUs, DestroySelf(c)
       PROVE  OnTime(envs', ticks') /\ ticks' <= LastTick
  BY <1>3, <1>15 DEF DestroySelf, Trapped
<1>16. ASSUME NEW c \in CPUs, NEW byTimer \in BOOLEAN, Reap(c, byTimer)
       PROVE  OnTime(envs', ticks') /\ ticks' <= LastTick
  BY <1>3, <1>16 DEF Reap
<1> QED BY <1>1, <1>2, <1>4, <1>5, <1>6, <1>8, <1>9, <1>10, <1>11, <1>12,
           <1>13, <1>14, <1>15, <1>16 DEF Next

LEMMA TimeInvariant ==
  ProgramsOnly /\ NoTickWrap => (Spec => []TimeInv)
<1> SUFFICES ASSUME ProgramsOnly, NoTickWrap PROVE Spec => []TimeInv
  OBVIOUS
<1>1. Init => TimeInv
  BY InitTime
<1>2. SafetyInv /\ TimeInv /\ [Next]_vars => TimeInv'
  <2> SUFFICES ASSUME SafetyInv, TimeInv, [Next]_vars PROVE TimeInv'
    OBVIOUS
  <2>1. CASE Next
    BY <2>1, NextTime DEF OnTime, TimeInv
  <2>2. CASE UNCHANGED vars
    BY <2>2 DEF vars, TimeInv, NotOverdue, Asleep
  <2> QED BY <2>1, <2>2
<1>3. Spec => []SafetyInv
  BY Safety
<1> QED BY <1>1, <1>2, <1>3, PTL DEF Spec

(* sched_wakeup_sleeping() leaves nobody asleep whose time has come: while *)
(* `ticks' does not wrap around, a sleeper's time is always still to come. *)
THEOREM NobodyOversleeps ==
  ProgramsOnly /\ NoTickWrap => (Spec => []SleepersNotOverdue)
<1>1. TimeInv => SleepersNotOverdue
  BY DEF TimeInv, NotOverdue, SleepersNotOverdue
<1> QED BY <1>1, TimeInvariant, PTL

(* No step of any CPU - a timer interrupt, a message, a status written by  *)
(* a parent - makes a sleeper ready or running before its time.            *)
THEOREM SleepsLongEnough ==
  ProgramsOnly /\ NoTickWrap => (Spec => NotWokenEarly)
<1> SUFFICES ASSUME ProgramsOnly, NoTickWrap PROVE Spec => NotWokenEarly
  OBVIOUS
<1>1. SafetyInv /\ TimeInv /\ [Next]_vars =>
        [\A s \in Slots :
           Asleep(envs, s) /\ envs'[s].status \in {"RUNNABLE", "RUNNING"} =>
             \/ envs'[s].gen # envs[s].gen
             \/ ticks' >= envs[s].sleep_until]_vars
  <2> SUFFICES ASSUME SafetyInv, TimeInv, Next
               PROVE  \A s \in Slots :
                        /\ Asleep(envs, s)
                        /\ envs'[s].status \in {"RUNNABLE", "RUNNING"}
                        => \/ envs'[s].gen # envs[s].gen
                           \/ ticks' >= envs[s].sleep_until
    OBVIOUS
  <2>1. NotEarly(envs', ticks')
    BY NextTime DEF OnTime
  <2> QED BY <2>1 DEF NotEarly, Awake
<1>2. Spec => []SafetyInv /\ []TimeInv
  BY Safety, TimeInvariant, PTL
<1> QED BY <1>1, <1>2, PTL DEF Spec, NotWokenEarly

(* The two invariants together, in the form in which another module can    *)
(* use them of an instance of this one.                                    *)
LEMMA KernelInductive ==
  ProgramsOnly =>
    /\ Init => SafetyInv /\ RefsInv
    /\ SafetyInv /\ RefsInv /\ [Next]_vars => SafetyInv' /\ RefsInv'
<1> SUFFICES ASSUME ProgramsOnly
             PROVE  /\ Init => SafetyInv /\ RefsInv
                    /\ SafetyInv /\ RefsInv /\ [Next]_vars => SafetyInv' /\ RefsInv'
  OBVIOUS
<1>1. Init => SafetyInv /\ RefsInv
  BY InitSafe, InitRefs
<1>2. ASSUME SafetyInv, RefsInv, [Next]_vars
      PROVE  SafetyInv' /\ RefsInv'
  <2>1. SafetyInv'
    BY <1>2, NextSafe
  <2> QED BY <1>2, <2>1, NextRefs
<1> QED BY <1>1, <1>2
=============================================================================
