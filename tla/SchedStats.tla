----------------------------- MODULE SchedStats -----------------------------
(***************************************************************************)
(* The statistics that kern/sched.c keeps of its own decisions and prints  *)
(* when the system runs out of work: runs and CPU ticks of each slot of    *)
(* envs[], CPU ticks of each priority level, and a circular history.  One  *)
(* CPU; which environment is picked is left open.                          *)
(***************************************************************************)
EXTENDS Integers, Sequences, FiniteSets

CONSTANTS
  NENV,               \* slots of envs[]
  NPRIORITIES,        \* 16 in the code
  SCHED_HISTORY_LEN,  \* 16 in the code
  MaxDecisions,       \* bound on the scheduling decisions
  MaxTicks,           \* bound on the timer interrupts
  MaxGen              \* bound on the environments that use a slot

ASSUME StatsAssumption ==
  /\ NENV \in Nat \ {0}
  /\ NPRIORITIES \in Nat \ {0}
  /\ SCHED_HISTORY_LEN \in Nat \ {0}
  /\ MaxDecisions \in Nat
  /\ MaxTicks \in Nat
  /\ MaxGen \in Nat \ {0}

Slots      == 0 .. NENV - 1
Priorities == 0 .. NPRIORITIES - 1
Ids        == Slots \X (1 .. MaxGen)    \* an env_id: slot and generation
NoId       == <<-1, 0>>                 \* env_id 0

VARIABLES
  envs,     \* per slot: generation and env_priority of its environment
  oncpu,    \* the env_id on the CPU, NoId while it is halted
  ticks,
  sched_env_stats,
  sched_history, sched_history_count,
  sched_prio_ticks,
  sched_running,  \* sched_running_id, _prio and _since
  printed,  \* (history) the lines printed for slots that were recycled
  log,      \* (history) every decision, in order
  used      \* (history) the ticks each environment really had the CPU

stats == <<sched_env_stats, sched_history, sched_history_count,
           sched_prio_ticks, sched_running, printed, log>>
vars  == <<envs, oncpu, ticks, used, stats>>

ZeroStat == [env_id |-> NoId, runs |-> 0, cputicks |-> 0]

Init ==
  /\ envs \in [Slots -> [gen : {1}, priority : Priorities]]
  /\ oncpu = NoId
  /\ ticks = 0
  /\ sched_env_stats = [s \in Slots |-> ZeroStat]
  /\ sched_history = [i \in 0 .. SCHED_HISTORY_LEN - 1 |-> NoId]
  /\ sched_history_count = 0
  /\ sched_prio_ticks = [p \in Priorities |-> 0]
  /\ sched_running = [id |-> NoId, prio |-> 0, since |-> 0]
  /\ printed = {}
  /\ log = <<>>
  /\ used = [id \in Ids |-> 0]

EnvId(s) == <<s, envs[s].gen>>
Slot(id) == id[1]                       \* ENVX(id)

-----------------------------------------------------------------------------
(***************************************************************************)
(* sched_account_cputicks(): what it adds to the slot and to the priority  *)
(* of the environment that was running, at time `now'.                     *)
(***************************************************************************)
DeltaSinceBoot(now) ==
  IF sched_running.id = NoId THEN 0 ELSE now

Delta(now) ==
  IF sched_running.id = NoId THEN 0 ELSE now - sched_running.since

AccountedStats(now) ==
  [s \in Slots |->
     IF sched_running.id # NoId /\ s = Slot(sched_running.id)
     THEN [sched_env_stats[s] EXCEPT !.cputicks = @ + Delta(now)]
     ELSE sched_env_stats[s]]

AccountedPrios(now) ==
  [sched_prio_ticks EXCEPT ![sched_running.prio] = @ + Delta(now)]

(* The slot's counters start again when another environment has taken it.  *)
RecycledStatKeeps(st, id) == [st EXCEPT !.env_id = id]
RecycledStat(st, id) ==
  IF st.env_id = id THEN st ELSE [ZeroStat EXCEPT !.env_id = id]

(* The line for the environment that had the slot before. *)
Printed(st, id) ==
  IF st.env_id \notin {id, NoId} /\ st.runs > 0
  THEN printed \cup {st} ELSE printed

HistoryIndexLate(n) == (n + 1) % SCHED_HISTORY_LEN
HistoryIndex(n) == n % SCHED_HISTORY_LEN

(* sched_run() of the environment in slot s, at time `now'. *)
SchedRun(s, now) ==
  LET id == EnvId(s)
      st == AccountedStats(now)[s]
  IN  /\ sched_history_count < MaxDecisions
      /\ sched_env_stats' = [AccountedStats(now) EXCEPT
                               ![s] = [RecycledStat(st, id) EXCEPT
                                         !.runs = @ + 1]]
      /\ printed' = Printed(st, id)
      /\ sched_prio_ticks' = AccountedPrios(now)
      /\ sched_history' = [sched_history EXCEPT
                             ![HistoryIndex(sched_history_count)] = id]
      /\ sched_history_count' = sched_history_count + 1
      /\ sched_running' = [id |-> id, prio |-> envs[s].priority,
                           since |-> now]
      /\ log' = Append(log, id)
      /\ oncpu' = id

(* sched_halt() with somebody asleep: nothing is accounted. *)
SchedHalt ==
  /\ oncpu' = NoId
  /\ UNCHANGED stats

(* A scheduling decision of a system call: the environment on the CPU      *)
(* yields, blocks or exits.                                                *)
Yield ==
  /\ oncpu # NoId \/ log = <<>>
  /\ (\E s \in Slots : SchedRun(s, ticks)) \/ SchedHalt
  /\ UNCHANGED <<envs, ticks, used>>

(* A timer interrupt: the tick, and then a decision. *)
Timer ==
  /\ ticks < MaxTicks
  /\ log # <<>>
  /\ ticks' = ticks + 1
  /\ used' = [id \in Ids |-> IF id = oncpu THEN used[id] + 1 ELSE used[id]]
  /\ (\E s \in Slots : SchedRun(s, ticks + 1))
       \/ (oncpu = NoId /\ SchedHalt)
  /\ UNCHANGED envs

(* The environment in slot s, not on the CPU, has died and env_alloc() has *)
(* given the slot to another one.                                          *)
Recycle(s) ==
  /\ EnvId(s) # oncpu
  /\ envs[s].gen < MaxGen
  /\ \E p \in Priorities :
       envs' = [envs EXCEPT ![s] = [gen |-> @.gen + 1, priority |-> p]]
  /\ UNCHANGED <<oncpu, ticks, used, stats>>

(* sys_setpriority() on it, while it runs or waits. *)
SetPriority(s) ==
  /\ \E p \in Priorities : envs' = [envs EXCEPT ![s].priority = p]
  /\ UNCHANGED <<oncpu, ticks, used, stats>>

Next == Yield \/ Timer \/ \E s \in Slots : Recycle(s) \/ SetPriority(s)

Spec == Init /\ [][Next]_vars

-----------------------------------------------------------------------------
(***************************************************************************)
(* What sched_print_stats() shows, after its own accounting.               *)
(***************************************************************************)

(* The counters of every environment that ever ran: the ones still in the  *)
(* table and the ones already printed.                                     *)
Entries ==
  {AccountedStats(ticks)[s] : s \in Slots} \cup printed

(* What the counters g hold together: the number of units <<x, 1>> ..      *)
(* <<x, g[x]>> of all the x.                                               *)
Units(g) == UNION {{x} \X (1 .. g[x]) : x \in DOMAIN g}
Total(g) == Cardinality(Units(g))

(* The two tables agree: the ticks of all environments, recycled slots     *)
(* included, add up to the ticks of all priorities, whatever priorities    *)
(* changed and slots changed hands in between.                             *)
TablesAgree ==
  Total([e \in Entries |-> e.cputicks]) = Total(AccountedPrios(ticks))

(* The history that sched_print_stats() reads backwards is the list of the *)
(* last decisions, from the newest to the oldest.                          *)
HistoryIsRecent ==
  \A i \in 0 .. SCHED_HISTORY_LEN - 1 : i < sched_history_count =>
    sched_history[(sched_history_count - 1 - i) % SCHED_HISTORY_LEN]
      = log[Len(log) - i]

(* The ticks since the first decision during which nobody had the CPU. *)
IdleTicks == ticks - Total(used)

(* What sched_account_cputicks() does guarantee: nobody is charged less    *)
(* than what it used, and nobody is charged more than it by anything but   *)
(* ticks of an idle CPU; while the CPU is never idle, charges are exact.   *)
OverchargedOnlyIdleTicks ==
  \A e \in Entries : e.env_id # NoId =>
    e.cputicks - used[e.env_id] \in 0 .. IdleTicks
=============================================================================
